----------------------- MODULE TargetVersioningProofs -----------------------
(***************************************************************************)
(* Partial commits and reverts among the operations of the store: they     *)
(* keep its locks, its sharing and the shape of its history, and whatever  *)
(* versions they link, copy, mix and lock, what these say is what was      *)
(* asked for.                                                              *)
(***************************************************************************)
EXTENDS TargetVersioning, VersioningProofs

-----------------------------------------------------------------------------
(* Identities. *)

\* A logical row is in one logical table, and a version of the table has one
\* version of it: what the side-by-side reading of head and draft relies on.
IdentitiesHold ==
  \A t, u \in TableVersions : \A x \in rowsOf[t], y \in rowsOf[u] :
    row[x].createdId = row[y].createdId =>
      table[t].createdId = table[u].createdId /\ (t = u => x = y)

\* Rows that come from rows of versions of their table, one from each.
LEMMA IdentitiesFromBefore ==
  ASSUME IdentitiesHold,
         \A u \in TableVersions : \A x \in rowsOf'[u] :
           \E t \in TableVersions : \E y \in rowsOf[t] :
             /\ table[t].createdId = table'[u].createdId
             /\ row[y].createdId = row'[x].createdId,
         \A u \in TableVersions : \A x, y \in rowsOf'[u] :
           row'[x].createdId = row'[y].createdId => x = y
  PROVE  IdentitiesHold'
<1> SUFFICES ASSUME NEW t \in TableVersions, NEW u \in TableVersions,
                    NEW x \in rowsOf'[t], NEW y \in rowsOf'[u],
                    row'[x].createdId = row'[y].createdId
             PROVE  table'[t].createdId = table'[u].createdId /\ (t = u => x = y)
  BY DEF IdentitiesHold
<1>1. PICK s \in TableVersions : \E z \in rowsOf[s] :
        /\ table[s].createdId = table'[t].createdId /\ row[z].createdId = row'[x].createdId
  OBVIOUS
<1>2. PICK v \in TableVersions : \E z \in rowsOf[v] :
        /\ table[v].createdId = table'[u].createdId /\ row[z].createdId = row'[y].createdId
  OBVIOUS
<1>3. table[s].createdId = table[v].createdId
  BY <1>1, <1>2 DEF IdentitiesHold
<1>4. QED
  BY <1>1, <1>2, <1>3

\* A step after which versions that are left have no rows but those they had.
LEMMA LessKeepsIdentities ==
  ASSUME IdentitiesHold,
         \A u \in TableVersions :
           /\ rowsOf'[u] \subseteq rowsOf[u]
           /\ rowsOf'[u] # {} => table'[u].createdId = table[u].createdId
           /\ \A x \in rowsOf'[u] : row'[x].createdId = row[x].createdId
  PROVE  IdentitiesHold'
BY DEF IdentitiesHold

\* An edit of a table, whose draft version has its rows under their identities.
LEMMA EditKeepsIdentities ==
  ASSUME IInv, IdentitiesHold, NEW r \in RevisionIds, NEW t \in tablesOf[r], TableEdit(r, t),
         table'[DraftTable(t)].createdId = table[t].createdId,
         \A x \in rowsOf'[DraftTable(t)] :
           \E y \in rowsOf[t] : row[y].createdId = row'[x].createdId,
         \A x, y \in rowsOf'[DraftTable(t)] : row'[x].createdId = row'[y].createdId => x = y,
         \A u \in TableVersions \ {DraftTable(t)} : \A x \in rowsOf'[u] :
           row'[x].createdId = row[x].createdId
  PROVE  IdentitiesHold'
<1> DEFINE v == DraftTable(t)
<1>1. t \in TableVersions /\ v \in TableVersions
  BY DraftTableFacts DEF TableEdit
<1>2. \A u \in TableVersions \ {v} : table'[u] = table[u] /\ rowsOf'[u] \subseteq rowsOf[u]
  BY DEF TableEdit
<1> HIDE DEF v
<1>3. ASSUME NEW u \in TableVersions, NEW x \in rowsOf'[u]
      PROVE  \E s \in TableVersions : \E y \in rowsOf[s] :
               /\ table[s].createdId = table'[u].createdId
               /\ row[y].createdId = row'[x].createdId
  <2>1. CASE u = v
    BY <1>1, <1>3, <2>1 DEF v
  <2>2. CASE u # v
    BY <1>2, <1>3, <2>2 DEF v
  <2>3. QED
    BY <2>1, <2>2
<1>4. ASSUME NEW u \in TableVersions, NEW x \in rowsOf'[u], NEW y \in rowsOf'[u],
             row'[x].createdId = row'[y].createdId
      PROVE  x = y
  <2>1. CASE u = v
    BY <1>4, <2>1 DEF v
  <2>2. CASE u # v
    BY <1>2, <1>4, <2>2 DEF v, IdentitiesHold
  <2>3. QED
    BY <2>1, <2>2
<1>5. QED
  BY <1>3, <1>4, IdentitiesFromBefore

\* Saved rows keep their identities.
LEMMA SavedIdentities ==
  ASSUME IInv, NEW t \in TableVersions, NEW S \in SUBSET rowsOf[t],
         RowTouches(S) # {}, NEW name, NEW data, SaveRows(S, name, data),
         \A x, y \in rowsOf[t] : row[x].createdId = row[y].createdId => x = y
  PROVE  /\ \A x \in RowsTouched(t, S) : \E y \in rowsOf[t] : row[y].createdId = row'[x].createdId
         /\ \A x, y \in RowsTouched(t, S) : row'[x].createdId = row'[y].createdId => x = y
         /\ \A u \in TableVersions : \A x \in rowsOf[u] : row'[x].createdId = row[x].createdId
<1> DEFINE w == TouchRows(S)
           source(y) == CHOOSE x \in S : w[x] = y
           saved(y) == [createdId |-> row[source(y)].createdId, id |-> name[source(y)],
                        readonly |-> FALSE, data |-> data[source(y)]]
<1>1. w \in RowTouches(S)
  BY DEF TouchRows
<1>2. /\ w \in [S -> RowVersions]
      /\ \A x, y \in S : w[x] = w[y] => x = y
      /\ \A x \in S : IF row[x].readonly THEN row[w[x]] = None ELSE w[x] = x
  BY <1>1 DEF RowTouches, Injection, IsInjective, Unused, Live, IInv, TypeOK
<1>3. Range(w) = {w[x] : x \in S}
  BY <1>2 DEF Range
<1>4. row' = [y \in RowVersions |-> IF y \in Range(w) THEN saved(y) ELSE row[y]]
  BY DEF SaveRows
<1>5. \A y \in Range(w) : source(y) \in S /\ w[source(y)] = y
  BY <1>3
<1>6. \A y : saved(y).createdId = row[source(y)].createdId
  OBVIOUS
<1>7. RowsTouched(t, S) = (rowsOf[t] \ S) \cup Range(w)
  BY DEF RowsTouched
<1> HIDE DEF source, saved, w
<1>8. \A y \in Range(w) : y \in RowVersions /\ row'[y].createdId = row[source(y)].createdId
  BY <1>2, <1>3, <1>4, <1>6
<1>9. \A u \in TableVersions : \A x \in rowsOf[u] : x \in RowVersions /\ row[x] # None
  BY DEF IInv, TypeOK, CommittedIsReadonly
<1>10. ASSUME NEW u \in TableVersions, NEW x \in rowsOf[u]
       PROVE  /\ row'[x].createdId = row[x].createdId
              /\ x \in Range(w) => source(x) = x
  <2>1. CASE x \in Range(w)
    <3>1. source(x) \in S /\ w[source(x)] = x /\ row[x] # None
      BY <1>5, <1>9, <2>1
    <3>2. source(x) = x
      BY <1>2, <3>1
    <3>3. QED
      BY <1>8, <2>1, <3>2
  <2>2. CASE x \notin Range(w)
    BY <1>4, <1>9, <2>2
  <2>3. QED
    BY <2>1, <2>2
<1>11. ASSUME NEW x \in RowsTouched(t, S)
       PROVE  LET y == IF x \in Range(w) THEN source(x) ELSE x
              IN  /\ y \in rowsOf[t] /\ row[y].createdId = row'[x].createdId
                  /\ x \in Range(w) <=> y \in S
  BY <1>5, <1>7, <1>8, <1>10
<1>12. ASSUME NEW x \in RowsTouched(t, S), NEW y \in RowsTouched(t, S),
              row'[x].createdId = row'[y].createdId
       PROVE  x = y
  BY <1>5, <1>11, <1>12
<1>13. QED
  BY <1>10, <1>11, <1>12

\* A rename clones the table with the rows it has.
LEMMA RenameTableKeepsIdentities ==
  ASSUME IInv, IdentitiesHold, NEW r \in RevisionIds, NEW t \in tablesOf[r],
         NEW n \in TableIds, RenameTable(r, t, n)
  PROVE  IdentitiesHold'
<1>1. t \in TableVersions /\ DraftTable(t) \in TableVersions
  BY DraftTableFacts DEF RenameTable
<1>2. /\ table'[DraftTable(t)].createdId = table[t].createdId
      /\ rowsOf'[DraftTable(t)] = rowsOf[t] /\ row' = row
  BY <1>1 DEF RenameTable, SaveTable, IInv, TypeOK
<1>3. QED
  BY <1>1, <1>2, RenameTableIsEdit, EditKeepsIdentities DEF TableEdit, IdentitiesHold

\* Rows are saved with their table.
LEMMA SaveRowsKeepsIdentities ==
  ASSUME IInv, IdentitiesHold, NEW r \in RevisionIds, NEW t \in tablesOf[r], TableEdit(r, t),
         NEW S \in SUBSET rowsOf[t], RowTouches(S) # {}, NEW name, NEW data,
         SaveRows(S, name, data), SaveTable(r, t, table[t].id, RowsTouched(t, S))
  PROVE  IdentitiesHold'
<1>1. t \in TableVersions /\ DraftTable(t) \in TableVersions
  BY DraftTableFacts DEF TableEdit
<1>2. /\ table'[DraftTable(t)].createdId = table[t].createdId
      /\ rowsOf'[DraftTable(t)] = RowsTouched(t, S)
  BY <1>1 DEF SaveTable, IInv, TypeOK
<1>3. /\ \A x \in RowsTouched(t, S) : \E y \in rowsOf[t] : row[y].createdId = row'[x].createdId
      /\ \A x, y \in RowsTouched(t, S) : row'[x].createdId = row'[y].createdId => x = y
      /\ \A u \in TableVersions : \A x \in rowsOf[u] : row'[x].createdId = row[x].createdId
  <2>1. \A x, y \in rowsOf[t] : row[x].createdId = row[y].createdId => x = y
    BY <1>1 DEF IdentitiesHold
  <2>2. QED
    BY <1>1, <2>1, SavedIdentities
<1>4. \A u \in TableVersions \ {DraftTable(t)} : rowsOf'[u] \subseteq rowsOf[u]
  BY DEF TableEdit
<1>5. QED
  BY <1>2, <1>3, <1>4, EditKeepsIdentities

\* A new row has an identity that no row has.
LEMMA CreateRowKeepsIdentities ==
  ASSUME IInv, IdentitiesHold, NEW r \in RevisionIds, NEW t \in tablesOf[r],
         NEW n \in RowIds, NEW d \in Data, CreateRow(r, t, n, d)
  PROVE  IdentitiesHold'
<1> DEFINE x == NewId(row)
           c == CHOOSE k \in UnusedRowCreatedIds : TRUE
           v == DraftTable(t)
<1>1. x \in RowVersions /\ row[x] = None
  BY NewRowVersion DEF CreateRow, IInv
<1>2. \A y \in RowVersions : row[y] # None => row[y].createdId # c
  BY DEF CreateRow, UnusedRowCreatedIds, Live, IInv, TypeOK
<1>3. row' = [row EXCEPT ![x] = [createdId |-> c, id |-> n, readonly |-> FALSE, data |-> d]]
      /\ SaveTable(r, t, table[t].id, rowsOf[t] \cup {x})
  BY DEF CreateRow
<1> HIDE DEF x, c
<1>4. t \in TableVersions /\ v \in TableVersions
  BY DraftTableFacts DEF CreateRow
<1>5. /\ table'[v].createdId = table[t].createdId
      /\ rowsOf'[v] = rowsOf[t] \cup {x}
      /\ \A u \in TableVersions \ {v} : table'[u] = table[u] /\ rowsOf'[u] = rowsOf[u]
  BY <1>3, <1>4 DEF SaveTable, IInv, TypeOK
<1>6. row'[x].createdId = c /\ \A y \in RowVersions \ {x} : row'[y] = row[y]
  BY <1>1, <1>3 DEF IInv, TypeOK
<1>7. \A u \in TableVersions : \A y \in rowsOf[u] :
        y \in RowVersions /\ y # x /\ row[y].createdId # c
  BY <1>1, <1>2 DEF IInv, TypeOK, CommittedIsReadonly
<1> DEFINE home(u) == IF u = v THEN t ELSE u
<1>8. \A u \in TableVersions :
        /\ home(u) \in TableVersions
        /\ table'[u].createdId = table[home(u)].createdId
        /\ rowsOf'[u] \subseteq rowsOf[home(u)] \cup {x}
        /\ x \in rowsOf'[u] => u = v
  BY <1>4, <1>5, <1>7
<1> HIDE DEF home
<1>9. ASSUME NEW u \in TableVersions, NEW w \in TableVersions,
             NEW y \in rowsOf'[u], NEW z \in rowsOf'[w],
             row'[y].createdId = row'[z].createdId
      PROVE  table'[u].createdId = table'[w].createdId /\ (u = w => y = z)
  <2>1. CASE y = x \/ z = x
    BY <1>6, <1>7, <1>8, <1>9, <2>1
  <2>2. CASE y # x /\ z # x
    <3>1. y \in rowsOf[home(u)] /\ z \in rowsOf[home(w)]
      BY <1>8, <2>2
    <3>2. row[y].createdId = row[z].createdId
      BY <1>6, <1>7, <1>8, <1>9, <2>2, <3>1
    <3>3. table[home(u)].createdId = table[home(w)].createdId /\ (home(u) = home(w) => y = z)
      BY <1>8, <3>1, <3>2 DEF IdentitiesHold
    <3>4. QED
      BY <1>8, <3>3
  <2>3. QED
    BY <2>1, <2>2
<1>10. QED
  BY <1>9 DEF IdentitiesHold

\* The rows that stay are the table's.
LEMMA RemoveRowsKeepsIdentities ==
  ASSUME IInv, IdentitiesHold, NEW r \in RevisionIds, NEW t \in tablesOf[r], NEW S,
         RemoveRows(r, t, S)
  PROVE  IdentitiesHold'
<1> DEFINE v == DraftTable(t)
           removed == {x \in S : ~row[x].readonly}
<1>1. t \in TableVersions /\ v \in TableVersions
  BY DraftTableFacts DEF RemoveRows
<1>2. /\ table' = [table EXCEPT ![v] =
             [createdId |-> table[t].createdId, id |-> table[t].id, readonly |-> FALSE]]
      /\ row' = [x \in RowVersions |-> IF x \in removed THEN None ELSE row[x]]
      /\ rowsOf' = [u \in TableVersions |->
                      IF u = v THEN rowsOf[t] \ S ELSE rowsOf[u] \ removed]
  BY DEF RemoveRows
<1>3. table'[v].createdId = table[t].createdId
  BY <1>1, <1>2 DEF IInv, TypeOK
<1>4. \A u \in TableVersions : \A x \in rowsOf'[u] :
        row'[x] = row[x] /\ (u = v => x \in rowsOf[t])
  <2>1. \A u \in TableVersions : \A x \in rowsOf[u] : x \in RowVersions
    BY DEF IInv, TypeOK
  <2>2. QED
    BY <1>1, <1>2, <2>1
<1>5. \A x, y \in rowsOf'[v] : row'[x].createdId = row'[y].createdId => x = y
  BY <1>1, <1>4 DEF IdentitiesHold
<1>6. QED
  BY <1>1, <1>3, <1>4, <1>5, RemoveRowsIsEdit, EditKeepsIdentities

\* A commit only locks.
LEMMA CommitKeepsIdentities ==
  ASSUME IInv, IdentitiesHold, NEW b \in Branches, NEW h \in RevisionIds, NEW r \in RevisionIds,
         Commit(b, h, r)
  PROVE  IdentitiesHold'
<1>1. PICK lockedRows, lockedTables :
        /\ row' = [x \in RowVersions |->
                     IF x \in lockedRows THEN [row[x] EXCEPT !.readonly = TRUE] ELSE row[x]]
        /\ table' = [t \in TableVersions |->
                       IF t \in lockedTables THEN [table[t] EXCEPT !.readonly = TRUE] ELSE table[t]]
        /\ rowsOf' = rowsOf
  BY DEF Commit, LockRows, LockTables
<1>2. \A t \in TableVersions : \A x \in rowsOf[t] :
        table[t] \in TableRecord /\ x \in RowVersions /\ row[x] \in RowRecord
  BY DEF IInv, TypeOK, CommittedIsReadonly
<1>3. \A t \in TableVersions : table[t] \in TableRecord => table'[t].createdId = table[t].createdId
  BY <1>1 DEF TableRecord
<1>4. \A x \in RowVersions : row[x] \in RowRecord => row'[x].createdId = row[x].createdId
  BY <1>1 DEF RowRecord
<1>5. QED
  BY <1>1, <1>2, <1>3, <1>4, LessKeepsIdentities

\* Every native operation keeps identities.
LEMMA StepKeepsIdentities == IInv /\ IdentitiesHold /\ Next => IdentitiesHold'
<1> SUFFICES ASSUME IInv, IdentitiesHold, Next PROVE IdentitiesHold'
  OBVIOUS
<1>1. ASSUME NEW r \in RevisionIds, EditTables(r)
      PROVE  IdentitiesHold'
  <2>1. ASSUME NEW n \in TableIds, CreateTable(r, n)
        PROVE  IdentitiesHold'
    <3> DEFINE v == NewId(table)
    <3>1. v \in TableVersions /\ table[v] = None
      BY <2>1, NewTableVersion DEF CreateTable, IInv
    <3> HIDE DEF v
    <3>2. row' = row /\ rowsOf' = rowsOf /\ \A u \in TableVersions \ {v} : table'[u] = table[u]
      BY <2>1 DEF CreateTable, v, IInv, TypeOK
    <3>3. rowsOf[v] = {}
      BY <3>1 DEF IInv, TypeOK, CommittedIsReadonly
    <3>4. QED
      BY <3>2, <3>3, LessKeepsIdentities
  <2>2. ASSUME NEW t \in tablesOf[r], RemoveTable(r, t)
        PROVE  IdentitiesHold'
    <3>1. /\ \A u \in TableVersions : rowsOf'[u] \subseteq rowsOf[u]
          /\ \A u \in TableVersions : rowsOf'[u] # {} => table'[u] = table[u]
      BY <2>2 DEF RemoveTable, IInv, TypeOK
    <3>2. \A u \in TableVersions : \A x \in rowsOf'[u] : row'[x] = row[x]
      BY <2>2 DEF RemoveTable, IInv, TypeOK
    <3>3. QED
      BY <3>1, <3>2, LessKeepsIdentities
  <2>3. QED
    BY <1>1, <2>1, <2>2, RenameTableKeepsIdentities DEF EditTables
<1>2. ASSUME NEW r \in RevisionIds, EditRows(r)
      PROVE  IdentitiesHold'
  <2>1. PICK t \in tablesOf[r] :
          \/ \E n \in RowIds, d \in Data : CreateRow(r, t, n, d)
          \/ \E S \in (SUBSET rowsOf[t]) \ {{}} :
               \/ \E d \in Data : UpdateRows(r, t, S, d)
               \/ \E name \in Injection(S, RowIds) : RenameRows(r, t, S, name)
               \/ RemoveRows(r, t, S)
    BY <1>2 DEF EditRows
  <2>2. TableEdit(r, t)
    BY <2>1, RowsOfOneTable
  <2>3. ASSUME NEW S \in SUBSET rowsOf[t], NEW d \in Data, UpdateRows(r, t, S, d)
        PROVE  IdentitiesHold'
    BY <2>2, <2>3, SaveRowsKeepsIdentities DEF UpdateRows
  <2>4. ASSUME NEW S \in SUBSET rowsOf[t], NEW name, RenameRows(r, t, S, name)
        PROVE  IdentitiesHold'
    BY <2>2, <2>4, SaveRowsKeepsIdentities DEF RenameRows
  <2>5. QED
    BY <2>1, <2>3, <2>4, CreateRowKeepsIdentities, RemoveRowsKeepsIdentities
<1>3. ASSUME NEW b \in Branches, NEW h \in RevisionIds, NEW r \in RevisionIds, Commit(b, h, r)
      PROVE  IdentitiesHold'
  BY <1>3, CommitKeepsIdentities
<1>4. ASSUME DeleteOrphanTables \/ DeleteOrphanRows
      PROVE  IdentitiesHold'
  <2>1. CASE DeleteOrphanTables
    BY <2>1, LessKeepsIdentities DEF DeleteOrphanTables
  <2>2. CASE DeleteOrphanRows
    <3>1. \A t \in TableVersions : \A x \in rowsOf[t] : row'[x] = row[x]
      BY <2>2 DEF DeleteOrphanRows, IInv, TypeOK
    <3>2. QED
      BY <2>2, <3>1, LessKeepsIdentities DEF DeleteOrphanRows
  <2>3. QED
    BY <1>4, <2>1, <2>2
<1>5. UNCHANGED <<table, row, rowsOf>> => IdentitiesHold'
  BY LessKeepsIdentities
<1>6. QED
  BY <1>1, <1>2, <1>3, <1>4, <1>5 DEF Next, Revert, CreateBranch, DeleteBranch

-----------------------------------------------------------------------------
(* What a request and its plan are. *)

\* A request for a branch, its head and its draft.
Asks(b, h, r, q) ==
  /\ IsHead(h) /\ IsDraft(r)
  /\ revision[h].branch = b /\ revision[r].branch = b
  /\ HasTablesOnce(h) /\ HasTablesOnce(r)
  /\ q \in Requests(b, h, r)

\* New versions for what it copies and for the rows it merges.
Fresh(q, tableId, rowId) ==
  /\ tableId \in Injection(CopiedTables(Plan(q)), Unused(table))
  /\ rowId \in Injection(NewRows(Plan(q)), Unused(row))

VersionsOf(q, tableId) == WrittenVersions(Plan(q), tableId)
WritesOf(q, tableId, rowId) == Written(Plan(q), tableId, rowId, q.operation = "commit")

Commits(q, tableId, rowId) ==
  CommitToTarget(q, Plan(q), WritesOf(q, tableId, rowId), VersionsOf(q, tableId))
Reverts(q, tableId, rowId) ==
  RevertToTarget(q, Plan(q), WritesOf(q, tableId, rowId), VersionsOf(q, tableId))

\* A partial operation, taken apart.
LEMMA ApplyChangesIs ==
  ASSUME NEW b, NEW h, NEW r, ApplyChanges(b, h, r)
  PROVE  \E q \in Requests(b, h, r) : \E tableId, rowId :
           /\ Asks(b, h, r, q) /\ Fresh(q, tableId, rowId) /\ applied' = q
           /\ Commits(q, tableId, rowId) \/ Reverts(q, tableId, rowId)
<1>1. /\ IsHead(h) /\ IsDraft(r)
      /\ revision[h].branch = b /\ revision[r].branch = b
      /\ HasTablesOnce(h) /\ HasTablesOnce(r)
  BY DEF ApplyChanges
<1> DEFINE tableIds(q) == Injection(CopiedTables(Plan(q)), Unused(table))
           rowIds(q) == Injection(NewRows(Plan(q)), Unused(row))
           tableId(q) == CHOOSE f \in tableIds(q) : TRUE
           rowId(q) == CHOOSE f \in rowIds(q) : TRUE
<1>2. PICK q \in Requests(b, h, r) :
        /\ tableIds(q) # {} /\ rowIds(q) # {} /\ applied' = q
        /\ Commits(q, tableId(q), rowId(q)) \/ Reverts(q, tableId(q), rowId(q))
  BY Zenon DEF ApplyChanges, Commits, Reverts, WritesOf, VersionsOf
<1>3. Fresh(q, tableId(q), rowId(q))
  BY <1>2 DEF Fresh
<1>4. QED
  BY <1>1, <1>2, <1>3, Zenon DEF Asks

\* What a request has: some of the differences, all of them for the whole draft.
RequestOf(b, h, r, q) ==
  /\ h # r /\ q.branch = b /\ q.head = h /\ q.draft = r
  /\ q.pairs = Pairs(h, r)
  /\ q.operation \in Operations
  /\ q.operation = "commit" => Unused(revision) # {}
  /\ q.parts \subseteq Parts(q.pairs)
  /\ \A c \in q.readToo :
       /\ c \in TableCreatedIds /\ TableParts(q.pairs[c], c) = {}
       /\ OnBothSides(q.pairs[c]) /\ q.pairs[c].head # q.pairs[c].draft
  /\ q.wholeDraft =>
       /\ q.parts = Parts(q.pairs)
       /\ \A c \in TableCreatedIds :
            OnBothSides(q.pairs[c]) /\ q.pairs[c].head # q.pairs[c].draft
              => c \in DOMAIN Plan(q)
  /\ HasNoCollisions(Target(q))

\* A request that is made has these.
LEMMA RequestFacts ==
  ASSUME IInv, NEW b, NEW h \in RevisionIds, NEW r \in RevisionIds, NEW q, Asks(b, h, r, q)
  PROVE  RequestOf(b, h, r, q)
<1> DEFINE pairs == Pairs(h, r)
           all == Parts(pairs)
           choices == {S \in (SUBSET all) \ {{}} :
                         \A p \in S, s \in all : Recreates(pairs, p, s) => s \in S}
           rewritten == {c \in TableCreatedIds :
                           /\ OnBothSides(pairs[c]) /\ pairs[c].head # pairs[c].draft
                           /\ TableParts(pairs[c], c) = {}}
           operations == {o \in Operations : o = "commit" => Unused(revision) # {}}
<1>1. /\ q \in [branch : {b}, head : {h}, draft : {r}, pairs : {pairs}, operation : operations,
                parts : choices, readToo : SUBSET rewritten, wholeDraft : BOOLEAN]
      /\ q.wholeDraft => q.parts = all /\ q.readToo = rewritten
      /\ HasNoCollisions(Target(q))
  BY Zenon DEF Asks, Requests
<1>2. h # r
  BY DEF Asks, IInv, HeadsAreCommitted
<1> HIDE DEF pairs, all, choices, rewritten, operations
<1>3. /\ q.branch = b /\ q.head = h /\ q.draft = r /\ q.pairs = pairs
      /\ q.operation \in operations /\ q.parts \in choices
      /\ q.readToo \subseteq rewritten /\ q.wholeDraft \in BOOLEAN
  BY <1>1
<1>4. q.parts \subseteq all /\ q.operation \in Operations
      /\ (q.operation = "commit" => Unused(revision) # {})
  BY <1>3 DEF choices, operations
<1>5. ASSUME q.wholeDraft, NEW c \in TableCreatedIds,
             OnBothSides(pairs[c]), pairs[c].head # pairs[c].draft
      PROVE  c \in DOMAIN Plan(q)
  <2>1. DOMAIN Plan(q) = q.readToo \cup {p.table : p \in q.parts}
    BY DEF Plan
  <2>2. CASE TableParts(pairs[c], c) = {}
    BY <1>1, <1>5, <2>1, <2>2 DEF rewritten
  <2>3. CASE TableParts(pairs[c], c) # {}
    <3>1. PICK p \in TableParts(pairs[c], c) : TRUE
      BY <2>3
    <3>2. p.table = c
      BY <3>1 DEF TableParts, RowParts, Part
    <3>3. p \in q.parts
      BY <1>1, <1>5, <3>1 DEF all, Parts
    <3>4. QED
      BY <2>1, <3>2, <3>3
  <2>4. QED
    BY <2>2, <2>3
<1>6. QED
  BY <1>1, <1>2, <1>3, <1>4, <1>5 DEF rewritten, all, pairs, RequestOf

\* A part names its table, and its row.
LEMMA PartFacts ==
  ASSUME NEW pair, NEW c, NEW p \in TableParts(pair, c)
  PROVE  /\ p.table = c
         /\ \/ p = Part("structure", c, None)
            \/ \E x \in RowCreatedIds : p \in RowParts(pair, c, x)
BY DEF TableParts, Part, RowParts

\* A part of a row is a part of its table, of one of three kinds.
LEMMA RowPartFacts ==
  ASSUME NEW pair, NEW c, NEW x, NEW p \in RowParts(pair, c, x)
  PROVE  /\ p.table = c /\ p.row = x
         /\ p \in {Part("existence", c, x), Part("id", c, x), Part("data", c, x)}
BY DEF RowParts, Part

\* What is planned are tables.
PlannedOf(q) ==
  /\ DOMAIN Plan(q) \subseteq TableCreatedIds
  /\ \A c \in DOMAIN Plan(q) : Plan(q)[c] = TablePlan(q, c)
  /\ \A p \in q.parts : p.table \in DOMAIN Plan(q)
  /\ \A c \in DOMAIN Plan(q) : OnBothSides(q.pairs[c]) \/ OnOneSide(q.pairs[c])

\* What is planned has a difference, or was read and has none.
LEMMA PlannedTables ==
  ASSUME IInv, NEW b, NEW h \in RevisionIds, NEW r \in RevisionIds, NEW q, Asks(b, h, r, q)
  PROVE  PlannedOf(q)
<1>1. /\ DOMAIN Plan(q) = q.readToo \cup {p.table : p \in q.parts}
      /\ \A c \in DOMAIN Plan(q) : Plan(q)[c] = TablePlan(q, c)
  BY DEF Plan
<1>0. /\ q.parts \subseteq Parts(q.pairs)
      /\ \A c \in q.readToo : c \in TableCreatedIds /\ OnBothSides(q.pairs[c])
  BY RequestFacts DEF RequestOf
<1>2. ASSUME NEW p \in q.parts
      PROVE  /\ p.table \in TableCreatedIds
             /\ OnBothSides(q.pairs[p.table]) \/ OnOneSide(q.pairs[p.table])
  <2>1. PICK c \in TableCreatedIds : p \in TableParts(q.pairs[c], c)
    BY <1>0 DEF Parts
  <2>2. p.table = c
    BY <2>1, PartFacts
  <2>3. OnBothSides(q.pairs[c]) \/ OnOneSide(q.pairs[c])
    BY <2>1 DEF TableParts
  <2>4. QED
    BY <2>2, <2>3
<1>3. QED
  BY <1>0, <1>1, <1>2 DEF PlannedOf

-----------------------------------------------------------------------------
(* The versions of a table on both sides. *)

Versions(q, c) == {q.pairs[c].head, q.pairs[c].draft} \ {None}
OtherVersion(q, c) == q.pairs[c][Opposite(StructureSide(q, c))]

\* A version of a table, and of a row in it.
LEMMA RowInFacts ==
  ASSUME IInv, IdentitiesHold, NEW t \in TableVersions \cup {None}
  PROVE  /\ \A k : RowIn(t, k) = None \/ /\ t \in TableVersions /\ RowIn(t, k) \in rowsOf[t]
                                         /\ row[RowIn(t, k)].createdId = k
         /\ t \in TableVersions => \A x \in rowsOf[t] :
              /\ x \in RowVersions /\ x # None /\ row[x] \in RowRecord
              /\ row[x].createdId \in RowCreatedIds
              /\ RowIn(t, row[x].createdId) = x
<1>1. \A k : RowIn(t, k) = None \/ /\ t \in TableVersions /\ RowIn(t, k) \in rowsOf[t]
                                   /\ row[RowIn(t, k)].createdId = k
  BY DEF RowIn
<1>2. ASSUME t \in TableVersions, NEW x \in rowsOf[t]
      PROVE  /\ x \in RowVersions /\ x # None /\ row[x] \in RowRecord
             /\ row[x].createdId \in RowCreatedIds
  BY <1>2, VersionAssumption DEF IInv, TypeOK, CommittedIsReadonly, RowRecord
<1>3. ASSUME t \in TableVersions, NEW x \in rowsOf[t]
      PROVE  RowIn(t, row[x].createdId) = x
  <2>1. t # None
    BY <1>3, VersionAssumption
  <2> DEFINE v == CHOOSE v \in rowsOf[t] : row[v].createdId = row[x].createdId
  <2>2. RowIn(t, row[x].createdId) = v
    BY <1>3, <2>1 DEF RowIn
  <2>3. v \in rowsOf[t] /\ row[v].createdId = row[x].createdId
    BY <1>3
  <2>4. QED
    BY <1>3, <2>2, <2>3 DEF IdentitiesHold
<1>4. QED
  BY <1>1, <1>2, <1>3

\* The version of a logical table that a revision links.
LEMMA VersionInFacts ==
  ASSUME IInv, NEW p \in RevisionIds, HasTablesOnce(p)
  PROVE  /\ \A c : VersionIn(p, c) = None \/ /\ VersionIn(p, c) \in tablesOf[p]
                                             /\ table[VersionIn(p, c)].createdId = c
         /\ \A t \in tablesOf[p] :
              /\ t \in TableVersions /\ t # None /\ table[t] \in TableRecord
              /\ table[t].createdId \in TableCreatedIds
              /\ VersionIn(p, table[t].createdId) = t
<1>1. \A c : VersionIn(p, c) = None \/ /\ VersionIn(p, c) \in tablesOf[p]
                                       /\ table[VersionIn(p, c)].createdId = c
  BY DEF VersionIn
<1>2. ASSUME NEW t \in tablesOf[p]
      PROVE  /\ t \in TableVersions /\ t # None /\ table[t] \in TableRecord
             /\ table[t].createdId \in TableCreatedIds
  BY VersionAssumption DEF IInv, TypeOK, CommittedIsReadonly, TableRecord
<1>3. ASSUME NEW t \in tablesOf[p]
      PROVE  VersionIn(p, table[t].createdId) = t
  <2> DEFINE v == CHOOSE v \in tablesOf[p] : table[v].createdId = table[t].createdId
  <2>1. VersionIn(p, table[t].createdId) = v
    BY DEF VersionIn
  <2>2. v \in tablesOf[p] /\ table[v].createdId = table[t].createdId
    OBVIOUS
  <2>3. QED
    BY <2>1, <2>2 DEF HasTablesOnce
<1>4. QED
  BY <1>1, <1>2, <1>3

\* The two sides of a table: versions of it that the head and the draft link.
PairOf(h, r, q, c) ==
  /\ q.pairs[c].head = VersionIn(h, c) /\ q.pairs[c].draft = VersionIn(r, c)
  /\ q.pairs[c].head \in tablesOf[h] \cup {None}
  /\ q.pairs[c].draft \in tablesOf[r] \cup {None}
  /\ \A t \in Versions(q, c) :
       /\ t \in TableVersions /\ table[t] \in TableRecord /\ table[t].createdId = c
       /\ t \in tablesOf[h] \/ t \in tablesOf[r]
  /\ \A k \in RowCreatedIds :
       /\ q.pairs[c].rows[k].head = RowIn(q.pairs[c].head, k)
       /\ q.pairs[c].rows[k].draft = RowIn(q.pairs[c].draft, k)

\* The side-by-side reading finds them.
LEMMA PairFacts ==
  ASSUME IInv, NEW b, NEW h \in RevisionIds, NEW r \in RevisionIds, NEW q, Asks(b, h, r, q),
         NEW c \in TableCreatedIds
  PROVE  PairOf(h, r, q, c)
<1>1. q.pairs[c] = TablePair(VersionIn(h, c), VersionIn(r, c))
  <2>1. q.pairs = Pairs(h, r)
    BY RequestFacts DEF RequestOf
  <2>2. QED
    BY <2>1 DEF Pairs
<1>2. /\ q.pairs[c].head = VersionIn(h, c) /\ q.pairs[c].draft = VersionIn(r, c)
      /\ \A k \in RowCreatedIds :
           /\ q.pairs[c].rows[k].head = RowIn(q.pairs[c].head, k)
           /\ q.pairs[c].rows[k].draft = RowIn(q.pairs[c].draft, k)
  BY <1>1 DEF TablePair
<1>3. /\ VersionIn(h, c) = None \/ /\ VersionIn(h, c) \in tablesOf[h]
                                   /\ table[VersionIn(h, c)].createdId = c
      /\ VersionIn(r, c) = None \/ /\ VersionIn(r, c) \in tablesOf[r]
                                   /\ table[VersionIn(r, c)].createdId = c
      /\ \A t \in tablesOf[h] \cup tablesOf[r] : t \in TableVersions /\ table[t] \in TableRecord
  BY VersionInFacts DEF Asks
<1>4. QED
  BY <1>2, <1>3 DEF Versions, PairOf

\* Side by side, by the structure that is taken.
SidesOf(q, c) ==
  /\ \/ /\ StructureSide(q, c) = "head"
        /\ StructureVersion(q, c) = q.pairs[c].head /\ OtherVersion(q, c) = q.pairs[c].draft
     \/ /\ StructureSide(q, c) = "draft"
        /\ StructureVersion(q, c) = q.pairs[c].draft /\ OtherVersion(q, c) = q.pairs[c].head
  /\ StructureVersion(q, c) \in Versions(q, c) \cup {None}
  /\ OtherVersion(q, c) \in Versions(q, c) \cup {None}
  /\ \A k \in RowCreatedIds : /\ OwnRow(q, c, k) = RowIn(StructureVersion(q, c), k)
                              /\ OtherRow(q, c, k) = RowIn(OtherVersion(q, c), k)

\* The structure that is taken is one of the two.
LEMMA SideFacts ==
  ASSUME IInv, NEW b, NEW h \in RevisionIds, NEW r \in RevisionIds, NEW q, Asks(b, h, r, q),
         NEW c \in TableCreatedIds
  PROVE  SidesOf(q, c)
<1> PairOf(h, r, q, c)
  BY PairFacts
<1>1. \A k \in RowCreatedIds :
        /\ q.pairs[c].rows[k].head = RowIn(q.pairs[c].head, k)
        /\ q.pairs[c].rows[k].draft = RowIn(q.pairs[c].draft, k)
  BY DEF PairOf
<1>2. StructureSide(q, c) \in {"head", "draft"}
  BY DEF StructureSide, SideTakenBy, BaseSide, Opposite
<1>3. CASE StructureSide(q, c) = "head"
  BY <1>1, <1>3 DEF StructureVersion, OtherVersion, OwnRow, OtherRow, Opposite, Versions, SidesOf
<1>4. CASE StructureSide(q, c) = "draft"
  BY <1>1, <1>4 DEF StructureVersion, OtherVersion, OwnRow, OtherRow, Opposite, Versions, SidesOf
<1>5. QED
  BY <1>2, <1>3, <1>4

\* A row as the target has it is a row of either side, under its identity.
LEMMA TargetRowFacts ==
  ASSUME IInv, IdentitiesHold, NEW b, NEW h \in RevisionIds, NEW r \in RevisionIds, NEW q,
         Asks(b, h, r, q), NEW c \in TableCreatedIds, NEW k \in RowCreatedIds,
         NEW n \in TargetRow(q, c, k)
  PROVE  /\ n = [createdId |-> k, id |-> n.id, data |-> n.data]
         /\ n.createdId = k /\ n.id \in RowIds /\ n.data \in Data
         /\ TargetRow(q, c, k) = {n}
         /\ \E t \in Versions(q, c) : \E x \in rowsOf[t] : row[x].createdId = k
<1> PairOf(h, r, q, c)
  BY PairFacts
<1> DEFINE rows == q.pairs[c].rows[k]
           from(part) == row[rows[SideTakenBy(q, Part(part, c, k))]]
<1>1. /\ rows.head = RowIn(q.pairs[c].head, k) /\ rows.draft = RowIn(q.pairs[c].draft, k)
      /\ \A t \in Versions(q, c) : t \in TableVersions
      /\ q.pairs[c].head \in Versions(q, c) \cup {None}
      /\ q.pairs[c].draft \in Versions(q, c) \cup {None}
  <2>1. /\ rows.head = RowIn(q.pairs[c].head, k) /\ rows.draft = RowIn(q.pairs[c].draft, k)
        /\ \A t \in Versions(q, c) : t \in TableVersions
    BY DEF PairOf
  <2>2. QED
    BY <2>1 DEF Versions
<1>2. \A part : SideTakenBy(q, part) \in {"head", "draft"}
  BY DEF SideTakenBy, BaseSide, Opposite
<1>3. \A side \in {"head", "draft"} :
        rows[side] # None =>
          /\ row[rows[side]] \in RowRecord /\ row[rows[side]].createdId = k
          /\ \E t \in Versions(q, c) : \E x \in rowsOf[t] : row[x].createdId = k
  <2>1. ASSUME NEW t \in Versions(q, c) \cup {None}, RowIn(t, k) # None
        PROVE  /\ row[RowIn(t, k)] \in RowRecord /\ row[RowIn(t, k)].createdId = k
               /\ \E u \in Versions(q, c) : \E x \in rowsOf[u] : row[x].createdId = k
    <3>1. t \in TableVersions \cup {None}
      BY <1>1
    <3>2. t \in TableVersions /\ RowIn(t, k) \in rowsOf[t] /\ row[RowIn(t, k)].createdId = k
      BY <2>1, <3>1, RowInFacts
    <3>3. QED
      BY <2>1, <3>2, RowInFacts, VersionAssumption
  <2>2. QED
    BY <1>1, <2>1
<1>4. rows[SideTakenBy(q, Part("existence", c, k))] # None
  BY DEF TargetRow
<1>5. CASE OnBothSides(rows)
  <2>1. \A part : from(part) \in RowRecord
    BY <1>2, <1>3, <1>5 DEF OnBothSides
  <2>2. TargetRow(q, c, k) = {[createdId |-> k, id |-> from("id").id, data |-> from("data").data]}
    BY <1>4, <1>5 DEF TargetRow
  <2> HIDE DEF from
  <2>3. n = [createdId |-> k, id |-> from("id").id, data |-> from("data").data]
    BY <2>2
  <2>4. n.id \in RowIds /\ n.data \in Data
    BY <2>1, <2>3 DEF RowRecord
  <2>5. QED
    BY <1>2, <1>3, <1>4, <2>2, <2>3, <2>4
<1>6. CASE ~OnBothSides(rows)
  <2>1. from("existence") \in RowRecord /\ from("existence").createdId = k
    BY <1>2, <1>3, <1>4
  <2>2. TargetRow(q, c, k) = {RowContent(from("existence"))}
    BY <1>4, <1>6 DEF TargetRow
  <2> HIDE DEF from
  <2>3. n = RowContent(from("existence"))
    BY <2>2
  <2>4. n.createdId = k /\ n.id \in RowIds /\ n.data \in Data
        /\ n = [createdId |-> k, id |-> n.id, data |-> n.data]
    BY <2>1, <2>3 DEF RowRecord, RowContent
  <2>5. QED
    BY <1>2, <1>3, <1>4, <2>2, <2>3, <2>4
<1>7. QED
  BY <1>5, <1>6

-----------------------------------------------------------------------------
(* What a plan says of a table, and what is written. *)

PlanOf(q, c) ==
  LET p == Plan(q)[c]
  IN  /\ c \in TableCreatedIds
      /\ p.mixed \in BOOLEAN
      /\ p.mixed => OnBothSides(q.pairs[c]) /\ p.version = StructureVersion(q, c)
      /\ p.version \in Versions(q, c) \cup {None}
      /\ p.inPlace <=> p.mixed /\ EditsDraftInPlace(q, c)
      /\ p.mixed => p.added \subseteq rowsOf[OtherVersion(q, c)]
      /\ \A n \in p.newRows : \E k \in RowCreatedIds : n \in TargetRow(q, c, k)

\* A plan mixes only what is on both sides, out of what the two sides have.
LEMMA PlanFacts ==
  ASSUME IInv, IdentitiesHold, NEW b, NEW h \in RevisionIds, NEW r \in RevisionIds, NEW q,
         Asks(b, h, r, q), NEW c \in DOMAIN Plan(q)
  PROVE  PlanOf(q, c)
<1> DEFINE changed == {x \in RowCreatedIds : RowParts(q.pairs[c], c, x) # {}}
           becomes == [x \in changed |-> RowOutcome(q, c, x)]
           becoming(outcome) == {x \in changed : becomes[x] = outcome}
           outcome == IF OnBothSides(q.pairs[c]) THEN TableOutcome(q, c, becomes) ELSE "base"
           added == {OtherRow(q, c, x) : x \in becoming("otherSide")}
           newRows == UNION {TargetRow(q, c, x) : x \in becoming("merge")}
<1> PlannedOf(q)
  BY PlannedTables
<1>1. c \in TableCreatedIds /\ Plan(q)[c] = TablePlan(q, c)
  BY DEF PlannedOf
<1>2. PairOf(h, r, q, c) /\ SidesOf(q, c)
  BY <1>1, PairFacts, SideFacts
<1>3. /\ Plan(q)[c].mixed = (outcome = "mixed")
      /\ Plan(q)[c].version = IF outcome = "other" THEN OtherVersion(q, c)
                              ELSE StructureVersion(q, c)
      /\ Plan(q)[c].inPlace = (outcome = "mixed" /\ EditsDraftInPlace(q, c))
      /\ Plan(q)[c].added = added /\ Plan(q)[c].newRows = newRows
  BY <1>1 DEF TablePlan, OtherVersion
<1>4. outcome = "mixed" => OnBothSides(q.pairs[c])
  OBVIOUS
<1>5. ASSUME OnBothSides(q.pairs[c]), NEW x \in added
      PROVE  x \in rowsOf[OtherVersion(q, c)]
  <2>1. PICK k \in changed : x = OtherRow(q, c, k) /\ RowOutcome(q, c, k) = "otherSide"
    BY <1>5
  <2>2. x # None /\ x = RowIn(OtherVersion(q, c), k)
    BY <1>2, <2>1 DEF RowOutcome, SidesOf
  <2>3. OtherVersion(q, c) \in TableVersions
    BY <1>2, <1>5 DEF SidesOf, PairOf, Versions, OnBothSides
  <2>4. QED
    BY <2>2, <2>3, RowInFacts
<1>6. \A n \in newRows : \E k \in RowCreatedIds : n \in TargetRow(q, c, k)
  OBVIOUS
<1> HIDE DEF outcome, added, newRows
<1>7. /\ StructureVersion(q, c) \in Versions(q, c) \cup {None}
      /\ OtherVersion(q, c) \in Versions(q, c) \cup {None}
  BY <1>2 DEF SidesOf
<1>8. Plan(q)[c].mixed => Plan(q)[c].added \subseteq rowsOf[OtherVersion(q, c)]
  BY <1>3, <1>4, <1>5
<1>9. /\ Plan(q)[c].mixed \in BOOLEAN
      /\ Plan(q)[c].mixed =>
           OnBothSides(q.pairs[c]) /\ Plan(q)[c].version = StructureVersion(q, c)
      /\ Plan(q)[c].inPlace <=> Plan(q)[c].mixed /\ EditsDraftInPlace(q, c)
  BY <1>3, <1>4
<1>10. Plan(q)[c].version \in Versions(q, c) \cup {None}
  BY <1>3, <1>7
<1>11. \A n \in Plan(q)[c].newRows : \E k \in RowCreatedIds : n \in TargetRow(q, c, k)
  BY <1>3, <1>6
<1>12. QED
  BY <1>1, <1>8, <1>9, <1>10, <1>11 DEF PlanOf

\* The rows of a table that is mixed.
Mixture(q, c, rowId) ==
  (rowsOf[Plan(q)[c].version] \ Plan(q)[c].removed) \cup Plan(q)[c].added
    \cup {rowId[n] : n \in Plan(q)[c].newRows}

\* A table goes on with the version that is planned, or with one that is written
\* for it: a new one, or the draft's own if that is mutable.
VersionsAre(q, tableId, rowId) ==
  LET db == WritesOf(q, tableId, rowId)
      version == VersionsOf(q, tableId)
  IN  /\ DOMAIN version = DOMAIN Plan(q)
      /\ \A c \in DOMAIN Plan(q) : ~Plan(q)[c].mixed => version[c] = Plan(q)[c].version
      /\ \A c \in DOMAIN Plan(q) : Plan(q)[c].mixed =>
           /\ version[c] \in TableVersions /\ db.table[version[c]] \in TableRecord
           /\ db.table[version[c]].createdId = c
           /\ db.table[version[c]].id = table[Plan(q)[c].version].id
           /\ db.rowsOf[version[c]] = Mixture(q, c, rowId)
           /\ \/ table[version[c]] = None
              \/ /\ q.operation = "revert" /\ version[c] = q.pairs[c].draft
                 /\ Plan(q)[c].version = version[c]
                 /\ ~table[version[c]].readonly /\ db.table[version[c]] = table[version[c]]

\* Versions that exist keep their records, and others than those above their rows.
OldTablesAre(q, tableId, rowId) ==
  LET db == WritesOf(q, tableId, rowId)
      version == VersionsOf(q, tableId)
  IN  \A t \in TableVersions :
        /\ table[t] # None => db.table[t] = table[t]
        /\ table[t] = None =>
             \/ db.table[t] = None
             \/ /\ db.table[t].readonly = (q.operation = "commit")
                /\ \E c \in DOMAIN Plan(q) : Plan(q)[c].mixed /\ version[c] = t
        /\ (\A c \in DOMAIN Plan(q) : Plan(q)[c].mixed => version[c] # t)
             => db.rowsOf[t] = rowsOf[t]

\* New rows are new, and say what they were made for; no two are one.
RowsAre(q, tableId, rowId) ==
  LET db == WritesOf(q, tableId, rowId)
  IN  /\ \A x \in RowVersions :
           /\ row[x] # None => db.row[x] = row[x]
           /\ row[x] = None =>
                db.row[x] = None \/ db.row[x].readonly = (q.operation = "commit")
      /\ \A c \in DOMAIN Plan(q) : Plan(q)[c].mixed => \A n \in Plan(q)[c].newRows :
           /\ rowId[n] \in RowVersions /\ row[rowId[n]] = None
           /\ db.row[rowId[n]] \in RowRecord /\ RowContent(db.row[rowId[n]]) = n
      /\ \A c, d \in DOMAIN Plan(q) : Plan(q)[c].mixed /\ Plan(q)[d].mixed =>
           \A n \in Plan(q)[c].newRows, m \in Plan(q)[d].newRows : rowId[n] = rowId[m] => n = m

RelationsAre(q, tableId, rowId) ==
  LET db == WritesOf(q, tableId, rowId)
  IN  /\ db.table \in [TableVersions -> TableRecord \cup {None}]
      /\ db.row \in [RowVersions -> RowRecord \cup {None}]
      /\ db.rowsOf \in [TableVersions -> SUBSET RowVersions]

WritesAre(q, tableId, rowId) ==
  /\ VersionsAre(q, tableId, rowId)
  /\ OldTablesAre(q, tableId, rowId)
  /\ RowsAre(q, tableId, rowId)
  /\ RelationsAre(q, tableId, rowId)

\* What the writer makes of a plan is that, and nothing else.
LEMMA WritesFacts ==
  ASSUME IInv, IdentitiesHold, NEW b, NEW h \in RevisionIds, NEW r \in RevisionIds, NEW q,
         Asks(b, h, r, q), NEW tableId, NEW rowId, Fresh(q, tableId, rowId)
  PROVE  WritesAre(q, tableId, rowId)
<1> DEFINE plan == Plan(q)
           version == VersionsOf(q, tableId)
           db == WritesOf(q, tableId, rowId)
           readonly == q.operation = "commit"
           copied(t) == plan[CHOOSE c \in DOMAIN tableId : tableId[c] = t].version
           mixing(t) == {c \in DOMAIN plan : plan[c].mixed /\ version[c] = t}
           newRow(x) == CHOOSE k \in DOMAIN rowId : rowId[k] = x
           savedTable(t) == [table[copied(t)] EXCEPT !.readonly = readonly]
           savedRow(x) == [createdId |-> newRow(x).createdId, id |-> newRow(x).id,
                           readonly |-> readonly, data |-> newRow(x).data]
           mixture(p) == (rowsOf[p.version] \ p.removed) \cup p.added
                           \cup {rowId[k] : k \in p.newRows}
<1>1. /\ db.table = [t \in TableVersions |->
                       IF t \in Range(tableId) THEN savedTable(t) ELSE table[t]]
      /\ db.row = [x \in RowVersions |-> IF x \in Range(rowId) THEN savedRow(x) ELSE row[x]]
      /\ db.rowsOf = [t \in TableVersions |->
                        IF mixing(t) = {} THEN rowsOf[t]
                        ELSE UNION {mixture(plan[c]) : c \in mixing(t)}]
  BY DEF WritesOf, Written, VersionsOf
<1>2. /\ DOMAIN version = DOMAIN plan
      /\ \A c \in DOMAIN plan :
           version[c] = IF c \in DOMAIN tableId THEN tableId[c] ELSE plan[c].version
  BY DEF VersionsOf, WrittenVersions
<1>3. /\ tableId \in [CopiedTables(plan) -> {t \in TableVersions : table[t] = None}]
      /\ \A c, d \in CopiedTables(plan) : tableId[c] = tableId[d] => c = d
      /\ rowId \in [NewRows(plan) -> {x \in RowVersions : row[x] = None}]
      /\ \A n, m \in NewRows(plan) : rowId[n] = rowId[m] => n = m
  BY DEF Fresh, Injection, IsInjective, Unused, Live, IInv, TypeOK
<1>4. CopiedTables(plan) = {c \in DOMAIN plan : plan[c].mixed /\ ~plan[c].inPlace}
  BY DEF CopiedTables
<1>5. \A c \in DOMAIN plan : PlanOf(q, c) /\ PairOf(h, r, q, c) /\ SidesOf(q, c)
  <2>1. \A c \in DOMAIN plan : PlanOf(q, c)
    BY PlanFacts
  <2>2. DOMAIN plan \subseteq TableCreatedIds
    BY <2>1 DEF PlanOf
  <2>3. QED
    BY <2>1, <2>2, PairFacts, SideFacts
<1>6. ASSUME NEW c \in DOMAIN plan, plan[c].mixed
      PROVE  /\ plan[c].version \in TableVersions /\ table[plan[c].version] \in TableRecord
             /\ table[plan[c].version].createdId = c
             /\ OtherVersion(q, c) \in TableVersions
             /\ plan[c].inPlace =>
                  /\ q.operation = "revert" /\ plan[c].version = q.pairs[c].draft
                  /\ ~table[plan[c].version].readonly
  <2>1. OnBothSides(q.pairs[c]) /\ plan[c].version = StructureVersion(q, c)
    BY <1>5, <1>6 DEF PlanOf
  <2>2. StructureVersion(q, c) \in Versions(q, c) /\ OtherVersion(q, c) \in Versions(q, c)
    BY <1>5, <2>1 DEF SidesOf, OnBothSides, Versions
  <2>3. plan[c].inPlace => EditsDraftInPlace(q, c)
    BY <1>5 DEF PlanOf
  <2>4. plan[c].inPlace => q.operation = "revert" /\ plan[c].version = q.pairs[c].draft
                           /\ ~table[plan[c].version].readonly
    BY <2>1, <2>3, <1>5 DEF EditsDraftInPlace, SidesOf
  <2>5. QED
    BY <1>5, <2>1, <2>2, <2>4 DEF PairOf
<1>7. Range(tableId) = {tableId[c] : c \in CopiedTables(plan)}
      /\ Range(rowId) = {rowId[n] : n \in NewRows(plan)}
  BY <1>3 DEF Range
<1>8. \A c \in CopiedTables(plan) : copied(tableId[c]) = plan[c].version
  BY <1>3
<1>9. \A n \in NewRows(plan) : newRow(rowId[n]) = n
  BY <1>3
<1> HIDE DEF plan, version, db, copied, newRow, readonly
<1>10. ASSUME NEW c \in DOMAIN plan, plan[c].mixed
       PROVE  /\ version[c] \in TableVersions
              /\ IF plan[c].inPlace THEN version[c] = plan[c].version
                 ELSE c \in CopiedTables(plan) /\ version[c] = tableId[c]
              /\ table[version[c]] = None <=> ~plan[c].inPlace
  BY <1>2, <1>3, <1>4, <1>6, <1>10, NoneAssumption
<1>11. ASSUME NEW c \in DOMAIN plan, NEW d \in DOMAIN plan, plan[c].mixed, plan[d].mixed,
              version[c] = version[d]
       PROVE  c = d
  BY <1>3, <1>6, <1>10, <1>11
<1>12. ASSUME NEW c \in DOMAIN plan, plan[c].mixed
       PROVE  db.rowsOf[version[c]] = Mixture(q, c, rowId)
  <2>1. mixing(version[c]) = {c}
    BY <1>11, <1>12
  <2>2. db.rowsOf[version[c]] = mixture(plan[c])
    BY <1>1, <1>10, <1>12, <2>1
  <2>3. QED
    BY <2>2 DEF Mixture, plan
<1>13. ASSUME NEW c \in DOMAIN plan, plan[c].mixed, ~plan[c].inPlace
       PROVE  /\ db.table[version[c]] \in TableRecord
              /\ db.table[version[c]].createdId = c
              /\ db.table[version[c]].id = table[plan[c].version].id
              /\ db.table[version[c]].readonly = readonly
  <2>1. db.table[version[c]] = [table[plan[c].version] EXCEPT !.readonly = readonly]
    BY <1>1, <1>7, <1>8, <1>10, <1>13
  <2>2. readonly \in BOOLEAN
    BY DEF readonly
  <2>3. QED
    BY <1>6, <1>13, <2>1, <2>2 DEF TableRecord
<1>14. ASSUME NEW t \in TableVersions
       PROVE  /\ table[t] # None => db.table[t] = table[t]
              /\ table[t] = None => \/ db.table[t] = None
                                    \/ /\ db.table[t].readonly = readonly
                                       /\ db.table[t] \in TableRecord
                                       /\ \E c \in DOMAIN plan : plan[c].mixed /\ version[c] = t
  <2>1. CASE t \in Range(tableId)
    <3>1. PICK c \in CopiedTables(plan) : t = tableId[c]
      BY <1>7, <2>1
    <3>2. c \in DOMAIN plan /\ plan[c].mixed /\ ~plan[c].inPlace
      BY <1>4, <3>1
    <3>3. version[c] = t /\ table[t] = None
      BY <1>3, <1>10, <3>1, <3>2
    <3>4. QED
      BY <1>13, <3>2, <3>3
  <2>2. CASE t \notin Range(tableId)
    BY <1>1, <2>2
  <2>3. QED
    BY <2>1, <2>2
<1>15. ASSUME NEW n \in NewRows(plan)
       PROVE  /\ rowId[n] \in RowVersions /\ row[rowId[n]] = None
              /\ db.row[rowId[n]] \in RowRecord /\ RowContent(db.row[rowId[n]]) = n
              /\ db.row[rowId[n]].readonly = readonly
  <2>1. PICK c \in DOMAIN plan : plan[c].mixed /\ n \in plan[c].newRows
    BY DEF NewRows
  <2>2. PICK k \in RowCreatedIds : n \in TargetRow(q, c, k)
    BY <1>5, <2>1 DEF PlanOf, plan
  <2>3. c \in TableCreatedIds
    BY <1>5 DEF PlanOf
  <2>4. /\ n = [createdId |-> k, id |-> n.id, data |-> n.data]
        /\ n.createdId = k /\ n.id \in RowIds /\ n.data \in Data
    BY <2>2, <2>3, TargetRowFacts
  <2>5. db.row[rowId[n]] = [createdId |-> n.createdId, id |-> n.id,
                            readonly |-> readonly, data |-> n.data]
    BY <1>1, <1>3, <1>7, <1>9
  <2>6. readonly \in BOOLEAN
    BY DEF readonly
  <2>7. QED
    BY <1>3, <2>4, <2>5, <2>6 DEF RowRecord, RowContent
<1>16. ASSUME NEW x \in RowVersions
       PROVE  /\ row[x] # None => db.row[x] = row[x]
              /\ row[x] = None => db.row[x] = None \/ /\ db.row[x].readonly = readonly
                                                      /\ db.row[x] \in RowRecord
  <2>1. CASE x \in Range(rowId)
    <3>1. PICK n \in NewRows(plan) : x = rowId[n]
      BY <1>7, <2>1
    <3>2. QED
      BY <1>15, <3>1
  <2>2. CASE x \notin Range(rowId)
    <3>1. db.row[x] = row[x]
      BY <1>1, <2>2
    <3>2. QED
      BY <3>1
  <2>3. QED
    BY <2>1, <2>2
<1>17. ASSUME NEW c \in DOMAIN plan, plan[c].mixed
       PROVE  plan[c].newRows \subseteq NewRows(plan)
  BY <1>17 DEF NewRows
<1>18. /\ db.table \in [TableVersions -> TableRecord \cup {None}]
       /\ db.row \in [RowVersions -> RowRecord \cup {None}]
  BY <1>1, <1>14, <1>16 DEF IInv, TypeOK
<1>19. db.rowsOf \in [TableVersions -> SUBSET RowVersions]
  <2>1. \A c \in DOMAIN plan : plan[c].mixed => Mixture(q, c, rowId) \subseteq RowVersions
    <3>1. SUFFICES ASSUME NEW c \in DOMAIN plan, plan[c].mixed
                   PROVE  Mixture(q, c, rowId) \subseteq RowVersions
      OBVIOUS
    <3>2. plan[c].added \subseteq rowsOf[OtherVersion(q, c)]
      BY <1>5, <3>1 DEF PlanOf, plan
    <3>3. rowsOf[plan[c].version] \subseteq RowVersions /\ plan[c].added \subseteq RowVersions
      BY <1>6, <3>1, <3>2 DEF IInv, TypeOK
    <3>4. \A n \in plan[c].newRows : rowId[n] \in RowVersions
      BY <1>15, <1>17, <3>1
    <3>5. QED
      BY <3>3, <3>4 DEF Mixture, plan
  <2>2. \A t \in TableVersions : db.rowsOf[t] \subseteq RowVersions
    <3>1. SUFFICES ASSUME NEW t \in TableVersions PROVE db.rowsOf[t] \subseteq RowVersions
      OBVIOUS
    <3>2. CASE mixing(t) = {}
      BY <1>1, <3>2 DEF IInv, TypeOK
    <3>3. CASE mixing(t) # {}
      BY <1>12, <2>1, <3>3
    <3>4. QED
      BY <3>2, <3>3
  <2>3. db.rowsOf = [t \in TableVersions |-> db.rowsOf[t]]
    BY <1>1
  <2>4. QED
    BY <2>2, <2>3
<1>20. \A c \in DOMAIN plan : ~plan[c].mixed => version[c] = plan[c].version
  BY <1>2, <1>3, <1>4
<1>21. ASSUME NEW c \in DOMAIN plan, plan[c].mixed
       PROVE  /\ version[c] \in TableVersions /\ db.table[version[c]] \in TableRecord
              /\ db.table[version[c]].createdId = c
              /\ db.table[version[c]].id = table[plan[c].version].id
              /\ \/ table[version[c]] = None
                 \/ /\ q.operation = "revert" /\ version[c] = q.pairs[c].draft
                    /\ plan[c].version = version[c]
                    /\ ~table[version[c]].readonly /\ db.table[version[c]] = table[version[c]]
  BY <1>6, <1>10, <1>13, <1>14, <1>21
<1>22. \A t \in TableVersions :
         (\A c \in DOMAIN plan : plan[c].mixed => version[c] # t) => db.rowsOf[t] = rowsOf[t]
  <2>1. SUFFICES ASSUME NEW t \in TableVersions,
                        \A c \in DOMAIN plan : plan[c].mixed => version[c] # t
                 PROVE  db.rowsOf[t] = rowsOf[t]
    OBVIOUS
  <2>2. mixing(t) = {}
    BY <2>1
  <2>3. QED
    BY <1>1, <2>2
<1>23. VersionsAre(q, tableId, rowId)
  <2>1. \A c \in DOMAIN plan : plan[c].mixed =>
          /\ version[c] \in TableVersions /\ db.table[version[c]] \in TableRecord
          /\ db.table[version[c]].createdId = c
          /\ db.table[version[c]].id = table[plan[c].version].id
          /\ db.rowsOf[version[c]] = Mixture(q, c, rowId)
          /\ \/ table[version[c]] = None
             \/ /\ q.operation = "revert" /\ version[c] = q.pairs[c].draft
                /\ plan[c].version = version[c]
                /\ ~table[version[c]].readonly /\ db.table[version[c]] = table[version[c]]
    BY <1>12, <1>21
  <2>2. DOMAIN version = DOMAIN plan
    BY <1>2
  <2>3. QED
    BY <1>20, <2>1, <2>2 DEF VersionsAre, plan, version, db
<1>24. OldTablesAre(q, tableId, rowId)
  BY <1>14, <1>22 DEF OldTablesAre, plan, version, db, readonly
<1>25. RowsAre(q, tableId, rowId)
  <2>1. \A x \in RowVersions :
          /\ row[x] # None => db.row[x] = row[x]
          /\ row[x] = None => db.row[x] = None \/ db.row[x].readonly = readonly
    BY <1>16
  <2>2. \A c \in DOMAIN plan : plan[c].mixed => \A n \in plan[c].newRows :
          /\ rowId[n] \in RowVersions /\ row[rowId[n]] = None
          /\ db.row[rowId[n]] \in RowRecord /\ RowContent(db.row[rowId[n]]) = n
    BY <1>15, <1>17
  <2>3. \A c, d \in DOMAIN plan : plan[c].mixed /\ plan[d].mixed =>
          \A n \in plan[c].newRows, m \in plan[d].newRows : rowId[n] = rowId[m] => n = m
    BY <1>3, <1>17
  <2>4. QED
    BY <2>1, <2>2, <2>3 DEF RowsAre, plan, db, readonly
<1>26. RelationsAre(q, tableId, rowId)
  BY <1>18, <1>19 DEF RelationsAre, db
<1>27. QED
  BY <1>23, <1>24, <1>25, <1>26 DEF WritesAre

-----------------------------------------------------------------------------
(* Which versions are linked. *)

\* The version a table goes on with: as planned, or as the base has it.
Goes(q, tableId, c) ==
  IF c \in DOMAIN Plan(q) THEN VersionsOf(q, tableId)[c] ELSE q.pairs[c][BaseSide(q.operation)]

\* The version the draft has of it in the end: after a commit what it had, or what
\* the head has then.
DraftGoes(q, tableId, rowId, c) ==
  LET db == WritesOf(q, tableId, rowId)
      goes == Goes(q, tableId, c)
  IN  IF c \notin DOMAIN Plan(q) THEN q.pairs[c].draft
      ELSE IF q.operation = "commit"
        THEN VersionToLink(db, Plan(q)[c], q.pairs[c].draft, goes)
        ELSE VersionToLink(db, Plan(q)[c], goes, q.pairs[c].head)

\* A version of this logical table, once everything is written.
IsVersion(q, tableId, rowId, c, t) ==
  LET db == WritesOf(q, tableId, rowId)
  IN  t \in TableVersions /\ db.table[t] \in TableRecord /\ db.table[t].createdId = c

GoesOf(q, tableId, rowId, c) ==
  LET t == Goes(q, tableId, c)
      d == DraftGoes(q, tableId, rowId, c)
  IN  /\ t = None \/ IsVersion(q, tableId, rowId, c, t)
      /\ t \in Versions(q, c) \cup {None} \/ table[t] = None
      /\ d = None \/ IsVersion(q, tableId, rowId, c, d)
      /\ q.operation = "commit" => d \in {q.pairs[c].draft, t}
      /\ q.operation = "revert" => d \in {t, q.pairs[c].head}
      /\ \A u \in Versions(q, c) : IsVersion(q, tableId, rowId, c, u)

\* What a table goes on with is a version of it, old or new.
LEMMA GoesFacts ==
  ASSUME IInv, IdentitiesHold, NEW b, NEW h \in RevisionIds, NEW r \in RevisionIds, NEW q,
         Asks(b, h, r, q), NEW tableId, NEW rowId, Fresh(q, tableId, rowId),
         NEW c \in TableCreatedIds
  PROVE  GoesOf(q, tableId, rowId, c)
<1> DEFINE db == WritesOf(q, tableId, rowId)
           t == Goes(q, tableId, c)
           d == DraftGoes(q, tableId, rowId, c)
<1> WritesAre(q, tableId, rowId)
  BY WritesFacts
<1>1. VersionsAre(q, tableId, rowId) /\ OldTablesAre(q, tableId, rowId)
  BY DEF WritesAre
<1>2. PairOf(h, r, q, c) /\ (c \in DOMAIN Plan(q) => PlanOf(q, c))
  BY PairFacts, PlanFacts
<1>3. q.operation \in {"commit", "revert"}
  BY RequestFacts DEF RequestOf, Operations
<1>4. \A u \in Versions(q, c) : IsVersion(q, tableId, rowId, c, u)
  <2>1. SUFFICES ASSUME NEW u \in Versions(q, c) PROVE IsVersion(q, tableId, rowId, c, u)
    OBVIOUS
  <2>2. u \in TableVersions /\ table[u] \in TableRecord /\ table[u].createdId = c
    BY <1>2 DEF PairOf
  <2>3. db.table[u] = table[u]
    BY <1>1, <2>2, NoneAssumption DEF OldTablesAre
  <2>4. QED
    BY <2>2, <2>3 DEF IsVersion
<1>5. /\ q.pairs[c].head \in Versions(q, c) \cup {None}
      /\ q.pairs[c].draft \in Versions(q, c) \cup {None}
      /\ None \notin TableVersions
  BY VersionAssumption DEF Versions
<1>6. /\ t = None \/ IsVersion(q, tableId, rowId, c, t)
      /\ t \in Versions(q, c) \cup {None} \/ table[t] = None
  <2>1. CASE c \notin DOMAIN Plan(q)
    <3>1. t \in {q.pairs[c].head, q.pairs[c].draft}
      BY <1>3, <2>1 DEF Goes, BaseSide
    <3>2. QED
      BY <1>4, <1>5, <3>1
  <2>2. CASE c \in DOMAIN Plan(q) /\ ~Plan(q)[c].mixed
    <3>1. t \in Versions(q, c) \cup {None}
      BY <1>1, <1>2, <2>2 DEF Goes, VersionsAre, PlanOf
    <3>2. QED
      BY <1>4, <3>1
  <2>3. CASE c \in DOMAIN Plan(q) /\ Plan(q)[c].mixed
    <3>1. t = VersionsOf(q, tableId)[c]
      BY <2>3 DEF Goes
    <3>2. IsVersion(q, tableId, rowId, c, t)
      BY <1>1, <2>3, <3>1 DEF VersionsAre, IsVersion
    <3>3. t \in TableVersions /\ (table[t] = None \/ t = q.pairs[c].draft)
      BY <1>1, <2>3, <3>1 DEF VersionsAre
    <3>4. QED
      BY <1>5, <3>2, <3>3
  <2>4. QED
    BY <1>2, <2>1, <2>2, <2>3 DEF PlanOf
<1>7. /\ q.operation = "commit" => d \in {q.pairs[c].draft, t}
      /\ q.operation = "revert" => d \in {t, q.pairs[c].head}
  <2>1. CASE c \notin DOMAIN Plan(q)
    BY <2>1 DEF DraftGoes, Goes, BaseSide
  <2>2. CASE c \in DOMAIN Plan(q)
    BY <2>2 DEF DraftGoes, VersionToLink
  <2>3. QED
    BY <2>1, <2>2
<1>8. d = None \/ IsVersion(q, tableId, rowId, c, d)
  BY <1>3, <1>4, <1>5, <1>6, <1>7
<1>9. QED
  BY <1>4, <1>6, <1>7, <1>8 DEF GoesOf

\* A revision whose tables give way to others, logical table by logical table.
LEMMA RelinkedIs ==
  ASSUME IInv, NEW p \in RevisionIds, HasTablesOnce(p), NEW C \in SUBSET TableCreatedIds,
         NEW link, DOMAIN link = C, NEW was, was = [c \in C |-> VersionIn(p, c)]
  PROVE  Relinked(tablesOf[p], was, link)
           = {IF c \in C THEN link[c] ELSE VersionIn(p, c) : c \in TableCreatedIds} \ {None}
<1> DEFINE goes(c) == IF c \in C THEN link[c] ELSE VersionIn(p, c)
<1>1. /\ Range(was) = {VersionIn(p, c) : c \in C}
      /\ Range(link) = {link[c] : c \in C}
  BY DEF Range
<1>2. /\ \A c : VersionIn(p, c) = None \/ /\ VersionIn(p, c) \in tablesOf[p]
                                          /\ table[VersionIn(p, c)].createdId = c
      /\ \A t \in tablesOf[p] : /\ t # None /\ table[t].createdId \in TableCreatedIds
                                /\ VersionIn(p, table[t].createdId) = t
  BY VersionInFacts
<1>3. ASSUME NEW t \in (tablesOf[p] \ Range(was)) \cup (Range(link) \ {None})
      PROVE  t # None /\ \E c \in TableCreatedIds : t = goes(c)
  BY <1>1, <1>2
<1>4. ASSUME NEW c \in TableCreatedIds, goes(c) # None
      PROVE  goes(c) \in (tablesOf[p] \ Range(was)) \cup (Range(link) \ {None})
  BY <1>1, <1>2, <1>4
<1>5. QED
  BY <1>3, <1>4 DEF Relinked

-----------------------------------------------------------------------------
(* Rows that are mixed. *)

\* What becomes of a row of a table that is mixed.
Fate(q, c, k) ==
  IF RowParts(q.pairs[c], c, k) = {} THEN "structureSide" ELSE RowOutcome(q, c, k)

RowOf(x) == IF x = None THEN {} ELSE {RowContent(row[x])}

FateOf(q, c, k) ==
  /\ Fate(q, c, k) \in {"structureSide", "absent", "otherSide", "merge"}
  /\ Fate(q, c, k) = "structureSide" => TargetRow(q, c, k) = RowOf(OwnRow(q, c, k))
  /\ Fate(q, c, k) = "absent" => TargetRow(q, c, k) = {}
  /\ Fate(q, c, k) = "otherSide" =>
       OtherRow(q, c, k) # None /\ TargetRow(q, c, k) = RowOf(OtherRow(q, c, k))
  /\ RowParts(q.pairs[c], c, k) = {} => RowOf(OtherRow(q, c, k)) = RowOf(OwnRow(q, c, k))
  /\ (\A p \in RowParts(q.pairs[c], c, k) : TakesOther(q, p)) =>
       TargetRow(q, c, k) = RowOf(OtherRow(q, c, k))

\* The target has a row as one side has it, if it takes from that side all that
\* differs.
LEMMA FateFacts ==
  ASSUME IInv, IdentitiesHold, NEW b, NEW h \in RevisionIds, NEW r \in RevisionIds, NEW q,
         Asks(b, h, r, q), NEW c \in TableCreatedIds, NEW k \in RowCreatedIds
  PROVE  FateOf(q, c, k)
<1> DEFINE rows == q.pairs[c].rows[k]
           parts == RowParts(q.pairs[c], c, k)
           side == StructureSide(q, c)
           other == Opposite(side)
           by(part) == SideTakenBy(q, Part(part, c, k))
           from(part) == row[rows[by(part)]]
           existence == Part("existence", c, k)
<1>1. PairOf(h, r, q, c) /\ SidesOf(q, c)
  BY PairFacts, SideFacts
<1>2. /\ rows[side] = OwnRow(q, c, k) /\ rows[other] = OtherRow(q, c, k)
  BY DEF OwnRow, OtherRow
<1>3. /\ \A part : by(part) \in {"head", "draft"}
      /\ side \in {"head", "draft"}
      /\ other = IF side = "head" THEN "draft" ELSE "head"
  BY DEF SideTakenBy, BaseSide, Opposite, StructureSide
<1>4. parts = IF OnOneSide(rows) THEN {existence}
              ELSE IF ~OnBothSides(rows) THEN {}
              ELSE {p \in {Part("id", c, k)} : row[rows.head].id # row[rows.draft].id}
                     \cup {p \in {Part("data", c, k)} : row[rows.head].data # row[rows.draft].data}
  BY DEF RowParts
<1>5. \A part : TakesOther(q, Part(part, c, k)) <=> by(part) # side
  BY DEF TakesOther, Part
<1>6. TargetRow(q, c, k) =
        IF rows[by("existence")] = None THEN {}
        ELSE IF OnBothSides(rows)
          THEN {[createdId |-> k, id |-> from("id").id, data |-> from("data").data]}
        ELSE {RowContent(from("existence"))}
  BY DEF TargetRow
<1>7. \A s \in {"head", "draft"} : rows[s] # None => row[rows[s]].createdId = k
  <2>1. /\ rows.head = RowIn(q.pairs[c].head, k) /\ rows.draft = RowIn(q.pairs[c].draft, k)
    BY <1>1 DEF PairOf
  <2>2. /\ q.pairs[c].head \in TableVersions \cup {None}
        /\ q.pairs[c].draft \in TableVersions \cup {None}
    BY <1>1 DEF PairOf, Versions
  <2>3. QED
    BY <2>1, <2>2, RowInFacts
<1> HIDE DEF parts, side, other, by, existence, rows
<1>8. ASSUME NEW s \in {"head", "draft"}, \A p \in parts : SideTakenBy(q, p) = s
      PROVE  TargetRow(q, c, k) = RowOf(rows[s])
  <2>1. CASE OnOneSide(rows)
    <3>1. by("existence") = s
      BY <1>4, <1>8, <2>1 DEF by, existence
    <3>2. ~OnBothSides(rows)
      BY <2>1 DEF OnOneSide, OnBothSides
    <3>3. QED
      BY <1>6, <3>1, <3>2 DEF RowOf
  <2>2. CASE ~OnOneSide(rows) /\ ~OnBothSides(rows)
    <3>1. \A u \in {"head", "draft"} : rows[u] = None
      BY <2>2 DEF OnOneSide, OnBothSides
    <3>2. QED
      BY <1>3, <1>6, <3>1 DEF RowOf
  <2>3. CASE OnBothSides(rows)
    <3>1. /\ rows.head # None /\ rows.draft # None /\ ~OnOneSide(rows)
          /\ \A u \in {"head", "draft"} : rows[u] # None
      BY <2>3 DEF OnBothSides, OnOneSide
    <3>2. from("id").id = row[rows[s]].id
      <4>1. CASE row[rows.head].id # row[rows.draft].id
        <5>1. Part("id", c, k) \in parts
          BY <1>4, <2>3, <3>1, <4>1
        <5>2. by("id") = s
          BY <1>8, <5>1 DEF by
        <5>3. QED
          BY <5>2
      <4>2. CASE row[rows.head].id = row[rows.draft].id
        <5>1. by("id") \in {"head", "draft"}
          BY <1>3
        <5>2. QED
          BY <1>8, <4>2, <5>1
      <4>3. QED
        BY <4>1, <4>2
    <3>3. from("data").data = row[rows[s]].data
      <4>1. CASE row[rows.head].data # row[rows.draft].data
        <5>1. Part("data", c, k) \in parts
          BY <1>4, <2>3, <3>1, <4>1
        <5>2. by("data") = s
          BY <1>8, <5>1 DEF by
        <5>3. QED
          BY <5>2
      <4>2. CASE row[rows.head].data = row[rows.draft].data
        <5>1. by("data") \in {"head", "draft"}
          BY <1>3
        <5>2. QED
          BY <1>8, <4>2, <5>1
      <4>3. QED
        BY <4>1, <4>2
    <3>4. rows[by("existence")] # None /\ rows[s] # None
      BY <1>3, <1>8, <3>1
    <3>5. TargetRow(q, c, k) =
            {[createdId |-> k, id |-> from("id").id, data |-> from("data").data]}
      BY <1>6, <2>3, <3>4
    <3>6. RowContent(row[rows[s]]) =
            [createdId |-> k, id |-> row[rows[s]].id, data |-> row[rows[s]].data]
      BY <1>7, <1>8, <3>4 DEF RowContent
    <3> HIDE DEF from
    <3>7. QED
      BY <3>2, <3>3, <3>4, <3>5, <3>6 DEF RowOf
  <2>4. QED
    BY <2>1, <2>2, <2>3
<1>9. \A p \in parts : \E part \in {"existence", "id", "data"} : p = Part(part, c, k)
  BY <1>4 DEF existence
<1>10. \A p \in parts : SideTakenBy(q, p) = IF TakesOther(q, p) THEN other ELSE side
  BY <1>3, <1>5, <1>9 DEF by
<1>11. (\A p \in parts : ~TakesOther(q, p)) => TargetRow(q, c, k) = RowOf(OwnRow(q, c, k))
  BY <1>2, <1>3, <1>8, <1>10
<1>12. (\A p \in parts : TakesOther(q, p)) => TargetRow(q, c, k) = RowOf(OtherRow(q, c, k))
  <2>1. other \in {"head", "draft"}
    BY <1>3
  <2>2. QED
    BY <1>2, <1>8, <1>10, <2>1
<1>13. RowOutcome(q, c, k) =
         IF \A p \in parts : ~TakesOther(q, p)
         THEN IF OwnRow(q, c, k) = None THEN "absent" ELSE "structureSide"
         ELSE IF \E p \in parts : ~TakesOther(q, p) THEN "merge"
         ELSE IF OtherRow(q, c, k) = None THEN "absent" ELSE "otherSide"
  BY DEF RowOutcome, parts
<1>14. Fate(q, c, k) = IF parts = {} THEN "structureSide" ELSE RowOutcome(q, c, k)
  BY DEF Fate, parts
<1>15. RowOf(None) = {}
  BY DEF RowOf
<1>16. QED
  BY <1>11, <1>12, <1>13, <1>14, <1>15 DEF FateOf, parts

\* Where a row of a mixture comes from.
Comes(q, c, rowId, k, y) ==
  \/ /\ Fate(q, c, k) = "structureSide" /\ y = OwnRow(q, c, k) /\ y # None
     /\ y \in rowsOf[StructureVersion(q, c)]
  \/ /\ Fate(q, c, k) = "otherSide" /\ y = OtherRow(q, c, k)
     /\ y \in rowsOf[OtherVersion(q, c)]
  \/ /\ Fate(q, c, k) = "merge"
     /\ \E n \in TargetRow(q, c, k) : y = rowId[n] /\ n \in Plan(q)[c].newRows

\* A mixture has of each row what its fate is.
LEMMA MixtureFacts ==
  ASSUME IInv, IdentitiesHold, NEW b, NEW h \in RevisionIds, NEW r \in RevisionIds, NEW q,
         Asks(b, h, r, q), NEW rowId, NEW c \in DOMAIN Plan(q), Plan(q)[c].mixed
  PROVE  \A y : y \in Mixture(q, c, rowId) <=> \E k \in RowCreatedIds : Comes(q, c, rowId, k, y)
<1> DEFINE changed == {x \in RowCreatedIds : RowParts(q.pairs[c], c, x) # {}}
           becomes == [x \in changed |-> RowOutcome(q, c, x)]
           becoming(outcome) == {x \in changed : becomes[x] = outcome}
<1>1. c \in TableCreatedIds /\ Plan(q)[c] = TablePlan(q, c)
  <2>1. PlannedOf(q)
    BY PlannedTables
  <2>2. QED
    BY <2>1 DEF PlannedOf
<1>2. /\ PairOf(h, r, q, c) /\ SidesOf(q, c) /\ PlanOf(q, c)
      /\ \A k \in RowCreatedIds : FateOf(q, c, k)
  BY <1>1, PairFacts, SideFacts, PlanFacts, FateFacts
<1>3. /\ Plan(q)[c].removed = Removed(q, c, becomes)
      /\ Plan(q)[c].added = {OtherRow(q, c, x) : x \in becoming("otherSide")}
      /\ Plan(q)[c].newRows = UNION {TargetRow(q, c, x) : x \in becoming("merge")}
  BY <1>1 DEF TablePlan
<1>4. /\ Plan(q)[c].version = StructureVersion(q, c)
      /\ StructureVersion(q, c) \in TableVersions /\ OtherVersion(q, c) \in TableVersions
  <2>1. OnBothSides(q.pairs[c]) /\ Plan(q)[c].version = StructureVersion(q, c)
    BY <1>2 DEF PlanOf
  <2>2. StructureVersion(q, c) \in Versions(q, c) /\ OtherVersion(q, c) \in Versions(q, c)
    BY <1>2, <2>1 DEF SidesOf, OnBothSides, Versions
  <2>3. QED
    BY <1>2, <2>1, <2>2 DEF PairOf
<1>5. \A k \in RowCreatedIds :
        /\ OwnRow(q, c, k) = RowIn(StructureVersion(q, c), k)
        /\ OtherRow(q, c, k) = RowIn(OtherVersion(q, c), k)
  BY <1>2 DEF SidesOf
<1>6. \A x \in changed : becomes[x] = Fate(q, c, x)
  BY DEF Fate
<1>7. \A x \in RowCreatedIds \ changed : Fate(q, c, x) = "structureSide"
  BY DEF Fate
<1>8. Removed(q, c, becomes) =
        {OwnRow(q, c, x) : x \in {k \in RowCreatedIds : Fate(q, c, k) # "structureSide"}} \ {None}
  BY <1>6, <1>7 DEF Removed
<1>9. \A o \in {"otherSide", "merge"} :
        becoming(o) = {x \in RowCreatedIds : Fate(q, c, x) = o}
  BY <1>6, <1>7
<1> HIDE DEF changed, becomes, becoming
<1>10. \A y : y \in rowsOf[StructureVersion(q, c)] \ Plan(q)[c].removed <=>
         \E k \in RowCreatedIds :
           /\ Fate(q, c, k) = "structureSide" /\ y = OwnRow(q, c, k) /\ y # None
           /\ y \in rowsOf[StructureVersion(q, c)]
  <2>1. ASSUME NEW y \in rowsOf[StructureVersion(q, c)]
        PROVE  /\ y # None /\ row[y].createdId \in RowCreatedIds
               /\ OwnRow(q, c, row[y].createdId) = y
    BY <1>4, <1>5, RowInFacts
  <2>2. ASSUME NEW k \in RowCreatedIds, OwnRow(q, c, k) # None
        PROVE  row[OwnRow(q, c, k)].createdId = k
    BY <1>4, <1>5, <2>2, RowInFacts
  <2>3. QED
    BY <1>3, <1>8, <2>1, <2>2
<1>11. \A y : y \in Plan(q)[c].added <=>
         \E k \in RowCreatedIds :
           /\ Fate(q, c, k) = "otherSide" /\ y = OtherRow(q, c, k)
           /\ y \in rowsOf[OtherVersion(q, c)]
  <2>1. ASSUME NEW k \in RowCreatedIds, Fate(q, c, k) = "otherSide"
        PROVE  OtherRow(q, c, k) \in rowsOf[OtherVersion(q, c)]
    <3>1. OtherRow(q, c, k) # None
      BY <1>2, <2>1 DEF FateOf
    <3>2. QED
      BY <1>4, <1>5, <3>1, RowInFacts
  <2>2. QED
    BY <1>3, <1>9, <2>1
<1>12. \A y : y \in {rowId[n] : n \in Plan(q)[c].newRows} <=>
         \E k \in RowCreatedIds :
           /\ Fate(q, c, k) = "merge"
           /\ \E n \in TargetRow(q, c, k) : y = rowId[n] /\ n \in Plan(q)[c].newRows
  BY <1>3, <1>9
<1>13. QED
  BY <1>4, <1>10, <1>11, <1>12 DEF Mixture, Comes

\* Tables that are linked and rows that they have are there.
LEMMA WrittenRows ==
  ASSUME IInv, IdentitiesHold, NEW b, NEW h \in RevisionIds, NEW r \in RevisionIds, NEW q,
         Asks(b, h, r, q), NEW tableId, NEW rowId, Fresh(q, tableId, rowId),
         NEW t \in TableVersions, NEW x \in WritesOf(q, tableId, rowId).rowsOf[t]
  PROVE  /\ WritesOf(q, tableId, rowId).table[t] \in TableRecord
         /\ x \in RowVersions /\ WritesOf(q, tableId, rowId).row[x] \in RowRecord
<1> DEFINE db == WritesOf(q, tableId, rowId)
           version == VersionsOf(q, tableId)
<1>1. /\ VersionsAre(q, tableId, rowId) /\ OldTablesAre(q, tableId, rowId)
      /\ RowsAre(q, tableId, rowId)
  BY WritesFacts DEF WritesAre
<1>2. ASSUME NEW u \in TableVersions, NEW y \in rowsOf[u]
      PROVE  /\ db.table[u] \in TableRecord
             /\ y \in RowVersions /\ db.row[y] \in RowRecord
  <2>1. table[u] \in TableRecord /\ y \in RowVersions /\ row[y] \in RowRecord
    BY <1>2 DEF IInv, TypeOK, CommittedIsReadonly
  <2>2. db.table[u] = table[u] /\ db.row[y] = row[y]
    BY <1>1, <2>1, NoneAssumption DEF OldTablesAre, RowsAre
  <2>3. QED
    BY <2>1, <2>2
<1>3. CASE \A c \in DOMAIN Plan(q) : Plan(q)[c].mixed => version[c] # t
  <2>1. db.rowsOf[t] = rowsOf[t]
    BY <1>1, <1>3 DEF OldTablesAre
  <2>2. QED
    BY <1>2, <2>1
<1>4. ASSUME NEW c \in DOMAIN Plan(q), Plan(q)[c].mixed, version[c] = t
      PROVE  /\ db.table[t] \in TableRecord
             /\ x \in RowVersions /\ db.row[x] \in RowRecord
  <2>1. db.table[t] \in TableRecord /\ db.rowsOf[t] = Mixture(q, c, rowId)
    BY <1>1, <1>4 DEF VersionsAre
  <2>2. PICK k \in RowCreatedIds : Comes(q, c, rowId, k, x)
    BY <1>4, <2>1, MixtureFacts
  <2>3. c \in TableCreatedIds /\ OnBothSides(q.pairs[c])
    BY <1>4, PlanFacts DEF PlanOf
  <2>4. StructureVersion(q, c) \in TableVersions /\ OtherVersion(q, c) \in TableVersions
    <3>1. PairOf(h, r, q, c) /\ SidesOf(q, c)
      BY <2>3, PairFacts, SideFacts
    <3>2. StructureVersion(q, c) \in Versions(q, c) /\ OtherVersion(q, c) \in Versions(q, c)
      BY <2>3, <3>1 DEF SidesOf, OnBothSides, Versions
    <3>3. QED
      BY <3>1, <3>2 DEF PairOf
  <2>5. CASE x \in rowsOf[StructureVersion(q, c)] \/ x \in rowsOf[OtherVersion(q, c)]
    BY <1>2, <2>1, <2>4, <2>5
  <2>6. CASE \E n \in Plan(q)[c].newRows : x = rowId[n]
    BY <1>1, <1>4, <2>1, <2>6 DEF RowsAre
  <2>7. QED
    BY <2>2, <2>5, <2>6 DEF Comes
<1>5. QED
  BY <1>3, <1>4

-----------------------------------------------------------------------------
(* The step, version by version. *)

\* Once written, versions are at most locked.
AfterOf(q, tableId, rowId) ==
  LET db == WritesOf(q, tableId, rowId)
  IN  /\ rowsOf' = db.rowsOf
      /\ table' \in [TableVersions -> TableRecord \cup {None}]
      /\ row' \in [RowVersions -> RowRecord \cup {None}]
      /\ \A t \in TableVersions :
           IF db.table[t] = None THEN table'[t] = None
           ELSE /\ table'[t] # None
                /\ table'[t].createdId = db.table[t].createdId
                /\ table'[t].id = db.table[t].id
                /\ db.table[t].readonly => table'[t].readonly
      /\ \A x \in RowVersions :
           IF db.row[x] = None THEN row'[x] = None
           ELSE /\ row'[x] # None /\ RowContent(row'[x]) = RowContent(db.row[x])
                /\ row'[x].createdId = db.row[x].createdId
                /\ db.row[x].readonly => row'[x].readonly

\* A commit links and locks in the head, and opens the next draft n.
CommitOf(b, h, r, q, tableId, rowId, n) ==
  LET db == WritesOf(q, tableId, rowId)
  IN  /\ n \in RevisionIds /\ revision[n] = None /\ n # h /\ n # r
      /\ q.operation = "commit"
      /\ tablesOf'[r] = {Goes(q, tableId, c) : c \in TableCreatedIds} \ {None}
      /\ tablesOf'[n] = {DraftGoes(q, tableId, rowId, c) : c \in TableCreatedIds} \ {None}
      /\ \A p \in RevisionIds \ {r, n} : tablesOf'[p] = tablesOf[p]
      /\ tablesOf' \in [RevisionIds -> SUBSET TableVersions]
      /\ \A c \in DOMAIN Plan(q) :
           LET t == VersionsOf(q, tableId)[c]
           IN  t # None =>
                 /\ t \in tablesOf[h] \/ table'[t].readonly
                 /\ t # q.pairs[c].head => \A x \in db.rowsOf[t] :
                      \/ q.pairs[c].head # None /\ x \in rowsOf[q.pairs[c].head]
                      \/ row'[x].readonly
      /\ \A t \in TableVersions : table'[t] # db.table[t] =>
           \E c \in DOMAIN Plan(q) : VersionsOf(q, tableId)[c] = t
      /\ \E v \in BOOLEAN :
           /\ v = TableSetsDiffer(table', tablesOf'[r], tablesOf'[n])
           /\ revision' = [revision EXCEPT ![h] = RetireHead(h), ![r] = PromoteDraftToHead(r),
                             ![n] = [OpenNextDraft(b, r) EXCEPT !.hasChanges = v]]

\* What a commit does is that.
LEMMA CommitFacts ==
  ASSUME IInv, IdentitiesHold, NEW b, NEW h \in RevisionIds, NEW r \in RevisionIds, NEW q,
         Asks(b, h, r, q), NEW tableId, NEW rowId, Fresh(q, tableId, rowId),
         Commits(q, tableId, rowId)
  PROVE  /\ AfterOf(q, tableId, rowId)
         /\ \E n \in RevisionIds : CommitOf(b, h, r, q, tableId, rowId, n)
<1> DEFINE db == WritesOf(q, tableId, rowId)
           version == VersionsOf(q, tableId)
           headOf == [c \in DOMAIN Plan(q) |-> q.pairs[c].head]
           draftOf == [c \in DOMAIN Plan(q) |-> q.pairs[c].draft]
           nextDraft == [c \in DOMAIN Plan(q) |->
                           VersionToLink(db, Plan(q)[c], q.pairs[c].draft, version[c])]
           lockedRows == RowsToLockFor(db, q.pairs, version)
           lockedTables == {version[c] : c \in DOMAIN Plan(q)} \ Range(headOf)
           n == NewId(revision)
           new(v) == [OpenNextDraft(q.branch, q.draft) EXCEPT !.hasChanges = v]
<1>0. q.operation = "commit"
  BY DEF Commits, CommitToTarget
<1>1. /\ q.branch = b /\ q.head = h /\ q.draft = r /\ h # r
      /\ q.operation = "commit" /\ Unused(revision) # {}
  <2>1. RequestOf(b, h, r, q)
    BY RequestFacts
  <2>2. QED
    BY <1>0, <2>1 DEF RequestOf
<1>2. /\ table' = [t \in TableVersions |->
                     IF t \in lockedTables THEN [db.table[t] EXCEPT !.readonly = TRUE]
                     ELSE db.table[t]]
      /\ row' = [x \in RowVersions |->
                   IF x \in lockedRows THEN [db.row[x] EXCEPT !.readonly = TRUE] ELSE db.row[x]]
      /\ rowsOf' = db.rowsOf
      /\ tablesOf' = [tablesOf EXCEPT ![r] = Relinked(tablesOf[h], headOf, version),
                                      ![n] = Relinked(tablesOf[r], draftOf, nextDraft)]
      /\ revision' = [revision EXCEPT
           ![h] = RetireHead(h), ![r] = PromoteDraftToHead(r),
           ![n] = new(TableSetsDiffer(table', tablesOf'[r], tablesOf'[n]))]
  BY <1>1 DEF Commits, CommitToTarget
<1>3. n \in RevisionIds /\ revision[n] = None /\ n # h /\ n # r
  <2>1. n \in RevisionIds /\ revision[n] = None
    BY <1>1, NewRevision DEF IInv
  <2>2. QED
    BY <2>1 DEF Asks, IsHead, IsDraft, IsLive
<1> HIDE DEF n
<1>4. WritesAre(q, tableId, rowId) /\ PlannedOf(q)
  BY WritesFacts, PlannedTables
<1>5. /\ VersionsAre(q, tableId, rowId) /\ RelationsAre(q, tableId, rowId)
      /\ RowsAre(q, tableId, rowId)
  BY <1>4 DEF WritesAre
<1>6. \A c \in TableCreatedIds : GoesOf(q, tableId, rowId, c) /\ PairOf(h, r, q, c)
  BY GoesFacts, PairFacts
<1>7. DOMAIN version = DOMAIN Plan(q) /\ DOMAIN Plan(q) \subseteq TableCreatedIds
  BY <1>4, <1>5 DEF VersionsAre, PlannedOf
<1>8. \A c \in DOMAIN Plan(q) : version[c] = None \/ IsVersion(q, tableId, rowId, c, version[c])
  BY <1>6, <1>7 DEF GoesOf, Goes
<1>9. /\ db.table \in [TableVersions -> TableRecord \cup {None}]
      /\ db.row \in [RowVersions -> RowRecord \cup {None}]
      /\ db.rowsOf \in [TableVersions -> SUBSET RowVersions]
  BY <1>5 DEF RelationsAre
<1>10. \A t \in lockedTables : t = None \/ db.table[t] \in TableRecord
  BY <1>8 DEF IsVersion
<1> HIDE DEF db, version, lockedTables, lockedRows
<1>11. \A t \in TableVersions :
         IF db.table[t] = None THEN table'[t] = None
         ELSE /\ table'[t] \in TableRecord /\ table'[t] # None
              /\ table'[t].createdId = db.table[t].createdId
              /\ table'[t].id = db.table[t].id
              /\ db.table[t].readonly => table'[t].readonly
  <2>1. SUFFICES ASSUME NEW t \in TableVersions
                 PROVE  IF db.table[t] = None THEN table'[t] = None
                        ELSE /\ table'[t] \in TableRecord /\ table'[t] # None
                             /\ table'[t].createdId = db.table[t].createdId
                             /\ table'[t].id = db.table[t].id
                             /\ db.table[t].readonly => table'[t].readonly
    OBVIOUS
  <2>2. t # None
    BY VersionAssumption
  <2>3. CASE t \in lockedTables
    <3>1. db.table[t] \in TableRecord /\ db.table[t] # None
      BY <1>10, <2>2, <2>3, NoneAssumption
    <3>2. table'[t] = [db.table[t] EXCEPT !.readonly = TRUE]
      BY <1>2, <2>3
    <3>3. QED
      BY <3>1, <3>2, NoneAssumption DEF TableRecord
  <2>4. CASE t \notin lockedTables
    BY <1>2, <1>9, <2>4
  <2>5. QED
    BY <2>3, <2>4
<1>12. \A t \in lockedTables : t # None => db.rowsOf[t] \subseteq RowVersions
  BY <1>8, <1>9 DEF lockedTables, IsVersion
<1>13. \A t \in TableVersions : \A x \in db.rowsOf[t] : db.row[x] \in RowRecord
  <2>1. SUFFICES ASSUME NEW t \in TableVersions, NEW x \in db.rowsOf[t]
                 PROVE  db.row[x] \in RowRecord
    OBVIOUS
  <2>2. QED
    BY <2>1, WrittenRows DEF db
<1>14. \A x \in lockedRows : db.row[x] \in RowRecord
  <2>1. SUFFICES ASSUME NEW c \in DOMAIN Plan(q), version[c] # None, NEW x \in db.rowsOf[version[c]]
                 PROVE  db.row[x] \in RowRecord
    BY <1>7 DEF lockedRows, RowsToLockFor
  <2>2. version[c] \in TableVersions
    BY <1>8, <2>1 DEF IsVersion
  <2>3. QED
    BY <1>13, <2>1, <2>2
<1>15. \A x \in RowVersions :
         IF db.row[x] = None THEN row'[x] = None
         ELSE /\ row'[x] \in RowRecord /\ row'[x] # None
              /\ RowContent(row'[x]) = RowContent(db.row[x])
              /\ row'[x].createdId = db.row[x].createdId
              /\ db.row[x].readonly => row'[x].readonly
              /\ x \in lockedRows => row'[x].readonly
  <2>1. SUFFICES ASSUME NEW x \in RowVersions
                 PROVE  IF db.row[x] = None THEN row'[x] = None
                        ELSE /\ row'[x] \in RowRecord /\ row'[x] # None
                             /\ RowContent(row'[x]) = RowContent(db.row[x])
                             /\ row'[x].createdId = db.row[x].createdId
                             /\ db.row[x].readonly => row'[x].readonly
                             /\ x \in lockedRows => row'[x].readonly
    OBVIOUS
  <2>2. CASE x \in lockedRows
    <3>1. db.row[x] \in RowRecord /\ db.row[x] # None
      BY <1>14, <2>2, NoneAssumption
    <3>2. row'[x] = [db.row[x] EXCEPT !.readonly = TRUE]
      BY <1>2, <2>2
    <3>3. QED
      BY <3>1, <3>2, NoneAssumption DEF RowRecord, RowContent
  <2>3. CASE x \notin lockedRows
    BY <1>2, <1>9, <2>3
  <2>4. QED
    BY <2>2, <2>3
<1>16. /\ table' \in [TableVersions -> TableRecord \cup {None}]
       /\ row' \in [RowVersions -> RowRecord \cup {None}]
  <2>1. table' = [t \in TableVersions |-> table'[t]] /\ row' = [x \in RowVersions |-> row'[x]]
    BY <1>2
  <2>2. /\ \A t \in TableVersions : table'[t] \in TableRecord \cup {None}
        /\ \A x \in RowVersions : row'[x] \in RowRecord \cup {None}
    BY <1>11, <1>15
  <2>3. QED
    BY <2>1, <2>2
<1>17. AfterOf(q, tableId, rowId)
  BY <1>2, <1>11, <1>15, <1>16 DEF AfterOf, db
<1>18. /\ headOf = [c \in DOMAIN Plan(q) |-> VersionIn(h, c)]
       /\ draftOf = [c \in DOMAIN Plan(q) |-> VersionIn(r, c)]
  BY <1>6, <1>7 DEF PairOf
<1>19. HasTablesOnce(h) /\ HasTablesOnce(r)
  BY DEF Asks
<1>20. Relinked(tablesOf[h], headOf, version) = {Goes(q, tableId, c) : c \in TableCreatedIds} \ {None}
  <2>1. Relinked(tablesOf[h], headOf, version)
          = {IF c \in DOMAIN Plan(q) THEN version[c] ELSE VersionIn(h, c) : c \in TableCreatedIds}
              \ {None}
    <3> DEFINE C == DOMAIN Plan(q)
               was == [c \in C |-> VersionIn(h, c)]
    <3>1. headOf = was /\ C \in SUBSET TableCreatedIds /\ DOMAIN version = C
      BY <1>7, <1>18
    <3> HIDE DEF C, headOf
    <3>2. Relinked(tablesOf[h], was, version)
            = {IF c \in C THEN version[c] ELSE VersionIn(h, c) : c \in TableCreatedIds} \ {None}
      BY <1>19, <3>1, RelinkedIs
    <3> HIDE DEF was
    <3>3. QED
      BY <3>1, <3>2 DEF C
  <2>2. \A c \in TableCreatedIds :
          Goes(q, tableId, c) = IF c \in DOMAIN Plan(q) THEN version[c] ELSE VersionIn(h, c)
    BY <1>1, <1>6 DEF Goes, BaseSide, PairOf, version
  <2>3. QED
    BY <2>1, <2>2
<1>21. Relinked(tablesOf[r], draftOf, nextDraft)
         = {DraftGoes(q, tableId, rowId, c) : c \in TableCreatedIds} \ {None}
  <2>1. Relinked(tablesOf[r], draftOf, nextDraft)
          = {IF c \in DOMAIN Plan(q) THEN nextDraft[c] ELSE VersionIn(r, c) : c \in TableCreatedIds}
              \ {None}
    <3> DEFINE C == DOMAIN Plan(q)
               was == [c \in C |-> VersionIn(r, c)]
    <3>1. draftOf = was /\ C \in SUBSET TableCreatedIds /\ DOMAIN nextDraft = C
      BY <1>7, <1>18
    <3> HIDE DEF C, draftOf, nextDraft
    <3>2. Relinked(tablesOf[r], was, nextDraft)
            = {IF c \in C THEN nextDraft[c] ELSE VersionIn(r, c) : c \in TableCreatedIds} \ {None}
      BY <1>19, <3>1, RelinkedIs
    <3> HIDE DEF was
    <3>3. QED
      BY <3>1, <3>2 DEF C
  <2>2. \A c \in TableCreatedIds :
          DraftGoes(q, tableId, rowId, c)
            = IF c \in DOMAIN Plan(q) THEN nextDraft[c] ELSE VersionIn(r, c)
    BY <1>1, <1>6 DEF DraftGoes, Goes, PairOf, version, db
  <2>3. QED
    BY <2>1, <2>2
<1>22. /\ tablesOf'[r] = {Goes(q, tableId, c) : c \in TableCreatedIds} \ {None}
       /\ tablesOf'[n] = {DraftGoes(q, tableId, rowId, c) : c \in TableCreatedIds} \ {None}
       /\ \A p \in RevisionIds \ {r, n} : tablesOf'[p] = tablesOf[p]
  BY <1>2, <1>3, <1>20, <1>21 DEF IInv, TypeOK
<1>23. tablesOf' \in [RevisionIds -> SUBSET TableVersions]
  <2>1. \A c \in TableCreatedIds :
          /\ Goes(q, tableId, c) \in TableVersions \cup {None}
          /\ DraftGoes(q, tableId, rowId, c) \in TableVersions \cup {None}
    BY <1>6 DEF GoesOf, IsVersion
  <2>2. \A p \in RevisionIds : tablesOf'[p] \in SUBSET TableVersions
    BY <1>22, <2>1 DEF IInv, TypeOK
  <2>3. tablesOf' = [p \in RevisionIds |-> tablesOf'[p]]
    BY <1>2 DEF IInv, TypeOK
  <2>4. QED
    BY <2>2, <2>3
<1>24. ASSUME NEW c \in DOMAIN Plan(q), version[c] # None
       PROVE  /\ version[c] \in tablesOf[h] \/ table'[version[c]].readonly
              /\ version[c] # q.pairs[c].head => \A x \in db.rowsOf[version[c]] :
                   \/ q.pairs[c].head # None /\ x \in rowsOf[q.pairs[c].head]
                   \/ row'[x].readonly
  <2>1. version[c] \in TableVersions /\ db.table[version[c]] \in TableRecord
    BY <1>8, <1>24 DEF IsVersion, db
  <2>2. \A t \in Range(headOf) : t = None \/ t \in tablesOf[h]
    BY <1>6, <1>7 DEF Range, PairOf
  <2>3. version[c] \in tablesOf[h] \/ version[c] \in lockedTables
    BY <1>24, <2>2 DEF lockedTables
  <2>4. version[c] \in lockedTables => table'[version[c]].readonly
    <3>1. ASSUME version[c] \in lockedTables
          PROVE  table'[version[c]].readonly
      <4>1. table'[version[c]] = [db.table[version[c]] EXCEPT !.readonly = TRUE]
        BY <1>2, <2>1, <3>1
      <4>2. QED
        BY <2>1, <4>1 DEF TableRecord
    <3>2. QED
      BY <3>1
  <2>5. ASSUME version[c] # q.pairs[c].head, NEW x \in db.rowsOf[version[c]],
               ~(q.pairs[c].head # None /\ x \in rowsOf[q.pairs[c].head])
        PROVE  row'[x].readonly
    <3>1. x \in lockedRows
      BY <1>7, <1>24, <2>5 DEF lockedRows, RowsToLockFor
    <3>2. x \in RowVersions /\ db.row[x] # None
      BY <1>9, <1>13, <2>1, <2>5, NoneAssumption
    <3>3. QED
      BY <1>15, <3>1, <3>2
  <2>6. QED
    BY <2>3, <2>4, <2>5
<1>25. \A t \in TableVersions : table'[t] # db.table[t] =>
         \E c \in DOMAIN Plan(q) : version[c] = t
  BY <1>2 DEF lockedTables
<1>26. \E v \in BOOLEAN :
         /\ v = TableSetsDiffer(table', tablesOf'[r], tablesOf'[n])
         /\ revision' = [revision EXCEPT ![h] = RetireHead(h), ![r] = PromoteDraftToHead(r),
                           ![n] = [OpenNextDraft(b, r) EXCEPT !.hasChanges = v]]
  <2>1. TableSetsDiffer(table', tablesOf'[r], tablesOf'[n]) \in BOOLEAN
    BY DEF TableSetsDiffer
  <2>2. QED
    BY <1>1, <1>2, <2>1
<1>27. CommitOf(b, h, r, q, tableId, rowId, n)
  BY <1>1, <1>3, <1>22, <1>23, <1>24, <1>25, <1>26 DEF CommitOf, db, version
<1>28. QED
  BY <1>3, <1>17, <1>27

\* A revert links in the draft.
RevertOf(r, q, tableId, rowId) ==
  LET db == WritesOf(q, tableId, rowId)
  IN  /\ q.operation = "revert"
      /\ table' = db.table /\ row' = db.row
      /\ tablesOf'[r] = {DraftGoes(q, tableId, rowId, c) : c \in TableCreatedIds} \ {None}
      /\ \A p \in RevisionIds \ {r} : tablesOf'[p] = tablesOf[p]
      /\ tablesOf' \in [RevisionIds -> SUBSET TableVersions]
      /\ \E v \in BOOLEAN :
           /\ v = TableSetsDiffer(table', tablesOf'[revision[r].parent], tablesOf'[r])
           /\ revision' = [revision EXCEPT ![r] = [@ EXCEPT !.hasChanges = v]]

\* What a revert does is that.
LEMMA RevertFacts ==
  ASSUME IInv, IdentitiesHold, NEW b, NEW h \in RevisionIds, NEW r \in RevisionIds, NEW q,
         Asks(b, h, r, q), NEW tableId, NEW rowId, Fresh(q, tableId, rowId),
         Reverts(q, tableId, rowId)
  PROVE  AfterOf(q, tableId, rowId) /\ RevertOf(r, q, tableId, rowId)
<1> DEFINE db == WritesOf(q, tableId, rowId)
           version == VersionsOf(q, tableId)
           draftOf == [c \in DOMAIN Plan(q) |-> q.pairs[c].draft]
           kept == [c \in DOMAIN Plan(q) |->
                      VersionToLink(db, Plan(q)[c], version[c], q.pairs[c].head)]
<1>0. q.operation = "revert"
  BY DEF Reverts, RevertToTarget
<1>1. q.draft = r /\ q.operation = "revert"
  <2>1. RequestOf(b, h, r, q)
    BY RequestFacts
  <2>2. QED
    BY <1>0, <2>1 DEF RequestOf
<1>2. /\ table' = db.table /\ row' = db.row /\ rowsOf' = db.rowsOf
      /\ tablesOf' = [tablesOf EXCEPT ![r] = Relinked(@, draftOf, kept)]
      /\ revision' = [revision EXCEPT ![r] = [@ EXCEPT !.hasChanges =
                        TableSetsDiffer(table', tablesOf'[revision[r].parent], tablesOf'[r])]]
  BY <1>1 DEF Reverts, RevertToTarget, UpdateHasChanges
<1>3. RelationsAre(q, tableId, rowId) /\ VersionsAre(q, tableId, rowId) /\ PlannedOf(q)
  BY WritesFacts, PlannedTables DEF WritesAre
<1>4. \A c \in TableCreatedIds : GoesOf(q, tableId, rowId, c) /\ PairOf(h, r, q, c)
  BY GoesFacts, PairFacts
<1>5. DOMAIN Plan(q) \subseteq TableCreatedIds
  BY <1>3 DEF PlannedOf
<1>6. /\ db.table \in [TableVersions -> TableRecord \cup {None}]
      /\ db.row \in [RowVersions -> RowRecord \cup {None}]
  BY <1>3 DEF RelationsAre
<1> HIDE DEF db, version
<1>7. AfterOf(q, tableId, rowId)
  BY <1>2, <1>6 DEF AfterOf, db
<1>8. draftOf = [c \in DOMAIN Plan(q) |-> VersionIn(r, c)]
  BY <1>4, <1>5 DEF PairOf
<1>9. HasTablesOnce(r)
  BY DEF Asks
<1>10. Relinked(tablesOf[r], draftOf, kept)
         = {DraftGoes(q, tableId, rowId, c) : c \in TableCreatedIds} \ {None}
  <2>1. Relinked(tablesOf[r], draftOf, kept)
          = {IF c \in DOMAIN Plan(q) THEN kept[c] ELSE VersionIn(r, c) : c \in TableCreatedIds}
              \ {None}
    <3> DEFINE C == DOMAIN Plan(q)
               was == [c \in C |-> VersionIn(r, c)]
    <3>1. draftOf = was /\ C \in SUBSET TableCreatedIds /\ DOMAIN kept = C
      BY <1>5, <1>8
    <3> HIDE DEF C, draftOf, kept
    <3>2. Relinked(tablesOf[r], was, kept)
            = {IF c \in C THEN kept[c] ELSE VersionIn(r, c) : c \in TableCreatedIds} \ {None}
      BY <1>9, <3>1, RelinkedIs
    <3> HIDE DEF was
    <3>3. QED
      BY <3>1, <3>2 DEF C
  <2>2. \A c \in TableCreatedIds :
          DraftGoes(q, tableId, rowId, c) = IF c \in DOMAIN Plan(q) THEN kept[c] ELSE VersionIn(r, c)
    BY <1>1, <1>4 DEF DraftGoes, Goes, PairOf, version, db
  <2>3. QED
    BY <2>1, <2>2
<1>11. /\ tablesOf'[r] = {DraftGoes(q, tableId, rowId, c) : c \in TableCreatedIds} \ {None}
       /\ \A p \in RevisionIds \ {r} : tablesOf'[p] = tablesOf[p]
  BY <1>2, <1>10 DEF IInv, TypeOK
<1>12. tablesOf' \in [RevisionIds -> SUBSET TableVersions]
  <2>1. \A c \in TableCreatedIds : DraftGoes(q, tableId, rowId, c) \in TableVersions \cup {None}
    BY <1>4 DEF GoesOf, IsVersion
  <2>2. \A p \in RevisionIds : tablesOf'[p] \in SUBSET TableVersions
    BY <1>11, <2>1 DEF IInv, TypeOK
  <2>3. tablesOf' = [p \in RevisionIds |-> tablesOf'[p]]
    BY <1>2 DEF IInv, TypeOK
  <2>4. QED
    BY <2>2, <2>3
<1>13. \E v \in BOOLEAN :
         /\ v = TableSetsDiffer(table', tablesOf'[revision[r].parent], tablesOf'[r])
         /\ revision' = [revision EXCEPT ![r] = [@ EXCEPT !.hasChanges = v]]
  <2>1. TableSetsDiffer(table', tablesOf'[revision[r].parent], tablesOf'[r]) \in BOOLEAN
    BY DEF TableSetsDiffer
  <2>2. QED
    BY <1>2, <2>1
<1>14. RevertOf(r, q, tableId, rowId)
  BY <1>1, <1>2, <1>11, <1>12, <1>13 DEF RevertOf, db
<1>15. QED
  BY <1>7, <1>14

-----------------------------------------------------------------------------
(* Identities stay. *)

ComesOf(q, tableId, rowId, c, k, x) ==
  LET db == WritesOf(q, tableId, rowId)
  IN  /\ x \in RowVersions /\ db.row[x] \in RowRecord /\ db.row[x].createdId = k
      /\ {RowContent(db.row[x])} = TargetRow(q, c, k)
      /\ \E t \in Versions(q, c) : \E y \in rowsOf[t] : row[y].createdId = k
      /\ \A y : Comes(q, c, rowId, k, y) => x = y
      /\ row[x] = None \/ \E t \in Versions(q, c) : x \in rowsOf[t]

\* A row of a mixture is the one version of its logical row, which is the table's.
LEMMA ComesFacts ==
  ASSUME IInv, IdentitiesHold, NEW b, NEW h \in RevisionIds, NEW r \in RevisionIds, NEW q,
         Asks(b, h, r, q), NEW tableId, NEW rowId, Fresh(q, tableId, rowId),
         NEW c \in DOMAIN Plan(q), Plan(q)[c].mixed,
         NEW k \in RowCreatedIds, NEW x, Comes(q, c, rowId, k, x)
  PROVE  ComesOf(q, tableId, rowId, c, k, x)
<1> DEFINE db == WritesOf(q, tableId, rowId)
<1>1. RowsAre(q, tableId, rowId)
  BY WritesFacts DEF WritesAre
<1>2. c \in TableCreatedIds /\ OnBothSides(q.pairs[c])
  BY PlanFacts DEF PlanOf
<1>3. PairOf(h, r, q, c) /\ SidesOf(q, c) /\ FateOf(q, c, k)
  BY <1>2, PairFacts, SideFacts, FateFacts
<1>4. /\ StructureVersion(q, c) \in Versions(q, c) /\ OtherVersion(q, c) \in Versions(q, c)
      /\ \A t \in Versions(q, c) : t \in TableVersions
      /\ OwnRow(q, c, k) = RowIn(StructureVersion(q, c), k)
      /\ OtherRow(q, c, k) = RowIn(OtherVersion(q, c), k)
  BY <1>2, <1>3 DEF SidesOf, OnBothSides, Versions, PairOf
<1>5. ASSUME NEW t \in Versions(q, c), x \in rowsOf[t], x = RowIn(t, k), x # None
      PROVE  /\ x \in RowVersions /\ db.row[x] = row[x] /\ row[x] \in RowRecord
             /\ row[x].createdId = k
  <2>1. t \in TableVersions
    BY <1>4
  <2>2. x \in RowVersions /\ row[x] \in RowRecord /\ row[x].createdId = k
    BY <1>5, <2>1, RowInFacts
  <2>3. QED
    BY <1>1, <2>2, NoneAssumption DEF RowsAre
<1>6. CASE Fate(q, c, k) = "structureSide"
  <2>1. x = OwnRow(q, c, k) /\ x # None /\ x \in rowsOf[StructureVersion(q, c)]
    BY <1>6 DEF Comes
  <2>2. \A y : Comes(q, c, rowId, k, y) => y = OwnRow(q, c, k)
    BY <1>6 DEF Comes
  <2>3. TargetRow(q, c, k) = {RowContent(row[x])}
    BY <1>3, <1>6, <2>1 DEF FateOf, RowOf
  <2>4. QED
    BY <1>4, <1>5, <2>1, <2>2, <2>3 DEF ComesOf
<1>7. CASE Fate(q, c, k) = "otherSide"
  <2>1. x = OtherRow(q, c, k) /\ x # None /\ x \in rowsOf[OtherVersion(q, c)]
    BY <1>3, <1>7 DEF Comes, FateOf
  <2>2. \A y : Comes(q, c, rowId, k, y) => y = OtherRow(q, c, k)
    BY <1>7 DEF Comes
  <2>3. TargetRow(q, c, k) = {RowContent(row[x])}
    BY <1>3, <1>7, <2>1 DEF FateOf, RowOf
  <2>4. QED
    BY <1>4, <1>5, <2>1, <2>2, <2>3 DEF ComesOf
<1>8. CASE Fate(q, c, k) = "merge"
  <2>1. PICK n \in TargetRow(q, c, k) : x = rowId[n] /\ n \in Plan(q)[c].newRows
    BY <1>8 DEF Comes
  <2>2. \A y : Comes(q, c, rowId, k, y) => \E m \in TargetRow(q, c, k) : y = rowId[m]
    BY <1>8 DEF Comes
  <2>3. /\ TargetRow(q, c, k) = {n} /\ n.createdId = k
        /\ \E t \in Versions(q, c) : \E y \in rowsOf[t] : row[y].createdId = k
    BY <1>2, TargetRowFacts
  <2>4. /\ x \in RowVersions /\ row[x] = None
        /\ db.row[x] \in RowRecord /\ RowContent(db.row[x]) = n
    BY <1>1, <2>1 DEF RowsAre
  <2>5. db.row[x].createdId = k
    BY <2>3, <2>4 DEF RowContent
  <2>6. QED
    BY <2>1, <2>2, <2>3, <2>4, <2>5 DEF ComesOf
<1>9. QED
  BY <1>6, <1>7, <1>8 DEF Comes

\* A partial operation keeps identities.
LEMMA ApplyKeepsIdentities ==
  ASSUME IInv, IdentitiesHold, NEW b, NEW h \in RevisionIds, NEW r \in RevisionIds, NEW q,
         Asks(b, h, r, q), NEW tableId, NEW rowId, Fresh(q, tableId, rowId),
         AfterOf(q, tableId, rowId)
  PROVE  IdentitiesHold'
<1> DEFINE db == WritesOf(q, tableId, rowId)
           version == VersionsOf(q, tableId)
           mixed(c, u) == c \in DOMAIN Plan(q) /\ Plan(q)[c].mixed /\ version[c] = u
<1>1. /\ VersionsAre(q, tableId, rowId) /\ OldTablesAre(q, tableId, rowId)
      /\ RowsAre(q, tableId, rowId)
  BY WritesFacts DEF WritesAre
<1>2. ASSUME NEW u \in TableVersions, NEW x \in rowsOf'[u]
      PROVE  /\ x \in db.rowsOf[u]
             /\ table'[u].createdId = db.table[u].createdId
             /\ x \in RowVersions /\ row'[x].createdId = db.row[x].createdId
  <2>1. x \in db.rowsOf[u]
    BY DEF AfterOf
  <2>2. db.table[u] # None /\ x \in RowVersions /\ db.row[x] # None
    BY <2>1, WrittenRows, NoneAssumption
  <2>3. QED
    BY <2>1, <2>2 DEF AfterOf
<1>3. ASSUME NEW u \in TableVersions, NEW x \in rowsOf'[u], \A c : ~mixed(c, u)
      PROVE  /\ x \in rowsOf[u]
             /\ table[u].createdId = table'[u].createdId
             /\ row[x].createdId = row'[x].createdId
  <2>1. db.rowsOf[u] = rowsOf[u]
    BY <1>1, <1>3 DEF OldTablesAre
  <2>2. x \in rowsOf[u] /\ table[u] # None /\ x \in RowVersions /\ row[x] # None
    BY <1>2, <1>3, <2>1 DEF IInv, TypeOK, CommittedIsReadonly
  <2>3. QED
    BY <1>1, <1>2, <1>3, <2>2 DEF OldTablesAre, RowsAre
<1>4. ASSUME NEW u \in TableVersions, NEW c, mixed(c, u)
      PROVE  /\ c \in TableCreatedIds
             /\ db.table[u].createdId = c
             /\ \A x \in rowsOf'[u] : \E k \in RowCreatedIds : Comes(q, c, rowId, k, x)
  <2>1. c \in TableCreatedIds
    BY <1>4, PlanFacts DEF PlanOf
  <2>2. db.table[u].createdId = c /\ db.rowsOf[u] = Mixture(q, c, rowId)
    BY <1>1, <1>4 DEF VersionsAre
  <2>3. QED
    BY <1>2, <1>4, <2>1, <2>2, MixtureFacts
<1> HIDE DEF db, version
<1>5. ASSUME NEW u \in TableVersions, NEW x \in rowsOf'[u]
      PROVE  \E t \in TableVersions : \E y \in rowsOf[t] :
               /\ table[t].createdId = table'[u].createdId
               /\ row[y].createdId = row'[x].createdId
  <2>1. CASE \A c : ~mixed(c, u)
    BY <1>3, <1>5, <2>1
  <2>2. ASSUME NEW c, mixed(c, u)
        PROVE  \E t \in TableVersions : \E y \in rowsOf[t] :
                 /\ table[t].createdId = table'[u].createdId
                 /\ row[y].createdId = row'[x].createdId
    <3>1. PICK k \in RowCreatedIds : Comes(q, c, rowId, k, x)
      BY <1>4, <1>5, <2>2
    <3>2. ComesOf(q, tableId, rowId, c, k, x)
      BY <2>2, <3>1, ComesFacts
    <3>3. db.row[x].createdId = k
      BY <3>2 DEF db, ComesOf
    <3>7. PICK t \in Versions(q, c) : \E y \in rowsOf[t] : row[y].createdId = k
      BY <3>2 DEF ComesOf
    <3>8. PairOf(h, r, q, c)
      BY <1>4, <2>2, PairFacts
    <3>4. t \in TableVersions /\ table[t].createdId = c
      BY <3>8 DEF PairOf
    <3>5. table'[u].createdId = c
      BY <1>2, <1>4, <1>5, <2>2
    <3>6. QED
      BY <1>2, <1>5, <3>3, <3>4, <3>5, <3>7
  <2>3. QED
    BY <2>1, <2>2
<1>6. ASSUME NEW u \in TableVersions, NEW x \in rowsOf'[u], NEW y \in rowsOf'[u],
             row'[x].createdId = row'[y].createdId
      PROVE  x = y
  <2>1. CASE \A c : ~mixed(c, u)
    BY <1>3, <1>6, <2>1 DEF IdentitiesHold
  <2>2. ASSUME NEW c, mixed(c, u)
        PROVE  x = y
    <3>1. PICK k \in RowCreatedIds : Comes(q, c, rowId, k, x)
      BY <1>4, <1>6, <2>2
    <3>2. PICK l \in RowCreatedIds : Comes(q, c, rowId, l, y)
      BY <1>4, <1>6, <2>2
    <3>3. ComesOf(q, tableId, rowId, c, k, x) /\ ComesOf(q, tableId, rowId, c, l, y)
      BY <2>2, <3>1, <3>2, ComesFacts
    <3>4. db.row[x].createdId = k /\ db.row[y].createdId = l
      BY <3>3 DEF db, ComesOf
    <3>5. k = l
      BY <1>2, <1>6, <3>4
    <3>6. QED
      BY <3>2, <3>3, <3>5 DEF ComesOf
  <2>3. QED
    BY <2>1, <2>2
<1>7. QED
  BY <1>5, <1>6, IdentitiesFromBefore

-----------------------------------------------------------------------------
(* Locks. *)

\* The revisions of a commit.
LEMMA CommitPromotes ==
  ASSUME IInv, IdentitiesHold, NEW b \in Branches, NEW h \in RevisionIds, NEW r \in RevisionIds,
         NEW q, Asks(b, h, r, q), NEW tableId, NEW rowId, NEW n,
         CommitOf(b, h, r, q, tableId, rowId, n)
  PROVE  \E v \in BOOLEAN : /\ v = TableSetsDiffer(table', tablesOf'[r], tablesOf'[n])
                            /\ PromotionOf(b, h, r, n, v)
<1>1. PICK v \in BOOLEAN :
        /\ v = TableSetsDiffer(table', tablesOf'[r], tablesOf'[n])
        /\ Promotes(b, h, r, n, v)
  BY DEF CommitOf, Promotes
<1>2. n \in RevisionIds /\ revision[n] = None
  BY DEF CommitOf
<1>3. IsHead(h) /\ IsDraft(r) /\ revision[h].branch = b /\ revision[r].branch = b
  BY DEF Asks
<1>4. PromotionOf(b, h, r, n, v)
  BY <1>1, <1>2, <1>3, PromotionFacts
<1>5. QED
  BY <1>1, <1>4

\* Versions that exist stay, with what they say; none that was locked is opened.
LEMMA OldVersionsStay ==
  ASSUME IInv, IdentitiesHold, NEW b, NEW h \in RevisionIds, NEW r \in RevisionIds, NEW q,
         Asks(b, h, r, q), NEW tableId, NEW rowId, Fresh(q, tableId, rowId),
         AfterOf(q, tableId, rowId)
  PROVE  /\ \A t \in TableVersions : table[t] # None =>
              /\ table'[t] # None /\ table'[t].createdId = table[t].createdId
              /\ table'[t].id = table[t].id
              /\ table[t].readonly => table'[t].readonly
              /\ \/ rowsOf'[t] = rowsOf[t]
                 \/ q.operation = "revert" /\ t \in tablesOf[r] /\ ~table[t].readonly
         /\ \A x \in RowVersions : row[x] # None =>
              /\ row'[x] # None /\ row'[x].createdId = row[x].createdId
              /\ row'[x].id = row[x].id /\ row'[x].data = row[x].data
              /\ row[x].readonly => row'[x].readonly
<1> DEFINE db == WritesOf(q, tableId, rowId)
           version == VersionsOf(q, tableId)
<1>1. /\ VersionsAre(q, tableId, rowId) /\ OldTablesAre(q, tableId, rowId)
      /\ RowsAre(q, tableId, rowId)
  BY WritesFacts DEF WritesAre
<1>2. ASSUME NEW t \in TableVersions, table[t] # None
      PROVE  \/ rowsOf'[t] = rowsOf[t]
             \/ q.operation = "revert" /\ t \in tablesOf[r] /\ ~table[t].readonly
  <2>1. CASE \A c \in DOMAIN Plan(q) : Plan(q)[c].mixed => version[c] # t
    BY <1>1, <2>1 DEF OldTablesAre, AfterOf
  <2>2. ASSUME NEW c \in DOMAIN Plan(q), Plan(q)[c].mixed, version[c] = t
        PROVE  q.operation = "revert" /\ t \in tablesOf[r] /\ ~table[t].readonly
    <3>1. q.operation = "revert" /\ t = q.pairs[c].draft /\ ~table[t].readonly
      BY <1>1, <1>2, <2>2 DEF VersionsAre
    <3>2. c \in TableCreatedIds
      BY <2>2, PlanFacts DEF PlanOf
    <3>3. q.pairs[c].draft \in tablesOf[r] \cup {None}
      BY <3>2, PairFacts DEF PairOf
    <3>4. QED
      BY <3>1, <3>3, VersionAssumption
  <2>3. QED
    BY <2>1, <2>2
<1>3. ASSUME NEW t \in TableVersions, table[t] # None
      PROVE  /\ table'[t] # None /\ table'[t].createdId = table[t].createdId
             /\ table'[t].id = table[t].id
             /\ table[t].readonly => table'[t].readonly
  <2>1. db.table[t] = table[t]
    BY <1>1, <1>3 DEF OldTablesAre
  <2>2. QED
    BY <1>3, <2>1 DEF AfterOf
<1>4. ASSUME NEW x \in RowVersions, row[x] # None
      PROVE  /\ row'[x] # None /\ row'[x].createdId = row[x].createdId
             /\ row'[x].id = row[x].id /\ row'[x].data = row[x].data
             /\ row[x].readonly => row'[x].readonly
  <2>1. db.row[x] = row[x]
    BY <1>1, <1>4 DEF RowsAre
  <2>2. /\ row'[x] # None /\ RowContent(row'[x]) = RowContent(row[x])
        /\ (row[x].readonly => row'[x].readonly)
    BY <1>4, <2>1 DEF AfterOf
  <2>3. QED
    BY <2>2 DEF RowContent
<1>5. QED
  BY <1>2, <1>3, <1>4

\* Rows are linked that are there, by tables that are there.
LEMMA RowsAreThere ==
  ASSUME IInv, IdentitiesHold, NEW b, NEW h \in RevisionIds, NEW r \in RevisionIds, NEW q,
         Asks(b, h, r, q), NEW tableId, NEW rowId, Fresh(q, tableId, rowId),
         AfterOf(q, tableId, rowId), NEW t \in TableVersions, NEW x \in rowsOf'[t]
  PROVE  /\ table'[t] # None /\ x \in RowVersions /\ row'[x] # None
<1>1. x \in WritesOf(q, tableId, rowId).rowsOf[t]
  BY DEF AfterOf
<1>2. /\ WritesOf(q, tableId, rowId).table[t] # None
      /\ x \in RowVersions /\ WritesOf(q, tableId, rowId).row[x] # None
  BY <1>1, WrittenRows, NoneAssumption
<1>3. QED
  BY <1>2 DEF AfterOf

\* A committed revision keeps what it links, and what that says.
LEMMA CommittedStays ==
  ASSUME IInv, IdentitiesHold, NEW b, NEW h \in RevisionIds, NEW r \in RevisionIds, NEW q,
         Asks(b, h, r, q), NEW tableId, NEW rowId, Fresh(q, tableId, rowId),
         AfterOf(q, tableId, rowId),
         \A p \in RevisionIds : Committed(p) => tablesOf'[p] = tablesOf[p]
  PROVE  KeepsCommitted
<1>1. SUFFICES ASSUME NEW p \in RevisionIds, Committed(p), NEW t \in tablesOf[p]
               PROVE  /\ table'[t].createdId = table[t].createdId /\ table'[t].id = table[t].id
                      /\ rowsOf'[t] = rowsOf[t]
                      /\ \A x \in rowsOf[t] :
                           /\ row'[x].createdId = row[x].createdId /\ row'[x].id = row[x].id
                           /\ row'[x].data = row[x].data
  BY DEF KeepsCommitted
<1>2. /\ t \in TableVersions /\ table[t] # None /\ table[t].readonly
      /\ \A x \in rowsOf[t] : x \in RowVersions /\ row[x] # None
  BY <1>1 DEF IInv, TypeOK, CommittedIsReadonly
<1>3. QED
  BY <1>2, OldVersionsStay

\* What the new head links is locked, with the rows that were not part of the head.
LEMMA CommitToTargetKeeps ==
  ASSUME IInv, IdentitiesHold, NEW b \in Branches, NEW h \in RevisionIds, NEW r \in RevisionIds,
         NEW q, Asks(b, h, r, q), NEW tableId, NEW rowId, Fresh(q, tableId, rowId),
         AfterOf(q, tableId, rowId), NEW n \in RevisionIds, CommitOf(b, h, r, q, tableId, rowId, n)
  PROVE  IInv' /\ KeepsCommitted
<1> DEFINE db == WritesOf(q, tableId, rowId)
           version == VersionsOf(q, tableId)
<1>1. PICK v \in BOOLEAN : PromotionOf(b, h, r, n, v)
  BY CommitPromotes
<1>2. /\ revision[n] = None /\ n # h /\ n # r /\ q.operation = "commit"
      /\ tablesOf'[r] = {Goes(q, tableId, c) : c \in TableCreatedIds} \ {None}
      /\ tablesOf'[n] = {DraftGoes(q, tableId, rowId, c) : c \in TableCreatedIds} \ {None}
      /\ \A p \in RevisionIds \ {r, n} : tablesOf'[p] = tablesOf[p]
      /\ tablesOf' \in [RevisionIds -> SUBSET TableVersions]
  BY DEF CommitOf
<1>3. ASSUME NEW c \in DOMAIN Plan(q), version[c] # None
      PROVE  /\ version[c] \in tablesOf[h] \/ table'[version[c]].readonly
             /\ version[c] # q.pairs[c].head => \A x \in rowsOf'[version[c]] :
                  \/ q.pairs[c].head # None /\ x \in rowsOf[q.pairs[c].head]
                  \/ row'[x].readonly
  BY <1>3 DEF CommitOf, AfterOf
<1>4. \A t \in TableVersions : table'[t] # db.table[t] =>
        \E c \in DOMAIN Plan(q) : version[c] = t
  BY DEF CommitOf
<1>5. /\ OldTablesAre(q, tableId, rowId) /\ RelationsAre(q, tableId, rowId)
      /\ PlannedOf(q) /\ VersionsAre(q, tableId, rowId)
  BY WritesFacts, PlannedTables DEF WritesAre
<1>6. \A c \in TableCreatedIds : GoesOf(q, tableId, rowId, c) /\ PairOf(h, r, q, c)
  BY GoesFacts, PairFacts
<1>7. IsHead(h) /\ Committed(h) /\ IsDraft(r) /\ h # r
  BY DEF Asks, IInv, HeadsAreCommitted, IsHead, IsDraft, Committed
<1>8. \A t \in tablesOf[h] :
        /\ t \in TableVersions /\ t # None /\ table[t] # None /\ table[t].readonly
        /\ \A x \in rowsOf[t] : x \in RowVersions /\ row[x] # None /\ row[x].readonly
  BY <1>7, VersionAssumption DEF IInv, TypeOK, CommittedIsReadonly
<1>9. \A c, t : IsVersion(q, tableId, rowId, c, t) => t \in TableVersions /\ table'[t] # None
  <2>1. \A c, t : IsVersion(q, tableId, rowId, c, t) =>
          t \in TableVersions /\ db.table[t] # None
    BY NoneAssumption DEF IsVersion
  <2>2. QED
    BY <2>1 DEF AfterOf
<1>10. TypeOK'
  <2>1. rowsOf' \in [TableVersions -> SUBSET RowVersions]
    BY <1>5 DEF AfterOf, RelationsAre
  <2>2. revision' \in [RevisionIds -> RevisionRecord \cup {None}]
    BY <1>1 DEF PromotionOf
  <2>3. QED
    BY <1>2, <2>1, <2>2 DEF AfterOf, TypeOK
<1>11. /\ IsLive(r)' /\ IsHead(r)' /\ ~IsDraft(r)'
       /\ IsLive(h)' /\ ~IsHead(h)' /\ ~IsDraft(h)'
       /\ IsLive(n)' /\ ~IsHead(n)' /\ IsDraft(n)' /\ ~Committed(n)'
       /\ \A p \in RevisionIds \ {h, r, n} :
            /\ IsLive(p)' = IsLive(p) /\ IsDraft(p)' = IsDraft(p)
            /\ IsHead(p)' = IsHead(p) /\ Committed(p)' = Committed(p)
  BY <1>1 DEF PromotionOf, IsLive, IsDraft, IsHead, Committed
<1>12. HeadsAreCommitted'
  BY <1>11 DEF IInv, HeadsAreCommitted
<1>13. ASSUME NEW p \in RevisionIds, NEW t \in tablesOf'[p]
       PROVE  /\ IsLive(p)' /\ table'[t] # None
              /\ Committed(p)' => table'[t].readonly
  <2>1. CASE p = r
    <3>1. PICK c \in TableCreatedIds : t = Goes(q, tableId, c) /\ t # None
      BY <1>2, <1>13, <2>1
    <3>2. t \in TableVersions /\ table'[t] # None
      BY <1>6, <1>9, <3>1 DEF GoesOf
    <3>3. t \in tablesOf[h] \/ table'[t].readonly
      <4>1. CASE c \in DOMAIN Plan(q)
        BY <1>3, <3>1, <4>1 DEF Goes
      <4>2. CASE c \notin DOMAIN Plan(q)
        <5>1. t = q.pairs[c].head
          BY <1>2, <3>1, <4>2 DEF Goes, BaseSide
        <5>2. QED
          BY <1>6, <3>1, <5>1 DEF PairOf
      <4>3. QED
        BY <4>1, <4>2
    <3>4. table'[t].readonly
      <4>1. CASE t \in tablesOf[h]
        BY <1>8, <4>1, OldVersionsStay
      <4>2. QED
        BY <3>3, <4>1
    <3>5. QED
      BY <1>11, <2>1, <3>2, <3>4
  <2>2. CASE p = n
    <3>1. PICK c \in TableCreatedIds : t = DraftGoes(q, tableId, rowId, c) /\ t # None
      BY <1>2, <1>13, <2>2
    <3>2. table'[t] # None
      BY <1>6, <1>9, <3>1 DEF GoesOf
    <3>3. QED
      BY <1>11, <2>2, <3>2
  <2>3. CASE p \notin {r, n}
    <3>1. /\ t \in tablesOf[p] /\ t \in TableVersions /\ table[t] # None /\ IsLive(p)
          /\ Committed(p) => table[t].readonly
      BY <1>2, <1>13, <2>3 DEF IInv, TypeOK, CommittedIsReadonly
    <3>2. table'[t] # None /\ (table[t].readonly => table'[t].readonly)
      BY <3>1, OldVersionsStay
    <3>3. IsLive(p)' /\ (Committed(p)' => Committed(p))
      BY <1>7, <1>11, <2>3, <3>1
    <3>4. QED
      BY <3>1, <3>2, <3>3
  <2>4. QED
    BY <2>1, <2>2, <2>3
<1>14. ASSUME NEW t \in TableVersions, NEW x \in rowsOf'[t]
       PROVE  /\ table'[t] # None /\ row'[x] # None
              /\ table'[t].readonly => row'[x].readonly
  <2>1. table'[t] # None /\ x \in RowVersions /\ row'[x] # None
    BY <1>14, RowsAreThere
  <2>2. ASSUME table'[t].readonly
        PROVE  row'[x].readonly
    <3>1. CASE table[t] # None /\ table[t].readonly
      <4>1. rowsOf'[t] = rowsOf[t]
        BY <1>2, <3>1, OldVersionsStay
      <4>2. x \in RowVersions /\ row[x] # None /\ row[x].readonly
        BY <1>14, <3>1, <4>1 DEF IInv, TypeOK, CommittedIsReadonly
      <4>3. QED
        BY <4>2, OldVersionsStay
    <3>2. ASSUME NEW c \in DOMAIN Plan(q), version[c] = t, t \notin tablesOf[h]
          PROVE  row'[x].readonly
      <4>1. t # None /\ c \in TableCreatedIds
        BY <1>5, VersionAssumption DEF PlannedOf
      <4>2. q.pairs[c].head \in tablesOf[h] \cup {None}
        BY <1>6, <4>1 DEF PairOf
      <4>3. \/ q.pairs[c].head # None /\ x \in rowsOf[q.pairs[c].head]
            \/ row'[x].readonly
        BY <1>3, <1>14, <3>2, <4>1, <4>2
      <4>4. CASE q.pairs[c].head # None /\ x \in rowsOf[q.pairs[c].head]
        <5>1. x \in RowVersions /\ row[x] # None /\ row[x].readonly
          BY <1>8, <4>2, <4>4
        <5>2. QED
          BY <5>1, OldVersionsStay
      <4>5. QED
        BY <4>3, <4>4
    <3>3. CASE table[t] # None /\ ~table[t].readonly
      <4>1. db.table[t] = table[t]
        BY <1>5, <3>3 DEF OldTablesAre
      <4>2. \E c \in DOMAIN Plan(q) : version[c] = t
        BY <1>4, <2>2, <3>3, <4>1
      <4>3. QED
        BY <1>8, <3>2, <3>3, <4>2
    <3>4. CASE table[t] = None
      <4>1. db.table[t] # None
        BY <2>1 DEF AfterOf
      <4>2. \E c \in DOMAIN Plan(q) : version[c] = t
        BY <1>5, <3>4, <4>1 DEF OldTablesAre
      <4>3. QED
        BY <1>8, <3>2, <3>4, <4>2
    <3>5. QED
      BY <3>1, <3>3, <3>4
  <2>3. QED
    BY <2>1, <2>2
<1>15. CommittedIsReadonly'
  BY <1>13, <1>14 DEF CommittedIsReadonly
<1>16. KeepsCommitted
  <2>1. \A p \in RevisionIds : Committed(p) => tablesOf'[p] = tablesOf[p]
    BY <1>2, <1>7 DEF Committed, IsDraft, IsLive
  <2>2. QED
    BY <2>1, CommittedStays
<1>17. QED
  BY <1>10, <1>12, <1>15, <1>16 DEF IInv

\* A revert writes in the draft alone, and there what is not locked.
LEMMA RevertToTargetKeeps ==
  ASSUME IInv, IdentitiesHold, NEW b, NEW h \in RevisionIds, NEW r \in RevisionIds,
         NEW q, Asks(b, h, r, q), NEW tableId, NEW rowId, Fresh(q, tableId, rowId),
         AfterOf(q, tableId, rowId), RevertOf(r, q, tableId, rowId)
  PROVE  IInv' /\ KeepsCommitted
<1> DEFINE db == WritesOf(q, tableId, rowId)
<1>1. /\ q.operation = "revert" /\ table' = db.table
      /\ tablesOf'[r] = {DraftGoes(q, tableId, rowId, c) : c \in TableCreatedIds} \ {None}
      /\ \A p \in RevisionIds \ {r} : tablesOf'[p] = tablesOf[p]
      /\ tablesOf' \in [RevisionIds -> SUBSET TableVersions]
  BY DEF RevertOf
<1>2. PICK v \in BOOLEAN : revision' = [revision EXCEPT ![r] = [@ EXCEPT !.hasChanges = v]]
  BY DEF RevertOf
<1>3. IsDraft(r)
  BY DEF Asks
<1>4. /\ revision' \in [RevisionIds -> RevisionRecord \cup {None}]
      /\ \A p \in RevisionIds :
           /\ IsLive(p)' = IsLive(p) /\ IsDraft(p)' = IsDraft(p)
           /\ IsHead(p)' = IsHead(p) /\ Committed(p)' = Committed(p)
  BY <1>2, <1>3, MarkChangedKeeps
<1>5. OldTablesAre(q, tableId, rowId) /\ RelationsAre(q, tableId, rowId)
  BY WritesFacts DEF WritesAre
<1>6. \A c \in TableCreatedIds : GoesOf(q, tableId, rowId, c)
  BY GoesFacts
<1>7. TypeOK'
  <2>1. rowsOf' \in [TableVersions -> SUBSET RowVersions]
    BY <1>5 DEF AfterOf, RelationsAre
  <2>2. QED
    BY <1>1, <1>4, <2>1 DEF AfterOf, TypeOK
<1>8. HeadsAreCommitted'
  BY <1>4 DEF IInv, HeadsAreCommitted
<1>9. ASSUME NEW p \in RevisionIds, NEW t \in tablesOf'[p]
      PROVE  /\ IsLive(p)' /\ table'[t] # None
             /\ Committed(p)' => table'[t].readonly
  <2>1. CASE p = r
    <3>1. PICK c \in TableCreatedIds : t = DraftGoes(q, tableId, rowId, c) /\ t # None
      BY <1>1, <1>9, <2>1
    <3>2. db.table[t] \in TableRecord
      BY <1>6, <3>1 DEF GoesOf, IsVersion
    <3>3. IsLive(r)' /\ ~Committed(r)'
      BY <1>3, <1>4 DEF IsDraft, Committed
    <3>4. QED
      BY <1>1, <2>1, <3>2, <3>3, NoneAssumption
  <2>2. CASE p # r
    <3>1. /\ t \in TableVersions /\ table[t] # None /\ IsLive(p)
          /\ Committed(p) => table[t].readonly
      BY <1>1, <1>9, <2>2 DEF IInv, TypeOK, CommittedIsReadonly
    <3>2. table'[t] # None /\ (table[t].readonly => table'[t].readonly)
      BY <3>1, OldVersionsStay
    <3>3. QED
      BY <1>4, <3>1, <3>2
  <2>3. QED
    BY <2>1, <2>2
<1>10. ASSUME NEW t \in TableVersions, NEW x \in rowsOf'[t]
       PROVE  /\ table'[t] # None /\ row'[x] # None
              /\ table'[t].readonly => row'[x].readonly
  <2>1. table'[t] # None /\ x \in RowVersions /\ row'[x] # None
    BY <1>10, RowsAreThere
  <2>2. ASSUME table'[t].readonly
        PROVE  row'[x].readonly
    <3>1. table[t] # None /\ table[t].readonly
      <4>1. table[t] # None => db.table[t] = table[t]
        BY <1>5 DEF OldTablesAre
      <4>2. table[t] = None => ~db.table[t].readonly
        BY <1>1, <1>5, <2>1 DEF OldTablesAre
      <4>3. QED
        BY <1>1, <2>2, <4>1, <4>2
    <3>2. rowsOf'[t] = rowsOf[t]
      BY <3>1, OldVersionsStay
    <3>3. x \in RowVersions /\ row[x] # None /\ row[x].readonly
      BY <1>10, <3>1, <3>2 DEF IInv, TypeOK, CommittedIsReadonly
    <3>4. QED
      BY <3>3, OldVersionsStay
  <2>3. QED
    BY <2>1, <2>2
<1>11. CommittedIsReadonly'
  BY <1>9, <1>10 DEF CommittedIsReadonly
<1>12. KeepsCommitted
  <2>1. \A p \in RevisionIds : Committed(p) => tablesOf'[p] = tablesOf[p]
    BY <1>1, <1>3 DEF Committed, IsDraft, IsLive
  <2>2. QED
    BY <2>1, CommittedStays
<1>13. QED
  BY <1>7, <1>8, <1>11, <1>12 DEF IInv

-----------------------------------------------------------------------------
(* Heads and drafts, and what is shared. *)

\* A commit moves the branch on, as if it were of everything.
LEMMA CommitToTargetShapes ==
  ASSUME IInv, BInv, IdentitiesHold, NEW b \in Branches, NEW h \in RevisionIds,
         NEW r \in RevisionIds, NEW q, Asks(b, h, r, q), NEW tableId, NEW rowId,
         NEW n \in RevisionIds, CommitOf(b, h, r, q, tableId, rowId, n)
  PROVE  BInv'
<1>1. PICK v \in BOOLEAN : PromotionOf(b, h, r, n, v)
  BY CommitPromotes
<1>2. revision[n] = None
  BY DEF CommitOf
<1>3. IsHead(h) /\ IsDraft(r) /\ revision[h].branch = b /\ revision[r].branch = b
  BY DEF Asks
<1>4. QED
  BY <1>1, <1>2, <1>3, PromotionShapes

\* A revert leaves every revision where it is.
LEMMA RevertToTargetShapes ==
  ASSUME IInv, BInv, NEW b, NEW h \in RevisionIds, NEW r \in RevisionIds, NEW q,
         Asks(b, h, r, q), NEW tableId, NEW rowId, RevertOf(r, q, tableId, rowId)
  PROVE  BInv'
<1>1. PICK v \in BOOLEAN : revision' = [revision EXCEPT ![r] = [@ EXCEPT !.hasChanges = v]]
  BY DEF RevertOf
<1>2. IsDraft(r)
  BY DEF Asks
<1>3. /\ \A p \in RevisionIds : SamePlace(p)
      /\ \A p \in RevisionIds \ {r} : revision'[p] = revision[p]
  BY <1>1, <1>2, MarkChangedStays
<1>4. \A p \in RevisionIds : revision'[p].hasChanges => revision[p].hasChanges \/ IsDraft(p)
  BY <1>2, <1>3
<1>5. QED
  BY <1>3, <1>4, SamePlacesKeep

\* What can be edited in place after a commit could be before, in the same draft;
\* the next draft has it from the draft.
LEMMA CommitToTargetKeepsUnshared ==
  ASSUME IInv, IInv', MutableIsUnshared, IdentitiesHold, NEW b \in Branches,
         NEW h \in RevisionIds, NEW r \in RevisionIds, NEW q, Asks(b, h, r, q),
         NEW tableId, NEW rowId, Fresh(q, tableId, rowId), AfterOf(q, tableId, rowId),
         NEW n \in RevisionIds, CommitOf(b, h, r, q, tableId, rowId, n)
  PROVE  MutableIsUnshared'
<1> DEFINE was(p) == IF p = n THEN r ELSE p
<1>1. PICK v \in BOOLEAN : PromotionOf(b, h, r, n, v)
  BY CommitPromotes
<1>2. /\ revision[n] = None /\ n # h /\ n # r /\ q.operation = "commit"
      /\ tablesOf'[r] = {Goes(q, tableId, c) : c \in TableCreatedIds} \ {None}
      /\ tablesOf'[n] = {DraftGoes(q, tableId, rowId, c) : c \in TableCreatedIds} \ {None}
      /\ \A p \in RevisionIds \ {r, n} : tablesOf'[p] = tablesOf[p]
  BY DEF CommitOf
<1>3. \A c \in TableCreatedIds : GoesOf(q, tableId, rowId, c) /\ PairOf(h, r, q, c)
  BY GoesFacts, PairFacts
<1>4. Committed(r)'
  BY <1>1 DEF PromotionOf, Committed, IsLive
<1>5. \A t \in tablesOf'[r] : table'[t].readonly
  BY <1>4 DEF IInv, CommittedIsReadonly
<1>6. ASSUME NEW p \in RevisionIds, NEW t \in tablesOf'[p], ~table'[t].readonly
      PROVE  /\ p # r /\ was(p) \in RevisionIds
             /\ t \in tablesOf[was(p)] /\ ~table[t].readonly
             /\ rowsOf'[t] = rowsOf[t]
  <2>1. p # r
    BY <1>5, <1>6
  <2>2. t \in tablesOf[was(p)]
    <3>1. CASE p # n
      BY <1>2, <1>6, <2>1, <3>1
    <3>2. CASE p = n
      <4>1. PICK c \in TableCreatedIds : t = DraftGoes(q, tableId, rowId, c) /\ t # None
        BY <1>2, <1>6, <3>2
      <4>2. t = q.pairs[c].draft \/ t = Goes(q, tableId, c)
        BY <1>2, <1>3, <4>1 DEF GoesOf
      <4>3. t # Goes(q, tableId, c)
        BY <1>2, <1>5, <1>6, <4>1
      <4>4. QED
        BY <1>3, <3>2, <4>1, <4>2, <4>3 DEF PairOf
    <3>3. QED
      BY <3>1, <3>2
  <2>3. was(p) \in RevisionIds /\ t \in TableVersions /\ table[t] # None
    BY <2>2 DEF IInv, TypeOK, CommittedIsReadonly
  <2>4. QED
    BY <1>2, <1>6, <2>1, <2>2, <2>3, OldVersionsStay
<1>7. \A p, s \in RevisionIds : p # r /\ s # r /\ was(p) = was(s) => p = s
  OBVIOUS
<1> HIDE DEF was
<1>8. ASSUME NEW p \in RevisionIds, NEW s \in RevisionIds, NEW t \in tablesOf'[p],
             ~table'[t].readonly, t \in tablesOf'[s]
      PROVE  p = s
  <2>1. was(p) = was(s)
    BY <1>6, <1>8, UnsharedFacts
  <2>2. QED
    BY <1>6, <1>7, <1>8, <2>1
<1>9. ASSUME NEW p \in RevisionIds, NEW s \in RevisionIds,
             NEW t \in tablesOf'[p], NEW u \in tablesOf'[s],
             NEW x \in rowsOf'[t], ~row'[x].readonly, x \in rowsOf'[u]
      PROVE  t = u
  <2>1. t \in TableVersions /\ u \in TableVersions
    BY DEF IInv, TypeOK
  <2>2. ~table'[t].readonly /\ ~table'[u].readonly
    BY <1>9, <2>1 DEF IInv, CommittedIsReadonly
  <2>3. /\ t \in tablesOf[was(p)] /\ u \in tablesOf[was(s)]
        /\ x \in rowsOf[t] /\ x \in rowsOf[u]
        /\ was(p) \in RevisionIds /\ was(s) \in RevisionIds
    BY <1>6, <1>9, <2>2
  <2>4. x \in RowVersions /\ row[x] # None
    BY <2>1, <2>3 DEF IInv, TypeOK, CommittedIsReadonly
  <2>5. ~row[x].readonly
    BY <1>9, <2>4, OldVersionsStay
  <2>6. QED
    BY <2>3, <2>5, UnsharedFacts
<1>10. QED
  BY <1>8, <1>9, UnsharedSuffices DEF IInv

\* What a revert writes in place was the draft's alone, and what it writes anew is
\* linked by the draft alone.  Two tables of the draft share no mutable row, since a
\* row has one table.
LEMMA RevertToTargetKeepsUnshared ==
  ASSUME IInv, IInv', MutableIsUnshared, IdentitiesHold, IdentitiesHold', NEW b,
         NEW h \in RevisionIds, NEW r \in RevisionIds, NEW q, Asks(b, h, r, q),
         NEW tableId, NEW rowId, Fresh(q, tableId, rowId), AfterOf(q, tableId, rowId),
         RevertOf(r, q, tableId, rowId)
  PROVE  MutableIsUnshared'
<1> DEFINE db == WritesOf(q, tableId, rowId)
           version == VersionsOf(q, tableId)
<1>1. /\ q.operation = "revert" /\ table' = db.table
      /\ tablesOf'[r] = {DraftGoes(q, tableId, rowId, c) : c \in TableCreatedIds} \ {None}
      /\ \A p \in RevisionIds \ {r} : tablesOf'[p] = tablesOf[p]
  BY DEF RevertOf
<1>2. \A c \in TableCreatedIds : GoesOf(q, tableId, rowId, c) /\ PairOf(h, r, q, c)
  BY GoesFacts, PairFacts
<1>3. /\ OldTablesAre(q, tableId, rowId) /\ VersionsAre(q, tableId, rowId)
      /\ PlannedOf(q)
  BY WritesFacts, PlannedTables DEF WritesAre
<1>4. h # r /\ Committed(h)
  BY DEF Asks, IInv, HeadsAreCommitted, IsHead, IsDraft, Committed
<1>5. \A t \in tablesOf[h] : table[t].readonly /\ \A x \in rowsOf[t] : row[x].readonly
  BY <1>4 DEF IInv, TypeOK, CommittedIsReadonly
<1>6. \A p \in RevisionIds : \A t \in tablesOf[p] :
        /\ t \in TableVersions /\ table[t] # None
        /\ \A x \in rowsOf[t] : x \in RowVersions /\ row[x] # None
  BY DEF IInv, TypeOK, CommittedIsReadonly
<1>7. ASSUME NEW t \in tablesOf'[r]
      PROVE  \E c \in TableCreatedIds :
               /\ table'[t].createdId = c /\ t \in TableVersions
               /\ t \in tablesOf[h] \/ t \in tablesOf[r] \/ table[t] = None
  <2>1. PICK c \in TableCreatedIds : t = DraftGoes(q, tableId, rowId, c) /\ t # None
    BY <1>1, <1>7
  <2>2. IsVersion(q, tableId, rowId, c, t) /\ (t \in Versions(q, c) \/ table[t] = None)
    <3>1. t \in {Goes(q, tableId, c), q.pairs[c].head}
      BY <1>1, <1>2, <2>1 DEF GoesOf
    <3>2. QED
      BY <1>2, <2>1, <3>1 DEF GoesOf, Versions
  <2>3. table'[t].createdId = c /\ t \in TableVersions
    BY <1>1, <2>2 DEF IsVersion
  <2>4. QED
    BY <1>2, <2>2, <2>3 DEF PairOf
<1>8. ASSUME NEW t \in tablesOf'[r], NEW u \in tablesOf'[r],
             table'[t].createdId = table'[u].createdId
      PROVE  t = u
  <2>1. PICK c \in TableCreatedIds : t = DraftGoes(q, tableId, rowId, c) /\ t # None
    BY <1>1, <1>8
  <2>2. PICK d \in TableCreatedIds : u = DraftGoes(q, tableId, rowId, d) /\ u # None
    BY <1>1, <1>8
  <2>3. table'[t].createdId = c /\ table'[u].createdId = d
    BY <1>1, <1>2, <2>1, <2>2 DEF GoesOf, IsVersion
  <2>4. QED
    BY <1>8, <2>1, <2>2, <2>3
<1>9. ASSUME NEW p \in RevisionIds \ {r}, NEW t \in tablesOf'[p]
      PROVE  /\ t \in tablesOf[p] /\ table'[t] = table[t] /\ rowsOf'[t] = rowsOf[t]
  <2>1. t \in tablesOf[p] /\ t \in TableVersions /\ table[t] # None
    BY <1>1, <1>6, <1>9
  <2>2. table'[t] = table[t]
    BY <1>1, <1>3, <2>1 DEF OldTablesAre
  <2>3. rowsOf'[t] = rowsOf[t]
    <3>1. rowsOf'[t] = rowsOf[t] \/ (t \in tablesOf[r] /\ ~table[t].readonly)
      BY <2>1, OldVersionsStay
    <3>2. t \in tablesOf[r] /\ ~table[t].readonly => p = r
      BY <2>1, UnsharedFacts
    <3>3. QED
      BY <1>9, <3>1, <3>2
  <2>4. QED
    BY <2>1, <2>2, <2>3
<1>10. ASSUME NEW p \in RevisionIds, NEW s \in RevisionIds, NEW t \in tablesOf'[p],
              ~table'[t].readonly, t \in tablesOf'[s]
       PROVE  p = s
  <2>1. CASE p # r /\ s # r
    BY <1>9, <1>10, <2>1, UnsharedFacts
  <2>2. ASSUME NEW o \in RevisionIds \ {r}, t \in tablesOf'[o], t \in tablesOf'[r]
        PROVE  FALSE
    <3>1. t \in tablesOf[o] /\ table[t] # None /\ ~table[t].readonly
      BY <1>6, <1>9, <1>10, <2>2
    <3>2. t \in tablesOf[r]
      BY <1>5, <1>7, <2>2, <3>1
    <3>3. QED
      BY <3>1, <3>2, UnsharedFacts
  <2>3. QED
    BY <1>10, <2>1, <2>2
<1>11. ASSUME NEW p \in RevisionIds \ {r}, NEW t \in tablesOf'[p], NEW u \in tablesOf'[r],
              NEW x \in rowsOf'[t], ~row'[x].readonly, x \in rowsOf'[u]
       PROVE  t = u
  <2>1. t \in tablesOf[p] /\ x \in rowsOf[t] /\ x \in RowVersions /\ row[x] # None
    BY <1>6, <1>9, <1>11
  <2>2. ~row[x].readonly
    BY <1>11, <2>1, OldVersionsStay
  <2>3. ASSUME NEW w \in TableVersions, w \in tablesOf[h] \/ w \in tablesOf[r], x \in rowsOf[w]
        PROVE  w = t /\ w \in tablesOf[r]
    BY <1>5, <2>1, <2>2, <2>3, UnsharedFacts
  <2>4. ASSUME NEW w \in TableVersions, w \in tablesOf[h] \/ w \in tablesOf[r], x \in rowsOf[w]
        PROVE  FALSE
    <3>1. t \in tablesOf[r] /\ t \in TableVersions
      BY <2>3, <2>4
    <3>2. ~table[t].readonly
      BY <2>1, <2>2, <3>1 DEF IInv, CommittedIsReadonly
    <3>3. QED
      BY <2>1, <3>1, <3>2, UnsharedFacts
  <2>5. u \in TableVersions /\ (u \in tablesOf[h] \/ u \in tablesOf[r] \/ table[u] = None)
    BY <1>7
  <2>6. CASE \A c \in DOMAIN Plan(q) : Plan(q)[c].mixed => version[c] # u
    <3>1. x \in rowsOf[u]
      BY <1>3, <1>11, <2>5, <2>6 DEF OldTablesAre, AfterOf
    <3>2. table[u] # None
      BY <2>5, <3>1 DEF IInv, CommittedIsReadonly
    <3>3. QED
      BY <2>4, <2>5, <3>1, <3>2
  <2>7. ASSUME NEW c \in DOMAIN Plan(q), Plan(q)[c].mixed, version[c] = u
        PROVE  FALSE
    <3>1. c \in TableCreatedIds
      BY <1>3 DEF PlannedOf
    <3>2. x \in Mixture(q, c, rowId)
      BY <1>3, <1>11, <2>7 DEF VersionsAre, AfterOf
    <3>3. PICK k \in RowCreatedIds : Comes(q, c, rowId, k, x)
      BY <2>7, <3>2, MixtureFacts
    <3>4. ComesOf(q, tableId, rowId, c, k, x)
      BY <2>7, <3>3, ComesFacts
    <3>5. PICK w \in Versions(q, c) : x \in rowsOf[w]
      BY <2>1, <3>4 DEF ComesOf
    <3>6. w \in TableVersions /\ (w \in tablesOf[h] \/ w \in tablesOf[r])
      BY <1>2, <3>1, <3>5 DEF PairOf
    <3>7. QED
      BY <2>4, <3>5, <3>6
  <2>8. QED
    BY <2>6, <2>7
<1>12. ASSUME NEW p \in RevisionIds, NEW s \in RevisionIds,
              NEW t \in tablesOf'[p], NEW u \in tablesOf'[s],
              NEW x \in rowsOf'[t], ~row'[x].readonly, x \in rowsOf'[u]
       PROVE  t = u
  <2>1. CASE p = r /\ s = r
    <3>1. t \in TableVersions /\ u \in TableVersions
      BY <1>7, <1>12, <2>1
    <3>2. table'[t].createdId = table'[u].createdId
      BY <1>12, <3>1 DEF IdentitiesHold
    <3>3. QED
      BY <1>8, <1>12, <2>1, <3>2
  <2>2. CASE p # r /\ s # r
    <3>1. /\ t \in tablesOf[p] /\ u \in tablesOf[s] /\ x \in rowsOf[t] /\ x \in rowsOf[u]
          /\ x \in RowVersions /\ row[x] # None
      BY <1>6, <1>9, <1>12, <2>2
    <3>2. ~row[x].readonly
      BY <1>12, <3>1, OldVersionsStay
    <3>3. QED
      BY <3>1, <3>2, UnsharedFacts
  <2>3. CASE p # r /\ s = r
    BY <1>11, <1>12, <2>3
  <2>4. CASE p = r /\ s # r
    BY <1>11, <1>12, <2>4
  <2>5. QED
    BY <2>1, <2>2, <2>3, <2>4
<1>13. QED
  BY <1>10, <1>12, UnsharedSuffices DEF IInv


-----------------------------------------------------------------------------
(* hasChanges. *)

\* A draft whose hasChanges is what the comparison with its head finds.
LEMMA ComparedIsExact ==
  ASSUME NEW y \in RevisionIds, NEW x \in RevisionIds, NEW v,
         v = TableSetsDiffer(table', tablesOf'[x], tablesOf'[y]), revision'[y].hasChanges = v
  PROVE  ExactFor(y, x)'
<1>1. ~v => tablesOf'[x] = tablesOf'[y]
  BY JoinFindsDifferences
<1>2. ASSUME \A t, u \in tablesOf'[x] : table'[t].createdId = table'[u].createdId => t = u,
             tablesOf'[x] = tablesOf'[y]
      PROVE  ~v
  BY <1>2, JoinFindsNoOther
<1>3. QED
  BY <1>1, <1>2 DEF ExactFor

\* The next draft is compared with the new head, and other branches stay.
LEMMA CommitToTargetKeepsExact ==
  ASSUME IInv, IInv', BInv, BInv', HasChangesIsExact, IdentitiesHold, NEW b \in Branches,
         NEW h \in RevisionIds, NEW r \in RevisionIds, NEW q, Asks(b, h, r, q),
         NEW tableId, NEW rowId, Fresh(q, tableId, rowId), AfterOf(q, tableId, rowId),
         NEW n \in RevisionIds, CommitOf(b, h, r, q, tableId, rowId, n)
  PROVE  HasChangesIsExact'
<1>1. PICK v \in BOOLEAN : /\ v = TableSetsDiffer(table', tablesOf'[r], tablesOf'[n])
                           /\ PromotionOf(b, h, r, n, v)
  BY CommitPromotes
<1>2. IsHead(h) /\ IsDraft(r) /\ revision[h].branch = b /\ revision[r].branch = b
  BY DEF Asks
<1>3. \A p \in RevisionIds \ {r, n} : tablesOf'[p] = tablesOf[p]
  BY DEF CommitOf
<1>4. SUFFICES ASSUME NEW y \in RevisionIds, NEW x \in RevisionIds,
                      IsDraft(y)', IsHead(x)', revision'[y].branch = revision'[x].branch
               PROVE  ExactFor(y, x)'
  BY ExactSuffices
<1>5. CASE y = n
  <2>1. IsHead(r)' /\ revision'[x].branch = b /\ revision'[r].branch = b
    BY <1>1, <1>4, <1>5 DEF PromotionOf, IsHead, IsLive
  <2>2. x = r
    <3>1. x \in RevisionsOf(b)' /\ r \in RevisionsOf(b)' /\ revision'[x].isHead /\ revision'[r].isHead
      BY <1>4, <2>1 DEF RevisionsOf, IsHead
    <3>2. QED
      BY <3>1 DEF BInv, DraftFollowsHead
  <2>3. revision'[n].hasChanges = v
    BY <1>1 DEF PromotionOf
  <2>4. QED
    BY <1>1, <1>5, <2>2, <2>3, ComparedIsExact
<1>6. CASE y # n
  <2>1. y \notin {h, r, n} /\ revision'[y] = revision[y] /\ IsDraft(y)
    BY <1>1, <1>4, <1>6 DEF PromotionOf, IsDraft, IsLive
  <2>2. revision[y].branch # b
    BY <1>2, <2>1, DraftOnHead DEF BInv
  <2>3. x \notin {h, r, n} /\ revision'[x] = revision[x] /\ IsHead(x)
    BY <1>1, <1>4, <2>1, <2>2 DEF PromotionOf, IsHead, IsLive
  <2>4. \A t \in tablesOf[x] : table'[t].createdId = table[t].createdId
    <3>1. \A t \in tablesOf[x] : t \in TableVersions /\ table[t] # None
      BY DEF IInv, TypeOK, CommittedIsReadonly
    <3>2. QED
      BY <3>1, OldVersionsStay
  <2>5. tablesOf'[y] = tablesOf[y] /\ tablesOf'[x] = tablesOf[x]
    BY <1>3, <2>1, <2>3
  <2>6. QED
    BY <1>4, <2>1, <2>3, <2>4, <2>5, StaysExact
<1>7. QED
  BY <1>5, <1>6

\* The draft is compared with its parent, which is the head.
LEMMA RevertToTargetKeepsExact ==
  ASSUME IInv, IInv', BInv, HasChangesIsExact, IdentitiesHold, NEW b \in Branches,
         NEW h \in RevisionIds, NEW r \in RevisionIds, NEW q, Asks(b, h, r, q),
         NEW tableId, NEW rowId, Fresh(q, tableId, rowId), AfterOf(q, tableId, rowId),
         RevertOf(r, q, tableId, rowId)
  PROVE  HasChangesIsExact'
<1>1. PICK v \in BOOLEAN :
        /\ v = TableSetsDiffer(table', tablesOf'[revision[r].parent], tablesOf'[r])
        /\ revision' = [revision EXCEPT ![r] = [@ EXCEPT !.hasChanges = v]]
  BY DEF RevertOf
<1>2. IsHead(h) /\ IsDraft(r) /\ revision[h].branch = b /\ revision[r].branch = b
  BY DEF Asks
<1>3. /\ \A p \in RevisionIds : SamePlace(p)
      /\ \A p \in RevisionIds \ {r} : revision'[p] = revision[p]
  BY <1>1, <1>2, MarkChangedStays
<1>4. SUFFICES ASSUME NEW y \in RevisionIds, NEW x \in RevisionIds,
                      IsDraft(y)', IsHead(x)', revision'[y].branch = revision'[x].branch
               PROVE  ExactFor(y, x)'
  BY ExactSuffices
<1>5. IsDraft(y) /\ IsHead(x) /\ revision[y].branch = revision[x].branch
  BY <1>3, <1>4 DEF SamePlace, IsDraft, IsHead
<1>6. CASE y = r
  <2>1. x = revision[r].parent
    BY <1>2, <1>5, <1>6, DraftOnHead DEF BInv
  <2>2. revision'[r].hasChanges = v
    <3>1. revision[r] \in RevisionRecord
      BY <1>2 DEF IInv, TypeOK, IsDraft, IsLive
    <3>2. QED
      BY <1>1, <3>1 DEF IInv, TypeOK, RevisionRecord
  <2>3. QED
    BY <1>1, <1>6, <2>1, <2>2, ComparedIsExact
<1>7. CASE y # r
  <2>1. x # r
    BY <1>2, <1>5 DEF IInv, HeadsAreCommitted
  <2>2. \A t \in tablesOf[x] : table'[t].createdId = table[t].createdId
    <3>1. \A t \in tablesOf[x] : t \in TableVersions /\ table[t] # None
      BY DEF IInv, TypeOK, CommittedIsReadonly
    <3>2. QED
      BY <3>1, OldVersionsStay
  <2>3. tablesOf'[y] = tablesOf[y] /\ tablesOf'[x] = tablesOf[x]
    BY <1>7, <2>1 DEF RevertOf
  <2>4. QED
    BY <1>3, <1>5, <1>7, <2>2, <2>3, StaysExact
<1>8. QED
  BY <1>6, <1>7


-----------------------------------------------------------------------------
(* What versions say. *)

\* Of a table, its rows: logical row by logical row.
LEMMA RowsSaid ==
  ASSUME IInv, IdentitiesHold, NEW t \in TableVersions
  PROVE  {RowContent(row[x]) : x \in rowsOf[t]} = UNION {RowOf(RowIn(t, k)) : k \in RowCreatedIds}
<1>1. ASSUME NEW x \in rowsOf[t]
      PROVE  \E k \in RowCreatedIds : RowContent(row[x]) \in RowOf(RowIn(t, k))
  <2>1. /\ row[x].createdId \in RowCreatedIds /\ x # None
        /\ RowIn(t, row[x].createdId) = x
    BY RowInFacts
  <2>2. QED
    BY <2>1 DEF RowOf
<1>2. ASSUME NEW k \in RowCreatedIds, NEW n \in RowOf(RowIn(t, k))
      PROVE  \E x \in rowsOf[t] : n = RowContent(row[x])
  <2>1. RowIn(t, k) # None /\ n = RowContent(row[RowIn(t, k)])
    BY <1>2 DEF RowOf
  <2>2. RowIn(t, k) \in rowsOf[t]
    BY <2>1, RowInFacts
  <2>3. QED
    BY <2>1, <2>2
<1>3. QED
  BY <1>1, <1>2

\* A row of which nothing is taken from the other side is the structure side's.
LEMMA OwnRowStays ==
  ASSUME IInv, IdentitiesHold, NEW b, NEW h \in RevisionIds, NEW r \in RevisionIds, NEW q,
         Asks(b, h, r, q), NEW c \in TableCreatedIds, NEW k \in RowCreatedIds,
         \A p \in RowParts(q.pairs[c], c, k) : ~TakesOther(q, p)
  PROVE  TargetRow(q, c, k) = RowOf(OwnRow(q, c, k))
<1> FateOf(q, c, k)
  BY FateFacts
<1> DEFINE parts == RowParts(q.pairs[c], c, k)
<1>1. {p \in parts : TakesOther(q, p)} = {}
  OBVIOUS
<1>2. Fate(q, c, k) = IF parts = {} THEN "structureSide"
                      ELSE IF OwnRow(q, c, k) = None THEN "absent" ELSE "structureSide"
  BY <1>1 DEF Fate, RowOutcome
<1>3. CASE Fate(q, c, k) = "structureSide"
  BY <1>3 DEF FateOf
<1>4. CASE Fate(q, c, k) = "absent"
  <2>1. OwnRow(q, c, k) = None
    BY <1>2, <1>4
  <2>2. QED
    BY <1>4, <2>1 DEF FateOf, RowOf
<1>5. QED
  BY <1>2, <1>3, <1>4

\* Two versions of which one can go on: both sides have the table.
BothOf(q, c) ==
  /\ StructureVersion(q, c) \in Versions(q, c) /\ OtherVersion(q, c) \in Versions(q, c)
  /\ \A t \in Versions(q, c) : t \in TableVersions /\ table[t].createdId = c /\ table[t] # None
  /\ TargetTable(q, c) =
       [createdId |-> c, id |-> table[StructureVersion(q, c)].id,
        rows |-> UNION {TargetRow(q, c, k) : k \in RowCreatedIds}]
  /\ (\A k \in RowCreatedIds : TargetRow(q, c, k) = RowOf(OwnRow(q, c, k)))
       => TargetTable(q, c) = TableContent(Stored, StructureVersion(q, c))
  /\ /\ \A k \in RowCreatedIds : TargetRow(q, c, k) = RowOf(OtherRow(q, c, k))
     /\ table[OtherVersion(q, c)].id = table[StructureVersion(q, c)].id
     => TargetTable(q, c) = TableContent(Stored, OtherVersion(q, c))

\* A table on both sides has a target that is mixed row by row.
LEMMA BothFacts ==
  ASSUME IInv, IdentitiesHold, NEW b, NEW h \in RevisionIds, NEW r \in RevisionIds, NEW q,
         Asks(b, h, r, q), NEW c \in TableCreatedIds, OnBothSides(q.pairs[c])
  PROVE  BothOf(q, c)
<1>1. PairOf(h, r, q, c) /\ SidesOf(q, c)
  BY PairFacts, SideFacts
<1>2. /\ StructureVersion(q, c) \in Versions(q, c) /\ OtherVersion(q, c) \in Versions(q, c)
      /\ \A k \in RowCreatedIds : /\ OwnRow(q, c, k) = RowIn(StructureVersion(q, c), k)
                                  /\ OtherRow(q, c, k) = RowIn(OtherVersion(q, c), k)
  BY <1>1 DEF SidesOf, OnBothSides, Versions
<1>3. \A t \in Versions(q, c) : t \in TableVersions /\ table[t].createdId = c /\ table[t] # None
  BY <1>1, NoneAssumption DEF PairOf
<1>4. TargetTable(q, c) =
        [createdId |-> c, id |-> table[StructureVersion(q, c)].id,
         rows |-> UNION {TargetRow(q, c, k) : k \in RowCreatedIds}]
  BY DEF TargetTable
<1>5. \A t \in Versions(q, c) :
        TableContent(Stored, t) =
          [createdId |-> c, id |-> table[t].id,
           rows |-> UNION {RowOf(RowIn(t, k)) : k \in RowCreatedIds}]
  <2>1. SUFFICES ASSUME NEW t \in Versions(q, c)
                 PROVE  TableContent(Stored, t) =
                          [createdId |-> c, id |-> table[t].id,
                           rows |-> UNION {RowOf(RowIn(t, k)) : k \in RowCreatedIds}]
    OBVIOUS
  <2>2. t \in TableVersions /\ table[t].createdId = c
    BY <1>3
  <2>3. {RowContent(row[x]) : x \in rowsOf[t]} = UNION {RowOf(RowIn(t, k)) : k \in RowCreatedIds}
    BY <2>2, RowsSaid
  <2>4. QED
    BY <2>2, <2>3 DEF TableContent, Stored
<1>6. ASSUME \A k \in RowCreatedIds : TargetRow(q, c, k) = RowOf(OwnRow(q, c, k))
      PROVE  TargetTable(q, c) = TableContent(Stored, StructureVersion(q, c))
  <2>1. UNION {TargetRow(q, c, k) : k \in RowCreatedIds}
          = UNION {RowOf(RowIn(StructureVersion(q, c), k)) : k \in RowCreatedIds}
    BY <1>2, <1>6
  <2>2. QED
    BY <1>2, <1>4, <1>5, <2>1
<1>7. ASSUME \A k \in RowCreatedIds : TargetRow(q, c, k) = RowOf(OtherRow(q, c, k)),
             table[OtherVersion(q, c)].id = table[StructureVersion(q, c)].id
      PROVE  TargetTable(q, c) = TableContent(Stored, OtherVersion(q, c))
  <2>1. UNION {TargetRow(q, c, k) : k \in RowCreatedIds}
          = UNION {RowOf(RowIn(OtherVersion(q, c), k)) : k \in RowCreatedIds}
    BY <1>2, <1>7
  <2>2. QED
    BY <1>2, <1>4, <1>5, <1>7, <2>1
<1>8. QED
  BY <1>2, <1>3, <1>4, <1>6, <1>7 DEF BothOf


\* A table on both sides differs in its parts only.
LEMMA BothParts ==
  ASSUME IInv, IdentitiesHold, NEW b, NEW h \in RevisionIds, NEW r \in RevisionIds, NEW q,
         Asks(b, h, r, q), NEW c \in TableCreatedIds, OnBothSides(q.pairs[c])
  PROVE  /\ Part("structure", c, None) \notin TableParts(q.pairs[c], c)
              => table[OtherVersion(q, c)].id = table[StructureVersion(q, c)].id
         /\ \A k \in RowCreatedIds : RowParts(q.pairs[c], c, k) \subseteq TableParts(q.pairs[c], c)
<1> DEFINE pair == q.pairs[c]
<1>1. PairOf(h, r, q, c) /\ SidesOf(q, c)
  BY PairFacts, SideFacts
<1>2. ~OnOneSide(pair)
  BY DEF OnBothSides, OnOneSide
<1>3. CASE pair.head = pair.draft
  <2>1. OtherVersion(q, c) = StructureVersion(q, c)
    BY <1>1, <1>3 DEF SidesOf
  <2>2. ASSUME NEW k \in RowCreatedIds
        PROVE  RowParts(pair, c, k) = {}
    <3>1. pair.rows[k].head = pair.rows[k].draft
      BY <1>1, <1>3 DEF PairOf
    <3>2. QED
      BY <3>1 DEF RowParts, OnOneSide
  <2>3. QED
    BY <2>1, <2>2
<1>4. CASE pair.head # pair.draft
  <2>1. TableParts(pair, c) =
          {p \in {Part("structure", c, None)} : table[pair.head].id # table[pair.draft].id}
            \cup UNION {RowParts(pair, c, x) : x \in RowCreatedIds}
    BY <1>2, <1>4 DEF TableParts
  <2>2. Part("structure", c, None) \notin TableParts(pair, c)
          => table[pair.head].id = table[pair.draft].id
    BY <2>1
  <2>3. \/ StructureVersion(q, c) = pair.head /\ OtherVersion(q, c) = pair.draft
        \/ StructureVersion(q, c) = pair.draft /\ OtherVersion(q, c) = pair.head
    BY <1>1 DEF SidesOf
  <2>4. \A k \in RowCreatedIds : RowParts(pair, c, k) \subseteq TableParts(pair, c)
    BY <2>1
  <2>5. QED
    BY <2>2, <2>3, <2>4
<1>5. QED
  BY <1>3, <1>4

\* A version that is linked says what is wanted of the table.
OutcomeOf(q, c) ==
  LET p == Plan(q)[c]
  IN  /\ OnOneSide(q.pairs[c]) => ~p.mixed /\ p.version = StructureVersion(q, c)
      /\ OnBothSides(q.pairs[c]) /\ ~p.mixed =>
           /\ p.version \in Versions(q, c)
           /\ TargetTable(q, c) = TableContent(Stored, p.version)
      /\ \A k \in RowCreatedIds : Fate(q, c, k) = "merge" => TargetRow(q, c, k) \subseteq p.newRows
      /\ p.relink <=> OnBothSides(q.pairs[c]) /\ TableParts(q.pairs[c], c) \subseteq q.parts

\* The assembly links a version only if it is as the target has the table.
LEMMA OutcomeFacts ==
  ASSUME IInv, IdentitiesHold, NEW b, NEW h \in RevisionIds, NEW r \in RevisionIds, NEW q,
         Asks(b, h, r, q), NEW c \in DOMAIN Plan(q)
  PROVE  OutcomeOf(q, c)
<1> DEFINE changed == {x \in RowCreatedIds : RowParts(q.pairs[c], c, x) # {}}
           becomes == [x \in changed |-> RowOutcome(q, c, x)]
           becoming(o) == {x \in changed : becomes[x] = o}
           outcome == IF OnBothSides(q.pairs[c]) THEN TableOutcome(q, c, becomes) ELSE "base"
           parts == TableParts(q.pairs[c], c)
           newRows == UNION {TargetRow(q, c, x) : x \in becoming("merge")}
<1> PlannedOf(q)
  BY PlannedTables
<1>1. c \in TableCreatedIds /\ Plan(q)[c] = TablePlan(q, c)
  BY DEF PlannedOf
<1>2. /\ Plan(q)[c].mixed = (outcome = "mixed")
      /\ Plan(q)[c].version = IF outcome = "other" THEN OtherVersion(q, c)
                              ELSE StructureVersion(q, c)
      /\ Plan(q)[c].newRows = newRows
      /\ Plan(q)[c].relink = (OnBothSides(q.pairs[c]) /\ parts \subseteq q.parts)
  BY <1>1 DEF TablePlan, OtherVersion
<1>3. \A k \in RowCreatedIds : FateOf(q, c, k)
  BY <1>1, FateFacts
<1>4. \A k \in RowCreatedIds : Fate(q, c, k) = "merge" => TargetRow(q, c, k) \subseteq newRows
  BY DEF Fate
<1>5. OnOneSide(q.pairs[c]) => outcome = "base"
  BY DEF OnOneSide, OnBothSides
<1>6. ASSUME OnBothSides(q.pairs[c]), outcome # "mixed"
      PROVE  /\ Plan(q)[c].version \in Versions(q, c)
             /\ TargetTable(q, c) = TableContent(Stored, Plan(q)[c].version)
  <2>1. BothOf(q, c)
    BY <1>1, <1>6, BothFacts
  <2>2. /\ Part("structure", c, None) \notin parts
             => table[OtherVersion(q, c)].id = table[StructureVersion(q, c)].id
        /\ \A k \in RowCreatedIds : RowParts(q.pairs[c], c, k) \subseteq parts
    BY <1>1, <1>6, BothParts
  <2>3. /\ outcome = IF parts = {} THEN IF q.wholeDraft THEN "other" ELSE "base"
                     ELSE IF \A x \in DOMAIN becomes :
                               \/ becomes[x] = "structureSide"
                               \/ becomes[x] = "absent" /\ OwnRow(q, c, x) = None
                       THEN "base"
                     ELSE IF \A p \in parts : p.of # "structure" /\ TakesOther(q, p) THEN "other"
                     ELSE "mixed"
    BY <1>6 DEF TableOutcome
  <2> DEFINE all == \A p \in parts : p.of # "structure" /\ TakesOther(q, p)
             none == \A x \in DOMAIN becomes :
                       \/ becomes[x] = "structureSide"
                       \/ becomes[x] = "absent" /\ OwnRow(q, c, x) = None
  <2>4. ASSUME none, NEW k \in RowCreatedIds
        PROVE  TargetRow(q, c, k) = RowOf(OwnRow(q, c, k))
    <3>1. CASE Fate(q, c, k) = "structureSide"
      BY <1>3, <3>1 DEF FateOf
    <3>2. CASE Fate(q, c, k) # "structureSide"
      <4>1. k \in changed /\ becomes[k] = Fate(q, c, k)
        BY <3>2 DEF Fate
      <4>2. Fate(q, c, k) = "absent" /\ OwnRow(q, c, k) = None
        BY <2>4, <3>2, <4>1
      <4>3. TargetRow(q, c, k) = {} /\ RowOf(OwnRow(q, c, k)) = {}
        BY <1>3, <4>2 DEF FateOf, RowOf
      <4>4. QED
        BY <4>3
    <3>3. QED
      BY <3>1, <3>2
  <2>5. ASSUME all, NEW k \in RowCreatedIds
        PROVE  TargetRow(q, c, k) = RowOf(OtherRow(q, c, k))
    <3>1. \A p \in RowParts(q.pairs[c], c, k) : TakesOther(q, p)
      BY <2>2, <2>5
    <3>2. QED
      BY <1>3, <3>1 DEF FateOf
  <2>6. all => table[OtherVersion(q, c)].id = table[StructureVersion(q, c)].id
    <3>1. Part("structure", c, None).of = "structure"
      BY DEF Part
    <3>2. QED
      BY <2>2, <3>1
  <2>7. parts = {} => all /\ none
    <3>1. parts = {} => changed = {}
      BY <2>2
    <3>2. QED
      BY <3>1
  <2>12. outcome = IF parts = {} THEN IF q.wholeDraft THEN "other" ELSE "base"
                   ELSE IF none THEN "base" ELSE IF all THEN "other" ELSE "mixed"
    BY <2>3
  <2> HIDE DEF all, none, parts, outcome, newRows, changed, becomes
  <2>8. (outcome = "base" /\ none) \/ (outcome = "other" /\ all)
    BY <1>6, <2>7, <2>12
  <2>9. CASE outcome = "base" /\ none
    BY <1>2, <2>1, <2>4, <2>9 DEF BothOf
  <2>10. CASE outcome = "other" /\ all
    BY <1>2, <2>1, <2>5, <2>6, <2>10 DEF BothOf
  <2>11. QED
    BY <2>8, <2>9, <2>10
<1> HIDE DEF outcome, newRows, parts
<1>7. QED
  BY <1>2, <1>4, <1>5, <1>6 DEF OutcomeOf, parts


\* What is written leaves alone what a version says that is not edited in place.
LEMMA WritesSpare ==
  ASSUME IInv, IdentitiesHold, NEW b, NEW h \in RevisionIds, NEW r \in RevisionIds, NEW q,
         Asks(b, h, r, q), NEW tableId, NEW rowId, Fresh(q, tableId, rowId),
         NEW t \in TableVersions, table[t] # None,
         \A c \in DOMAIN Plan(q) : Plan(q)[c].mixed => VersionsOf(q, tableId)[c] # t
  PROVE  TableContent(WritesOf(q, tableId, rowId), t) = TableContent(Stored, t)
<1> DEFINE db == WritesOf(q, tableId, rowId)
<1>1. OldTablesAre(q, tableId, rowId) /\ RowsAre(q, tableId, rowId)
  BY WritesFacts DEF WritesAre
<1>2. db.table[t] = table[t] /\ db.rowsOf[t] = rowsOf[t]
  BY <1>1 DEF OldTablesAre
<1>3. \A x \in rowsOf[t] : db.row[x] = row[x]
  <2>1. \A x \in rowsOf[t] : x \in RowVersions /\ row[x] # None
    BY RowInFacts, NoneAssumption
  <2>2. QED
    BY <1>1, <2>1 DEF RowsAre
<1> HIDE DEF db
<1>4. {RowContent(db.row[x]) : x \in db.rowsOf[t]} = {RowContent(row[x]) : x \in rowsOf[t]}
  BY <1>2, <1>3
<1>5. QED
  BY <1>2, <1>4 DEF TableContent, Stored, db

\* A table of which nothing was asked stays the base's.
LEMMA UnplannedStays ==
  ASSUME IInv, IdentitiesHold, NEW b, NEW h \in RevisionIds, NEW r \in RevisionIds, NEW q,
         Asks(b, h, r, q), NEW c \in TableCreatedIds, c \notin DOMAIN Plan(q)
  PROVE  /\ StructureVersion(q, c) = q.pairs[c][BaseSide(q.operation)]
         /\ OnBothSides(q.pairs[c]) =>
              TargetTable(q, c) = TableContent(Stored, StructureVersion(q, c))
<1> PlannedOf(q)
  BY PlannedTables
<1>1. \A p \in q.parts : p.table # c
  BY DEF PlannedOf
<1>2. StructureSide(q, c) = BaseSide(q.operation)
  BY <1>1 DEF StructureSide, SideTakenBy, Part
<1>3. ASSUME NEW k \in RowCreatedIds, NEW p \in RowParts(q.pairs[c], c, k)
      PROVE  ~TakesOther(q, p)
  <2>1. p.table = c
    BY RowPartFacts
  <2>2. p \notin q.parts
    BY <1>1, <2>1
  <2>3. QED
    BY <1>2, <2>1, <2>2 DEF TakesOther, SideTakenBy
<1>4. ASSUME OnBothSides(q.pairs[c])
      PROVE  TargetTable(q, c) = TableContent(Stored, StructureVersion(q, c))
  <2>1. \A k \in RowCreatedIds : TargetRow(q, c, k) = RowOf(OwnRow(q, c, k))
    BY <1>3, OwnRowStays
  <2>2. BothOf(q, c)
    BY <1>4, BothFacts
  <2>3. QED
    BY <2>1, <2>2 DEF BothOf
<1>5. QED
  BY <1>2, <1>4 DEF StructureVersion

\* What a table goes on with says what was asked for.
GoesSays(q, tableId, rowId, c) ==
  LET t == Goes(q, tableId, c)
  IN  /\ t = None <=> StructureVersion(q, c) = None
      /\ t # None => TableContent(WritesOf(q, tableId, rowId), t) = TargetTable(q, c)

\* A mixture says it: each row is there as the target has it, and no other.
LEMMA MixedSays ==
  ASSUME IInv, IdentitiesHold, NEW b, NEW h \in RevisionIds, NEW r \in RevisionIds, NEW q,
         Asks(b, h, r, q), NEW tableId, NEW rowId, Fresh(q, tableId, rowId),
         NEW c \in DOMAIN Plan(q), Plan(q)[c].mixed
  PROVE  GoesSays(q, tableId, rowId, c)
<1> DEFINE db == WritesOf(q, tableId, rowId)
           t == VersionsOf(q, tableId)[c]
           rows == {RowContent(db.row[x]) : x \in db.rowsOf[t]}
           target == UNION {TargetRow(q, c, k) : k \in RowCreatedIds}
<1>1. VersionsAre(q, tableId, rowId) /\ RowsAre(q, tableId, rowId)
  BY WritesFacts DEF WritesAre
<1>2. PlanOf(q, c)
  BY PlanFacts
<1>3. /\ c \in TableCreatedIds /\ OnBothSides(q.pairs[c])
      /\ Plan(q)[c].version = StructureVersion(q, c)
  BY <1>2 DEF PlanOf
<1>4. BothOf(q, c) /\ SidesOf(q, c)
  BY <1>3, BothFacts, SideFacts
<1>5. /\ t \in TableVersions /\ db.table[t].createdId = c
      /\ db.table[t].id = table[StructureVersion(q, c)].id
      /\ db.rowsOf[t] = Mixture(q, c, rowId)
  BY <1>1, <1>3 DEF VersionsAre
<1>6. ASSUME NEW k \in RowCreatedIds, NEW x, Comes(q, c, rowId, k, x)
      PROVE  {RowContent(db.row[x])} = TargetRow(q, c, k)
  <2>1. ComesOf(q, tableId, rowId, c, k, x)
    BY <1>6, ComesFacts
  <2>2. QED
    BY <2>1 DEF ComesOf
<1>7. ASSUME NEW k \in RowCreatedIds, NEW n \in TargetRow(q, c, k)
      PROVE  \E x : Comes(q, c, rowId, k, x)
  <2>0. OutcomeOf(q, c)
    BY OutcomeFacts
  <2>1. /\ FateOf(q, c, k)
        /\ OwnRow(q, c, k) = RowIn(StructureVersion(q, c), k)
        /\ OtherRow(q, c, k) = RowIn(OtherVersion(q, c), k)
    BY <1>3, <1>4, FateFacts DEF SidesOf
  <2>2. StructureVersion(q, c) \in TableVersions /\ OtherVersion(q, c) \in TableVersions
    BY <1>4 DEF BothOf
  <2>3. CASE Fate(q, c, k) = "structureSide"
    <3>1. OwnRow(q, c, k) # None
      BY <1>7, <2>1, <2>3 DEF FateOf, RowOf
    <3>2. OwnRow(q, c, k) \in rowsOf[StructureVersion(q, c)]
      BY <2>1, <2>2, <3>1, RowInFacts
    <3>3. QED
      BY <2>3, <3>1, <3>2 DEF Comes
  <2>4. CASE Fate(q, c, k) = "otherSide"
    <3>1. OtherRow(q, c, k) # None
      BY <2>1, <2>4 DEF FateOf
    <3>2. OtherRow(q, c, k) \in rowsOf[OtherVersion(q, c)]
      BY <2>1, <2>2, <3>1, RowInFacts
    <3>3. QED
      BY <2>4, <3>2 DEF Comes
  <2>5. CASE Fate(q, c, k) = "merge"
    <3>1. n \in Plan(q)[c].newRows
      BY <1>3, <1>7, <2>0, <2>5 DEF OutcomeOf
    <3>2. QED
      BY <1>7, <2>5, <3>1 DEF Comes
  <2>6. QED
    BY <1>7, <2>1, <2>3, <2>4, <2>5 DEF FateOf
<1>8. rows = target
  <2>1. ASSUME NEW x \in db.rowsOf[t]
        PROVE  RowContent(db.row[x]) \in target
    <3>1. PICK k \in RowCreatedIds : Comes(q, c, rowId, k, x)
      BY <1>5, MixtureFacts
    <3>2. QED
      BY <1>6, <3>1
  <2>2. ASSUME NEW k \in RowCreatedIds, NEW n \in TargetRow(q, c, k)
        PROVE  n \in rows
    <3>1. PICK x : Comes(q, c, rowId, k, x)
      BY <1>7
    <3>2. x \in db.rowsOf[t]
      BY <1>5, <3>1, MixtureFacts
    <3>3. n = RowContent(db.row[x])
      BY <1>6, <2>2, <3>1
    <3>4. QED
      BY <3>2, <3>3
  <2>3. QED
    BY <2>1, <2>2
<1>9. Goes(q, tableId, c) = t
  BY DEF Goes
<1>10. t # None /\ StructureVersion(q, c) # None
  <2>1. StructureVersion(q, c) \in TableVersions
    BY <1>4 DEF BothOf
  <2>2. QED
    BY <1>5, <2>1, VersionAssumption
<1>11. TargetTable(q, c) =
         [createdId |-> c, id |-> table[StructureVersion(q, c)].id, rows |-> target]
  BY <1>4 DEF BothOf
<1>12. TableContent(db, t) =
         [createdId |-> db.table[t].createdId, id |-> db.table[t].id, rows |-> rows]
  BY DEF TableContent
<1> HIDE DEF db, t, rows, target
<1>13. QED
  BY <1>5, <1>8, <1>9, <1>10, <1>11, <1>12 DEF GoesSays, db

\* So does every table, whether it is linked, mixed, or was not asked about.
LEMMA GoesSaysFacts ==
  ASSUME IInv, IdentitiesHold, NEW b, NEW h \in RevisionIds, NEW r \in RevisionIds, NEW q,
         Asks(b, h, r, q), NEW tableId, NEW rowId, Fresh(q, tableId, rowId),
         NEW c \in TableCreatedIds
  PROVE  GoesSays(q, tableId, rowId, c)
<1> DEFINE db == WritesOf(q, tableId, rowId)
           t == Goes(q, tableId, c)
           mixed == c \in DOMAIN Plan(q) /\ Plan(q)[c].mixed
<1>1. CASE mixed
  BY <1>1, MixedSays
<1>2. CASE ~mixed
  <2>1. VersionsAre(q, tableId, rowId)
    BY WritesFacts DEF WritesAre
  <2>2. PairOf(h, r, q, c)
    BY PairFacts
  <2>3. ASSUME NEW u \in Versions(q, c)
        PROVE  TableContent(db, u) = TableContent(Stored, u)
    <3>1. u \in TableVersions /\ table[u] # None
      BY <2>2, NoneAssumption DEF PairOf
    <3>2. db.table[u].createdId = c
      <4>1. GoesOf(q, tableId, rowId, c)
        BY GoesFacts
      <4>2. QED
        BY <4>1 DEF GoesOf, IsVersion
    <3>3. \A d \in DOMAIN Plan(q) : Plan(q)[d].mixed => VersionsOf(q, tableId)[d] # u
      BY <1>2, <2>1, <3>2 DEF VersionsAre
    <3>4. QED
      BY <3>1, <3>3, WritesSpare
  <2>4. ~OnBothSides(q.pairs[c]) => TargetTable(q, c) = TableContent(Stored, StructureVersion(q, c))
    BY DEF TargetTable
  <2>5. CASE c \notin DOMAIN Plan(q)
    <3>1. t = StructureVersion(q, c)
      BY <2>5, UnplannedStays DEF Goes
    <3>2. TargetTable(q, c) = TableContent(Stored, StructureVersion(q, c))
      BY <2>4, <2>5, UnplannedStays
    <3>3. StructureVersion(q, c) \in Versions(q, c) \cup {None}
      BY SideFacts DEF SidesOf
    <3>4. QED
      BY <2>3, <3>1, <3>2, <3>3 DEF GoesSays
  <2>6. CASE c \in DOMAIN Plan(q)
    <3>1. t = Plan(q)[c].version
      BY <1>2, <2>1, <2>6 DEF VersionsAre, Goes
    <3>2. OutcomeOf(q, c) /\ (OnBothSides(q.pairs[c]) \/ OnOneSide(q.pairs[c]))
      BY <2>6, OutcomeFacts, PlannedTables DEF PlannedOf
    <3>3. SidesOf(q, c)
      BY SideFacts
    <3>4. CASE OnOneSide(q.pairs[c])
      <4>1. t = StructureVersion(q, c) /\ ~OnBothSides(q.pairs[c])
        BY <3>1, <3>2, <3>4 DEF OutcomeOf, OnOneSide, OnBothSides
      <4>2. StructureVersion(q, c) \in Versions(q, c) \cup {None}
        BY <3>3 DEF SidesOf
      <4>3. QED
        BY <2>3, <2>4, <4>1, <4>2 DEF GoesSays
    <3>5. CASE OnBothSides(q.pairs[c])
      <4>1. t \in Versions(q, c) /\ TargetTable(q, c) = TableContent(Stored, t)
        BY <1>2, <2>6, <3>1, <3>2, <3>5 DEF OutcomeOf
      <4>2. StructureVersion(q, c) # None /\ t # None
        BY <3>3, <3>5, <4>1 DEF SidesOf, OnBothSides, Versions
      <4>3. QED
        BY <2>3, <4>1, <4>2 DEF GoesSays
    <3>6. QED
      BY <3>2, <3>4, <3>5
  <2>7. QED
    BY <2>5, <2>6
<1>3. QED
  BY <1>1, <1>2


-----------------------------------------------------------------------------
(* What the step brings about. *)

\* To lock a version does not change what it says.
LEMMA LocksSayNothing ==
  ASSUME IInv, IdentitiesHold, NEW b, NEW h \in RevisionIds, NEW r \in RevisionIds, NEW q,
         Asks(b, h, r, q), NEW tableId, NEW rowId, Fresh(q, tableId, rowId),
         AfterOf(q, tableId, rowId), NEW c, NEW t, IsVersion(q, tableId, rowId, c, t)
  PROVE  TableContent(Stored, t)' = TableContent(WritesOf(q, tableId, rowId), t)
<1> DEFINE db == WritesOf(q, tableId, rowId)
<1>1. t \in TableVersions /\ db.table[t] # None
  BY NoneAssumption DEF IsVersion
<1>2. /\ table'[t].createdId = db.table[t].createdId /\ table'[t].id = db.table[t].id
      /\ rowsOf'[t] = db.rowsOf[t]
  BY <1>1 DEF AfterOf
<1>3. \A x \in db.rowsOf[t] : RowContent(row'[x]) = RowContent(db.row[x])
  <2>1. \A x \in db.rowsOf[t] : x \in RowVersions /\ db.row[x] # None
    BY <1>1, WrittenRows, NoneAssumption
  <2>2. QED
    BY <2>1 DEF AfterOf
<1> HIDE DEF db
<1>4. {RowContent(row'[x]) : x \in rowsOf'[t]} = {RowContent(db.row[x]) : x \in db.rowsOf[t]}
  BY <1>2, <1>3
<1>5. TableContent(Stored, t)' =
        [createdId |-> table'[t].createdId, id |-> table'[t].id,
         rows |-> {RowContent(row'[x]) : x \in rowsOf'[t]}]
  BY DEF TableContent, Stored
<1>6. TableContent(db, t) =
        [createdId |-> db.table[t].createdId, id |-> db.table[t].id,
         rows |-> {RowContent(db.row[x]) : x \in db.rowsOf[t]}]
  BY DEF TableContent
<1>7. QED
  BY <1>2, <1>4, <1>5, <1>6 DEF db

\* A version that gives way does so to one that says the same.
LEMMA LinksSayTheSame ==
  ASSUME IInv, IdentitiesHold, NEW b, NEW h \in RevisionIds, NEW r \in RevisionIds, NEW q,
         Asks(b, h, r, q), NEW tableId, NEW rowId, NEW c \in TableCreatedIds,
         NEW t, t = IF q.operation = "commit" THEN q.pairs[c].draft ELSE Goes(q, tableId, c)
  PROVE  /\ DraftGoes(q, tableId, rowId, c) = None <=> t = None
         /\ TableContent(WritesOf(q, tableId, rowId), DraftGoes(q, tableId, rowId, c))
              = TableContent(WritesOf(q, tableId, rowId), t)
<1> DEFINE db == WritesOf(q, tableId, rowId)
<1> HIDE DEF db
<1>1. CASE c \notin DOMAIN Plan(q)
  BY <1>1 DEF DraftGoes, Goes, BaseSide
<1>2. CASE c \in DOMAIN Plan(q)
  <2>1. ASSUME NEW u
        PROVE  LET link == VersionToLink(db, Plan(q)[c], t, u)
               IN  (link = None <=> t = None) /\ TableContent(db, link) = TableContent(db, t)
    BY DEF VersionToLink
  <2>2. \E u : DraftGoes(q, tableId, rowId, c) = VersionToLink(db, Plan(q)[c], t, u)
    BY <1>2 DEF DraftGoes, db
  <2>3. QED
    BY <2>1, <2>2 DEF db
<1>3. QED
  BY <1>1, <1>2

\* A revision that links what tables go on with says what was asked for.
LEMMA TargetIsSaid ==
  ASSUME IInv, IdentitiesHold, NEW b, NEW h \in RevisionIds, NEW r \in RevisionIds, NEW q,
         Asks(b, h, r, q), NEW tableId, NEW rowId, Fresh(q, tableId, rowId),
         AfterOf(q, tableId, rowId), NEW p \in RevisionIds, NEW link,
         tablesOf'[p] = {link[c] : c \in TableCreatedIds} \ {None},
         \A c \in TableCreatedIds :
           /\ link[c] = None <=> Goes(q, tableId, c) = None
           /\ link[c] # None => IsVersion(q, tableId, rowId, c, link[c])
           /\ TableContent(WritesOf(q, tableId, rowId), link[c])
                = TableContent(WritesOf(q, tableId, rowId), Goes(q, tableId, c))
  PROVE  Content(p)' = Target(q)
<1> DEFINE db == WritesOf(q, tableId, rowId)
<1>1. ASSUME NEW c \in TableCreatedIds
      PROVE  /\ link[c] = None <=> StructureVersion(q, c) = None
             /\ link[c] # None => TableContent(Stored, link[c])' = TargetTable(q, c)
  <2>1. GoesSays(q, tableId, rowId, c)
    BY GoesSaysFacts
  <2>2. link[c] # None => TableContent(Stored, link[c])' = TableContent(db, link[c])
    BY LocksSayNothing
  <2>3. QED
    BY <2>1, <2>2 DEF GoesSays
<1>2. Content(p)' = {TableContent(Stored, t)' : t \in tablesOf'[p]}
  BY DEF Content
<1>3. Target(q) =
        {TargetTable(q, c) : c \in {k \in TableCreatedIds : StructureVersion(q, k) # None}}
  BY DEF Target
<1>4. QED
  BY <1>1, <1>2, <1>3


\* The reverted draft.
LEMMA RevertReaches ==
  ASSUME IInv, IdentitiesHold, NEW b, NEW h \in RevisionIds, NEW r \in RevisionIds, NEW q,
         Asks(b, h, r, q), NEW tableId, NEW rowId, Fresh(q, tableId, rowId),
         AfterOf(q, tableId, rowId), RevertOf(r, q, tableId, rowId)
  PROVE  Content(r)' = Target(q)
<1> DEFINE link == [c \in TableCreatedIds |-> DraftGoes(q, tableId, rowId, c)]
<1>1. q.operation = "revert"
      /\ tablesOf'[r] = {DraftGoes(q, tableId, rowId, c) : c \in TableCreatedIds} \ {None}
  BY DEF RevertOf
<1>2. ASSUME NEW c \in TableCreatedIds
      PROVE  /\ link[c] = None <=> Goes(q, tableId, c) = None
             /\ link[c] # None => IsVersion(q, tableId, rowId, c, link[c])
             /\ TableContent(WritesOf(q, tableId, rowId), link[c])
                  = TableContent(WritesOf(q, tableId, rowId), Goes(q, tableId, c))
  <2>1. GoesOf(q, tableId, rowId, c)
    BY GoesFacts
  <2>2. link[c] # None => IsVersion(q, tableId, rowId, c, link[c])
    BY <2>1 DEF GoesOf
  <2>3. Goes(q, tableId, c) = IF q.operation = "commit" THEN q.pairs[c].draft
                              ELSE Goes(q, tableId, c)
    BY <1>1
  <2>4. QED
    BY <2>2, <2>3, LinksSayTheSame
<1>3. tablesOf'[r] = {link[c] : c \in TableCreatedIds} \ {None}
  BY <1>1
<1> HIDE DEF link
<1>4. QED
  BY <1>2, <1>3, TargetIsSaid

\* The new head, and the next draft, which says what the draft did.
LEMMA CommitReaches ==
  ASSUME IInv, IdentitiesHold, NEW b, NEW h \in RevisionIds, NEW r \in RevisionIds, NEW q,
         Asks(b, h, r, q), NEW tableId, NEW rowId, Fresh(q, tableId, rowId),
         AfterOf(q, tableId, rowId), NEW n, CommitOf(b, h, r, q, tableId, rowId, n)
  PROVE  /\ Content(r)' = Target(q)
         /\ Content(n)' = Content(r)
<1> DEFINE db == WritesOf(q, tableId, rowId)
           was == [c \in TableCreatedIds |-> q.pairs[c].draft]
           goes == [c \in TableCreatedIds |-> Goes(q, tableId, c)]
<1> PICK link : link = [c \in TableCreatedIds |-> DraftGoes(q, tableId, rowId, c)]
  OBVIOUS
<1>1. /\ q.operation = "commit"
      /\ tablesOf'[r] = {Goes(q, tableId, c) : c \in TableCreatedIds} \ {None}
      /\ tablesOf'[n] = {DraftGoes(q, tableId, rowId, c) : c \in TableCreatedIds} \ {None}
  BY DEF CommitOf
<1>2. \A c \in TableCreatedIds : GoesOf(q, tableId, rowId, c) /\ PairOf(h, r, q, c)
  BY GoesFacts, PairFacts
<1>3. Content(r)' = Target(q)
  <2>1. \A c \in TableCreatedIds :
          /\ goes[c] = Goes(q, tableId, c)
          /\ goes[c] # None => IsVersion(q, tableId, rowId, c, goes[c])
    BY <1>2 DEF GoesOf
  <2>2. tablesOf'[r] = {goes[c] : c \in TableCreatedIds} \ {None}
    BY <1>1
  <2> HIDE DEF goes
  <2>3. QED
    BY <2>1, <2>2, TargetIsSaid
<1>4. ASSUME NEW c \in TableCreatedIds
      PROVE  /\ link[c] = None <=> was[c] = None
             /\ link[c] # None => TableContent(Stored, link[c])' = TableContent(Stored, was[c])
  <2>1. was[c] = IF q.operation = "commit" THEN q.pairs[c].draft ELSE Goes(q, tableId, c)
    BY <1>1
  <2> HIDE DEF was
  <2>2. /\ DraftGoes(q, tableId, rowId, c) = None <=> was[c] = None
        /\ TableContent(db, DraftGoes(q, tableId, rowId, c)) = TableContent(db, was[c])
    BY <2>1, LinksSayTheSame
  <2>3. ASSUME link[c] # None
        PROVE  TableContent(Stored, link[c])' = TableContent(db, link[c])
    <3>1. GoesOf(q, tableId, rowId, c)
      BY <1>2
    <3>2. IsVersion(q, tableId, rowId, c, link[c])
      BY <2>3, <3>1 DEF GoesOf
    <3>3. QED
      BY <3>2, LocksSayNothing
  <2>4. ASSUME was[c] # None
        PROVE  TableContent(db, was[c]) = TableContent(Stored, was[c])
    <3>1. was[c] \in TableVersions /\ table[was[c]] # None
      BY <1>2, <2>4, NoneAssumption DEF PairOf, Versions, was
    <3>2. VersionsAre(q, tableId, rowId)
      BY WritesFacts DEF WritesAre
    <3>3. \A d \in DOMAIN Plan(q) : Plan(q)[d].mixed => VersionsOf(q, tableId)[d] # was[c]
      BY <1>1, <3>1, <3>2 DEF VersionsAre
    <3>4. QED
      BY <3>1, <3>3, WritesSpare
  <2>5. QED
    BY <2>2, <2>3, <2>4
<1>5. tablesOf[r] = {was[c] : c \in TableCreatedIds} \ {None}
  <2>1. HasTablesOnce(r)
    BY DEF Asks
  <2>2. /\ \A c \in TableCreatedIds : was[c] = VersionIn(r, c)
        /\ \A c : VersionIn(r, c) = None \/ VersionIn(r, c) \in tablesOf[r]
        /\ \A t \in tablesOf[r] : /\ t # None /\ table[t].createdId \in TableCreatedIds
                                  /\ VersionIn(r, table[t].createdId) = t
    BY <1>2, <2>1, VersionInFacts DEF PairOf
  <2> HIDE DEF was
  <2>3. QED
    BY <2>2
<1>6. tablesOf'[n] = {link[c] : c \in TableCreatedIds} \ {None}
  BY <1>1
<1>7. Content(n)' = {TableContent(Stored, t)' : t \in tablesOf'[n]}
  BY DEF Content
<1>8. Content(r) = {TableContent(Stored, t) : t \in tablesOf[r]}
  BY DEF Content
<1> HIDE DEF was
<1>9. Content(n)' = Content(r)
  <2>1. ASSUME NEW s \in Content(n)'
        PROVE  s \in Content(r)
    <3>1. PICK t \in tablesOf'[n] : s = TableContent(Stored, t)'
      BY <1>7, <2>1
    <3>2. PICK c \in TableCreatedIds : t = link[c] /\ t # None
      BY <1>6, <3>1
    <3>3. was[c] \in tablesOf[r] /\ s = TableContent(Stored, was[c])
      BY <1>4, <1>5, <3>1, <3>2
    <3>4. QED
      BY <1>8, <3>3
  <2>2. ASSUME NEW s \in Content(r)
        PROVE  s \in Content(n)'
    <3>1. PICK t \in tablesOf[r] : s = TableContent(Stored, t)
      BY <1>8, <2>2
    <3>2. PICK c \in TableCreatedIds : t = was[c] /\ t # None
      BY <1>5, <3>1
    <3>3. link[c] \in tablesOf'[n] /\ s = TableContent(Stored, link[c])'
      BY <1>4, <1>6, <3>1, <3>2
    <3>4. QED
      BY <1>7, <3>3
  <2>3. QED
    BY <2>1, <2>2
<1>10. QED
  BY <1>3, <1>9


-----------------------------------------------------------------------------
(* The whole draft. *)

\* With every difference applied, the target has a table as the other side has it.
LEMMA WholeTable ==
  ASSUME IInv, IdentitiesHold, NEW b, NEW h \in RevisionIds, NEW r \in RevisionIds, NEW q,
         Asks(b, h, r, q), q.wholeDraft, NEW c \in TableCreatedIds, OnBothSides(q.pairs[c])
  PROVE  TargetTable(q, c) = TableContent(Stored, q.pairs[c][Opposite(BaseSide(q.operation))])
<1> DEFINE base == BaseSide(q.operation)
<1>1. q.parts = Parts(q.pairs)
  <2>1. RequestOf(b, h, r, q)
    BY RequestFacts
  <2>2. QED
    BY <2>1 DEF RequestOf
<1>2. TableParts(q.pairs[c], c) \subseteq q.parts
  BY <1>1 DEF Parts
<1>3. /\ Part("structure", c, None) \notin TableParts(q.pairs[c], c)
           => table[OtherVersion(q, c)].id = table[StructureVersion(q, c)].id
      /\ \A k \in RowCreatedIds : RowParts(q.pairs[c], c, k) \subseteq TableParts(q.pairs[c], c)
  BY BothParts
<1>4. base # Opposite(base)
  BY DEF BaseSide, Opposite
<1>5. BothOf(q, c)
  BY BothFacts
<1>6. \A k \in RowCreatedIds : \A p \in RowParts(q.pairs[c], c, k) :
        p.table = c /\ SideTakenBy(q, p) = Opposite(base)
  BY <1>2, <1>3, RowPartFacts DEF SideTakenBy
<1>7. CASE StructureSide(q, c) = Opposite(base)
  <2>1. \A k \in RowCreatedIds : \A p \in RowParts(q.pairs[c], c, k) : ~TakesOther(q, p)
    BY <1>6, <1>7 DEF TakesOther
  <2>2. \A k \in RowCreatedIds : TargetRow(q, c, k) = RowOf(OwnRow(q, c, k))
    BY <2>1, OwnRowStays
  <2>3. QED
    BY <1>5, <1>7, <2>2 DEF BothOf, StructureVersion
<1>8. CASE StructureSide(q, c) = base
  <2>1. \A k \in RowCreatedIds : \A p \in RowParts(q.pairs[c], c, k) : TakesOther(q, p)
    BY <1>4, <1>6, <1>8 DEF TakesOther
  <2>2. \A k \in RowCreatedIds : TargetRow(q, c, k) = RowOf(OtherRow(q, c, k))
    <3>1. SUFFICES ASSUME NEW k \in RowCreatedIds
                   PROVE  TargetRow(q, c, k) = RowOf(OtherRow(q, c, k))
      OBVIOUS
    <3>2. FateOf(q, c, k)
      BY FateFacts
    <3>3. QED
      BY <2>1, <3>2 DEF FateOf
  <2>3. Part("structure", c, None) \notin q.parts
    BY <1>4, <1>8 DEF StructureSide, SideTakenBy
  <2>4. table[OtherVersion(q, c)].id = table[StructureVersion(q, c)].id
    BY <1>2, <1>3, <2>3
  <2>5. TargetTable(q, c) = TableContent(Stored, OtherVersion(q, c))
    BY <1>5, <2>2, <2>4 DEF BothOf
  <2>6. QED
    BY <1>8, <2>5 DEF OtherVersion
<1>9. StructureSide(q, c) \in {base, Opposite(base)}
  BY DEF StructureSide, SideTakenBy
<1>10. QED
  BY <1>7, <1>8, <1>9

\* So what one side has gives way to the other's, and the two link the same.
LEMMA WholeDraftLinks ==
  ASSUME IInv, IdentitiesHold, NEW b, NEW h \in RevisionIds, NEW r \in RevisionIds, NEW q,
         Asks(b, h, r, q), NEW tableId, NEW rowId, Fresh(q, tableId, rowId), q.wholeDraft,
         NEW c \in TableCreatedIds
  PROVE  DraftGoes(q, tableId, rowId, c) =
           IF q.operation = "commit" THEN Goes(q, tableId, c) ELSE q.pairs[c].head
<1> DEFINE db == WritesOf(q, tableId, rowId)
           side == Opposite(BaseSide(q.operation))
           goes == Goes(q, tableId, c)
<1>1. /\ q.operation \in {"commit", "revert"}
      /\ q.parts = Parts(q.pairs)
      /\ OnBothSides(q.pairs[c]) /\ q.pairs[c].head # q.pairs[c].draft => c \in DOMAIN Plan(q)
  <2>1. RequestOf(b, h, r, q)
    BY RequestFacts
  <2>2. QED
    BY <2>1 DEF RequestOf, Operations
<1>2. /\ q.operation = "commit" => side = "draft" /\ q.pairs[c][side] = q.pairs[c].draft
      /\ q.operation = "revert" => side = "head" /\ q.pairs[c][side] = q.pairs[c].head
  BY DEF BaseSide, Opposite
<1>3. TableParts(q.pairs[c], c) \subseteq q.parts
  BY <1>1 DEF Parts
<1>4. PlannedOf(q) /\ PairOf(h, r, q, c) /\ GoesSays(q, tableId, rowId, c) /\ SidesOf(q, c)
  BY PlannedTables, PairFacts, GoesSaysFacts, SideFacts
<1>5. OnOneSide(q.pairs[c]) =>
        c \in DOMAIN Plan(q) /\ StructureVersion(q, c) = q.pairs[c][side]
  <2>1. SUFFICES ASSUME OnOneSide(q.pairs[c])
                 PROVE  c \in DOMAIN Plan(q) /\ StructureVersion(q, c) = q.pairs[c][side]
    OBVIOUS
  <2>2. Part("structure", c, None) \in q.parts
    BY <1>3, <2>1 DEF TableParts
  <2>3. Part("structure", c, None).table = c
    BY DEF Part
  <2>4. QED
    BY <1>4, <2>2, <2>3 DEF PlannedOf, StructureVersion, StructureSide, SideTakenBy
<1>6. CASE c \notin DOMAIN Plan(q)
  <2>1. q.pairs[c].head = q.pairs[c].draft
    BY <1>1, <1>5, <1>6 DEF OnOneSide, OnBothSides
  <2>2. QED
    BY <1>1, <1>6, <2>1 DEF DraftGoes, Goes, BaseSide
<1>7. CASE c \in DOMAIN Plan(q) /\ OnOneSide(q.pairs[c])
  <2>1. OutcomeOf(q, c)
    BY <1>7, OutcomeFacts
  <2>2. ~Plan(q)[c].relink /\ ~Plan(q)[c].mixed /\ Plan(q)[c].version = StructureVersion(q, c)
    BY <1>7, <2>1 DEF OutcomeOf, OnOneSide, OnBothSides
  <2>3. goes = StructureVersion(q, c)
    <3>1. VersionsAre(q, tableId, rowId)
      BY WritesFacts DEF WritesAre
    <3>2. QED
      BY <1>7, <2>2, <3>1 DEF VersionsAre, Goes
  <2>4. DraftGoes(q, tableId, rowId, c) =
          IF q.operation = "commit" THEN q.pairs[c].draft ELSE goes
    BY <1>7, <2>2 DEF DraftGoes, VersionToLink
  <2>5. QED
    BY <1>1, <1>2, <1>5, <1>7, <2>3, <2>4
<1>8. CASE c \in DOMAIN Plan(q) /\ OnBothSides(q.pairs[c])
  <2>1. Plan(q)[c].relink
    <3>1. OutcomeOf(q, c)
      BY <1>8, OutcomeFacts
    <3>2. QED
      BY <1>3, <1>8, <3>1 DEF OutcomeOf
  <2>2. /\ q.pairs[c].head \in Versions(q, c) /\ q.pairs[c].draft \in Versions(q, c)
        /\ StructureVersion(q, c) # None
    BY <1>4, <1>8 DEF OnBothSides, Versions, SidesOf
  <2>3. goes # None /\ TableContent(db, goes) = TableContent(Stored, q.pairs[c][side])
    BY <1>4, <1>8, <2>2, WholeTable DEF GoesSays
  <2>4. TableContent(db, q.pairs[c][side]) = TableContent(Stored, q.pairs[c][side])
    <3> DEFINE t == q.pairs[c][side]
    <3>1. t \in Versions(q, c) /\ (q.operation = "revert" => t = q.pairs[c].head)
      BY <1>1, <1>2, <2>2
    <3> HIDE DEF t
    <3>2. t \in TableVersions /\ table[t] # None
      BY <1>4, <3>1, NoneAssumption DEF PairOf
    <3>3. q.operation = "revert" => table[t].readonly
      <4>1. q.operation = "revert" => t \in tablesOf[h]
        BY <1>4, <2>2, <3>1 DEF PairOf, Versions
      <4>2. ~IsDraft(h)
        BY DEF Asks, IInv, HeadsAreCommitted
      <4>3. QED
        BY <4>1, <4>2 DEF IInv, CommittedIsReadonly, Committed, IsDraft
    <3>4. VersionsAre(q, tableId, rowId)
      BY WritesFacts DEF WritesAre
    <3>5. \A d \in DOMAIN Plan(q) : Plan(q)[d].mixed => VersionsOf(q, tableId)[d] # t
      BY <1>1, <3>2, <3>3, <3>4 DEF VersionsAre
    <3>6. QED
      BY <3>2, <3>5, WritesSpare DEF t
  <2>5. TableContent(db, goes) = TableContent(db, q.pairs[c][side])
    BY <2>3, <2>4
  <2> HIDE DEF goes, side, db
  <2>6. DraftGoes(q, tableId, rowId, c) =
          IF q.operation = "commit" THEN VersionToLink(db, Plan(q)[c], q.pairs[c].draft, goes)
          ELSE VersionToLink(db, Plan(q)[c], goes, q.pairs[c].head)
    BY <1>8 DEF DraftGoes, db, goes
  <2>7. q.pairs[c].head # None /\ q.pairs[c].draft # None /\ goes # None
    BY <1>8, <2>3 DEF OnBothSides
  <2>8. CASE q.operation = "commit"
    BY <1>2, <2>1, <2>5, <2>6, <2>7, <2>8 DEF VersionToLink, goes
  <2>9. CASE q.operation = "revert"
    BY <1>2, <2>1, <2>5, <2>6, <2>7, <2>9 DEF VersionToLink, goes
  <2>10. QED
    BY <1>1, <2>8, <2>9
<1>9. QED
  BY <1>4, <1>6, <1>7, <1>8 DEF PlannedOf


\* The next draft has what the new head has.
LEMMA WholeCommitLeavesNone ==
  ASSUME IInv, IdentitiesHold, NEW b \in Branches, NEW h \in RevisionIds, NEW r \in RevisionIds,
         NEW q, Asks(b, h, r, q), NEW tableId, NEW rowId, Fresh(q, tableId, rowId),
         AfterOf(q, tableId, rowId), NEW n, CommitOf(b, h, r, q, tableId, rowId, n), q.wholeDraft
  PROVE  ~revision'[n].hasChanges
<1>1. /\ q.operation = "commit"
      /\ tablesOf'[r] = {Goes(q, tableId, c) : c \in TableCreatedIds} \ {None}
      /\ tablesOf'[n] = {DraftGoes(q, tableId, rowId, c) : c \in TableCreatedIds} \ {None}
  BY DEF CommitOf
<1>2. tablesOf'[n] = tablesOf'[r]
  <2>1. \A c \in TableCreatedIds : DraftGoes(q, tableId, rowId, c) = Goes(q, tableId, c)
    BY <1>1, WholeDraftLinks
  <2>2. QED
    BY <1>1, <2>1
<1>3. ASSUME NEW t \in tablesOf'[r], NEW u \in tablesOf'[r],
             table'[t].createdId = table'[u].createdId
      PROVE  t = u
  <2>1. ASSUME NEW c \in TableCreatedIds, Goes(q, tableId, c) # None
        PROVE  table'[Goes(q, tableId, c)].createdId = c
    <3>1. GoesOf(q, tableId, rowId, c)
      BY GoesFacts
    <3>2. IsVersion(q, tableId, rowId, c, Goes(q, tableId, c))
      BY <2>1, <3>1 DEF GoesOf
    <3>3. QED
      BY <3>2, NoneAssumption DEF IsVersion, AfterOf
  <2>2. QED
    BY <1>1, <1>3, <2>1
<1>4. ~TableSetsDiffer(table', tablesOf'[r], tablesOf'[n])
  BY <1>2, <1>3, JoinFindsNoOther
<1>5. PICK v \in BOOLEAN : /\ v = TableSetsDiffer(table', tablesOf'[r], tablesOf'[n])
                           /\ PromotionOf(b, h, r, n, v)
  BY CommitPromotes
<1>6. QED
  BY <1>4, <1>5 DEF PromotionOf

\* The draft has what the head has.
LEMMA WholeRevertLeavesNone ==
  ASSUME IInv, BInv, IdentitiesHold, NEW b, NEW h \in RevisionIds, NEW r \in RevisionIds,
         NEW q, Asks(b, h, r, q), NEW tableId, NEW rowId, Fresh(q, tableId, rowId),
         AfterOf(q, tableId, rowId), RevertOf(r, q, tableId, rowId), q.wholeDraft
  PROVE  ~revision'[r].hasChanges
<1>1. /\ q.operation = "revert"
      /\ tablesOf'[r] = {DraftGoes(q, tableId, rowId, c) : c \in TableCreatedIds} \ {None}
      /\ \A p \in RevisionIds \ {r} : tablesOf'[p] = tablesOf[p]
  BY DEF RevertOf
<1>2. /\ IsHead(h) /\ IsDraft(r) /\ revision[h].branch = b /\ revision[r].branch = b
      /\ HasTablesOnce(h) /\ h # r
  BY DEF Asks, IInv, HeadsAreCommitted
<1>3. revision[r].parent = h
  BY <1>2, DraftOnHead DEF BInv
<1>4. tablesOf[h] = {VersionIn(h, c) : c \in TableCreatedIds} \ {None}
  <2>1. /\ \A c : VersionIn(h, c) = None \/ VersionIn(h, c) \in tablesOf[h]
        /\ \A t \in tablesOf[h] : /\ t # None /\ table[t].createdId \in TableCreatedIds
                                  /\ VersionIn(h, table[t].createdId) = t
    BY <1>2, VersionInFacts
  <2>2. QED
    BY <2>1
<1>5. tablesOf'[r] = tablesOf'[h]
  <2>1. ASSUME NEW c \in TableCreatedIds
        PROVE  DraftGoes(q, tableId, rowId, c) = VersionIn(h, c)
    <3>1. PairOf(h, r, q, c)
      BY PairFacts
    <3>2. DraftGoes(q, tableId, rowId, c) = q.pairs[c].head
      BY <1>1, WholeDraftLinks
    <3>3. QED
      BY <3>1, <3>2 DEF PairOf
  <2>2. QED
    BY <1>1, <1>2, <1>4, <2>1
<1>6. ASSUME NEW t \in tablesOf'[h], NEW u \in tablesOf'[h],
             table'[t].createdId = table'[u].createdId
      PROVE  t = u
  <2>1. t \in tablesOf[h] /\ u \in tablesOf[h]
    BY <1>1, <1>2, <1>6
  <2>2. \A w \in tablesOf[h] : w \in TableVersions /\ table[w] # None
    BY DEF IInv, TypeOK, CommittedIsReadonly
  <2>3. table'[t].createdId = table[t].createdId /\ table'[u].createdId = table[u].createdId
    BY <2>1, <2>2, OldVersionsStay
  <2>4. QED
    BY <1>2, <1>6, <2>1, <2>3 DEF HasTablesOnce
<1>7. ~TableSetsDiffer(table', tablesOf'[h], tablesOf'[r])
  BY <1>5, <1>6, JoinFindsNoOther
<1>8. PICK v \in BOOLEAN :
        /\ v = TableSetsDiffer(table', tablesOf'[h], tablesOf'[r])
        /\ revision' = [revision EXCEPT ![r] = [@ EXCEPT !.hasChanges = v]]
  BY <1>3 DEF RevertOf
<1>9. revision[r] \in RevisionRecord
  BY <1>2 DEF IInv, TypeOK, IsDraft, IsLive
<1>10. QED
  BY <1>7, <1>8, <1>9 DEF IInv, TypeOK, RevisionRecord

-----------------------------------------------------------------------------
(* Partial operations, all in all. *)

\* The draft of a branch is the one there is.
LEMMA DraftOfIs ==
  ASSUME BInv', NEW b \in Branches, NEW d \in RevisionIds, IsDraft(d)', revision'[d].branch = b
  PROVE  DraftOf(b)' = d
<1>1. \A s \in RevisionIds : IsDraft(s)' /\ revision'[s].branch = b => s = d
  <2>1. d \in RevisionsOf(b)'
    BY DEF RevisionsOf, IsDraft
  <2>2. PICK o \in RevisionsOf(b)' : \A s \in RevisionsOf(b)' \ {o} : ~revision'[s].isDraft
    BY <2>1 DEF BInv, DraftFollowsHead
  <2>3. QED
    BY <2>2 DEF RevisionsOf, IsDraft
<1>2. QED
  BY <1>1 DEF DraftOf

\* What holds in every state.
TargetInv ==
  /\ IInv /\ BInv /\ IdentitiesHold /\ MutableIsUnshared /\ HasChangesIsExact

\* What a partial operation is to bring about.
Reaches(q) ==
  /\ Content(q.draft)' = Target(q)
  /\ q.operation = "commit" => Content(DraftOf(q.branch))' = Content(q.draft)
  /\ q.wholeDraft => ~(revision[DraftOf(q.branch)].hasChanges)'

\* A partial operation keeps the invariant, and reaches its target.
LEMMA ApplyChangesKeeps ==
  ASSUME TargetInv, NEW b \in Branches, NEW h \in RevisionIds, NEW r \in RevisionIds,
         ApplyChanges(b, h, r)
  PROVE  /\ TargetInv' /\ KeepsCommitted
         /\ \A q : q = applied' => Reaches(q)
<1>1. PICK q, tableId, rowId :
        /\ Asks(b, h, r, q) /\ Fresh(q, tableId, rowId) /\ applied' = q
        /\ Commits(q, tableId, rowId) \/ Reverts(q, tableId, rowId)
  BY ApplyChangesIs
<1>2. IInv /\ BInv /\ IdentitiesHold /\ MutableIsUnshared /\ HasChangesIsExact
  BY DEF TargetInv
<1>3. q.branch = b /\ q.draft = r
  <2>1. RequestOf(b, h, r, q)
    BY <1>1, <1>2, RequestFacts
  <2>2. QED
    BY <2>1 DEF RequestOf
<1>4. IsDraft(r) /\ revision[r].branch = b
  BY <1>1 DEF Asks
<1>5. CASE Commits(q, tableId, rowId)
  <2>1. PICK n \in RevisionIds :
          AfterOf(q, tableId, rowId) /\ CommitOf(b, h, r, q, tableId, rowId, n)
    BY <1>1, <1>2, <1>5, CommitFacts
  <2>2. IInv' /\ KeepsCommitted
    BY <1>1, <1>2, <2>1, CommitToTargetKeeps
  <2>3. BInv'
    BY <1>1, <1>2, <2>1, CommitToTargetShapes
  <2>4. IdentitiesHold'
    BY <1>1, <1>2, <2>1, ApplyKeepsIdentities
  <2>5. MutableIsUnshared'
    BY <1>1, <1>2, <2>1, <2>2, CommitToTargetKeepsUnshared
  <2>6. HasChangesIsExact'
    BY <1>1, <1>2, <2>1, <2>2, <2>3, CommitToTargetKeepsExact
  <2>7. Content(r)' = Target(q) /\ Content(n)' = Content(r)
    BY <1>1, <1>2, <2>1, CommitReaches
  <2>8. q.wholeDraft => ~revision'[n].hasChanges
    BY <1>1, <1>2, <2>1, WholeCommitLeavesNone
  <2>9. DraftOf(q.branch)' = n
    <3>1. PICK v \in BOOLEAN : PromotionOf(b, h, r, n, v)
      BY <1>1, <1>2, <2>1, CommitPromotes
    <3>2. IsDraft(n)' /\ revision'[n].branch = q.branch
      BY <1>3, <3>1 DEF PromotionOf, IsDraft, IsLive
    <3>3. QED
      BY <1>3, <2>3, <3>2, DraftOfIs
  <2>10. Reaches(q)
    BY <1>3, <2>7, <2>8, <2>9 DEF Reaches, Content
  <2>11. QED
    BY <1>1, <2>2, <2>3, <2>4, <2>5, <2>6, <2>10 DEF TargetInv
<1>6. CASE Reverts(q, tableId, rowId)
  <2>1. AfterOf(q, tableId, rowId) /\ RevertOf(r, q, tableId, rowId)
    BY <1>1, <1>2, <1>6, RevertFacts
  <2>2. IInv' /\ KeepsCommitted
    BY <1>1, <1>2, <2>1, RevertToTargetKeeps
  <2>3. BInv'
    BY <1>1, <1>2, <2>1, RevertToTargetShapes
  <2>4. IdentitiesHold'
    BY <1>1, <1>2, <2>1, ApplyKeepsIdentities
  <2>5. MutableIsUnshared'
    BY <1>1, <1>2, <2>1, <2>2, <2>4, RevertToTargetKeepsUnshared
  <2>6. HasChangesIsExact'
    BY <1>1, <1>2, <2>1, <2>2, RevertToTargetKeepsExact
  <2>7. Content(r)' = Target(q)
    BY <1>1, <1>2, <2>1, RevertReaches
  <2>8. q.wholeDraft => ~revision'[r].hasChanges
    BY <1>1, <1>2, <2>1, WholeRevertLeavesNone
  <2>9. DraftOf(q.branch)' = r
    <3>1. PICK v \in BOOLEAN : revision' = [revision EXCEPT ![r] = [@ EXCEPT !.hasChanges = v]]
      BY <2>1 DEF RevertOf
    <3>2. SamePlace(r)
      BY <1>2, <1>4, <3>1, MarkChangedStays
    <3>3. IsDraft(r)' /\ revision'[r].branch = q.branch
      BY <1>3, <1>4, <3>2 DEF SamePlace, IsDraft
    <3>4. QED
      BY <1>3, <2>3, <3>3, DraftOfIs
  <2>10. q.operation = "revert"
    BY <2>1 DEF RevertOf
  <2>11. Reaches(q)
    BY <1>3, <2>7, <2>8, <2>9, <2>10 DEF Reaches
  <2>12. QED
    BY <1>1, <2>2, <2>3, <2>4, <2>5, <2>6, <2>11 DEF TargetInv
<1>7. QED
  BY <1>1, <1>5, <1>6


-----------------------------------------------------------------------------
(* The theorems. *)

\* Nothing is linked at the start.
LEMMA TargetInitEstablishes == TargetInit => TargetInv
<1> SUFFICES ASSUME TargetInit PROVE TargetInv
  OBVIOUS
<1>1. Init
  BY DEF TargetInit
<1>2. IInv /\ BInv
  BY <1>1, InitEstablishes, InitShapes
<1>3. IdentitiesHold
  BY <1>1 DEF Init, IdentitiesHold
<1>4. MutableIsUnshared /\ HasChangesIsExact
  BY <1>1 DEF Init, MutableIsUnshared, HasChangesIsExact, Live, IsDraft, IsHead
<1>5. QED
  BY <1>2, <1>3, <1>4 DEF TargetInv

\* Every step, of an operation on its own or of a partial one.
LEMMA TargetStepKeeps ==
  ASSUME TargetInv, [TargetNext]_targetVars
  PROVE  /\ TargetInv'
         /\ KeepsCommitted \/ UNCHANGED vars
<1> USE DEF TargetInv
<1>1. CASE Next
  <2>1. IInv' /\ KeepsCommitted
    BY <1>1, StepKeeps
  <2>2. BInv' /\ IdentitiesHold'
    BY <1>1, StepShapes, StepKeepsIdentities
  <2>3. MutableIsUnshared' /\ HasChangesIsExact'
    BY <1>1, StepKeepsUnshared, StepKeepsExact
  <2>4. QED
    BY <2>1, <2>2, <2>3
<1>2. ASSUME NEW b \in Branches, NEW h \in RevisionIds, NEW r \in RevisionIds, ApplyChanges(b, h, r)
      PROVE  TargetInv' /\ KeepsCommitted
  <2> HIDE DEF TargetInv
  <2>1. QED
    BY <1>2, ApplyChangesKeeps
<1>3. CASE UNCHANGED vars
  <2>1. IInv'
    BY <1>3 DEF IInv, TypeOK, CommittedIsReadonly, HeadsAreCommitted, vars,
                IsLive, IsDraft, IsHead, Committed
  <2>2. BInv'
    BY <1>3 DEF BInv, DraftFollowsHead, ParentsInBranch, vars, RevisionsOf, IsLive, IsDraft, IsHead
  <2>3. IdentitiesHold'
    BY <1>3 DEF IdentitiesHold, vars
  <2>4. MutableIsUnshared' /\ HasChangesIsExact'
    BY <1>3 DEF MutableIsUnshared, HasChangesIsExact, Live, IsDraft, IsHead, IsLive, vars
  <2>5. QED
    BY <1>3, <2>1, <2>2, <2>3, <2>4
<1>4. QED
  BY <1>1, <1>2, <1>3 DEF TargetNext, targetVars

\* The inductive invariant.
LEMMA TargetInvariantHolds == TargetSpec => []TargetInv
<1>1. TargetInv /\ [TargetNext]_targetVars => TargetInv'
  BY TargetStepKeeps
<1>2. QED
  BY <1>1, TargetInitEstablishes, PTL DEF TargetSpec

\* Relations and links stay well-formed.
THEOREM TargetTypeCorrect == TargetSpec => []TypeOK
<1>1. TargetInv => TypeOK
  BY DEF TargetInv, IInv
<1>2. QED
  BY <1>1, TargetInvariantHolds, PTL

\* However a partial commit comes by its versions - of the head, of the draft, copies
\* that are mixed of both -, what a committed revision reaches is locked.
THEOREM TargetCommittedStaysReadonly == TargetSpec => []CommittedIsReadonly
<1>1. TargetInv => CommittedIsReadonly
  BY DEF TargetInv, IInv
<1>2. QED
  BY <1>1, TargetInvariantHolds, PTL

\* No partial operation changes what a committed revision says, either.
THEOREM TargetCommittedIsImmutable == TargetSpec => CommittedNeverChanges
<1>1. TargetInv /\ [TargetNext]_targetVars =>
        [\A r \in RevisionIds : Committed(r) /\ IsLive(r)' => Snapshot(r)' = Snapshot(r)]_vars
  BY TargetStepKeeps, SameSnapshot DEF TargetInv
<1>2. QED
  BY <1>1, TargetInvariantHolds, PTL DEF TargetSpec, CommittedNeverChanges

\* Every branch keeps one head, and one draft on it.
THEOREM TargetDraftsFollowHeads == TargetSpec => []DraftFollowsHead
<1>1. TargetInv => DraftFollowsHead
  BY DEF TargetInv, BInv
<1>2. QED
  BY <1>1, TargetInvariantHolds, PTL

\* What can still be edited in place is seen from one place only: nothing is mixed
\* into a version that another revision links, no mutable row into a second table,
\* and what the head takes from the draft is locked in both.
THEOREM TargetMutableStaysUnshared == TargetSpec => []MutableIsUnshared
<1>1. TargetInv => MutableIsUnshared
  BY DEF TargetInv
<1>2. QED
  BY <1>1, TargetInvariantHolds, PTL

\* hasChanges is what comparing the draft with the head finds.
THEOREM TargetHasChangesStaysExact == TargetSpec => []HasChangesIsExact
<1>1. TargetInv => HasChangesIsExact
  BY DEF TargetInv
<1>2. QED
  BY <1>1, TargetInvariantHolds, PTL

\* A logical row stays in its logical table, with one version in each of the
\* table's, whatever is mixed: the reader of head and draft relies on it.
THEOREM IdentitiesAlwaysHold == TargetSpec => []IdentitiesHold
<1>1. TargetInv => IdentitiesHold
  BY DEF TargetInv
<1>2. QED
  BY <1>1, TargetInvariantHolds, PTL

\* The new head of a partial commit, and the draft of a partial revert, say of each
\* table and row what the request takes of head and draft, whichever versions the
\* writer links, copies, mixes or edits in place; a commit leaves a draft that says
\* what it said, and a request for every difference one without changes.
THEOREM TargetIsReached == TargetSpec => OperationsReachTheirTarget
<1> DEFINE Reached ==
             LET base == Content(applied'.draft)
             IN  applied' # None =>
                   /\ Content(applied.draft)' = Target(applied')
                   /\ applied'.operation = "commit" => Content(DraftOf(applied.branch))' = base
                   /\ applied'.wholeDraft => ~(revision[DraftOf(applied.branch)].hasChanges)'
<1>1. ASSUME TargetInv, NEW b \in Branches, NEW h \in RevisionIds, NEW r \in RevisionIds,
             ApplyChanges(b, h, r)
      PROVE  Reached
  <2>1. PICK q : q = applied'
    OBVIOUS
  <2>2. /\ Content(q.draft)' = Target(q)
        /\ q.operation = "commit" => Content(DraftOf(q.branch))' = Content(q.draft)
        /\ q.wholeDraft => ~(revision[DraftOf(q.branch)].hasChanges)'
    BY <1>1, <2>1, ApplyChangesKeeps DEF Reaches
  <2>3. /\ Content(applied.draft)' = Content(q.draft)'
        /\ Content(DraftOf(applied.branch))' = Content(DraftOf(q.branch))'
        /\ (revision[DraftOf(applied.branch)].hasChanges)'
             = (revision[DraftOf(q.branch)].hasChanges)'
    BY <2>1 DEF Content, DraftOf
  <2>4. Content(applied'.draft) = Content(q.draft) /\ Target(applied') = Target(q)
    BY <2>1
  <2>5. QED
    BY <2>1, <2>2, <2>3, <2>4
<1>2. TargetInv /\ [TargetNext]_targetVars => [Reached]_targetVars
  BY <1>1 DEF TargetNext
<1>3. QED
  BY <1>2, TargetInvariantHolds, PTL DEF TargetSpec, OperationsReachTheirTarget


-----------------------------------------------------------------------------
(* Names. *)

\* What a revision says has one table to a name, and one row.
NamesOnce(content) ==
  /\ \A s, t \in content : Folded[s.id] = Folded[t.id] => s = t
  /\ \A t \in content : \A x, y \in t.rows : x.id = y.id => x = y

\* A revision whose names are unique says each once.
LEMMA UniqueNamesAreOnce ==
  ASSUME NEW p, NamesAreUniqueIn(p)
  PROVE  NamesOnce(Content(p))
<1>1. ASSUME NEW s \in Content(p), NEW t \in Content(p), Folded[s.id] = Folded[t.id]
      PROVE  s = t
  <2>1. PICK u \in tablesOf[p], v \in tablesOf[p] :
          s = TableContent(Stored, u) /\ t = TableContent(Stored, v)
    BY DEF Content
  <2>2. s.id = table[u].id /\ t.id = table[v].id
    BY <2>1 DEF TableContent, Stored
  <2>3. QED
    BY <1>1, <2>1, <2>2 DEF NamesAreUniqueIn
<1>2. ASSUME NEW t \in Content(p), NEW x \in t.rows, NEW y \in t.rows, x.id = y.id
      PROVE  x = y
  <2>1. PICK u \in tablesOf[p] : t = TableContent(Stored, u)
    BY DEF Content
  <2>2. PICK v \in rowsOf[u], w \in rowsOf[u] : x = RowContent(row[v]) /\ y = RowContent(row[w])
    BY <2>1 DEF TableContent, Stored
  <2>3. v = w
    BY <1>2, <2>1, <2>2 DEF RowContent, NamesAreUniqueIn
  <2>4. QED
    BY <2>2, <2>3
<1>3. QED
  BY <1>1, <1>2 DEF NamesOnce

\* After a step, what is said once is unique, if each logical table is there once,
\* and each logical row in it.
LEMMA OnceMeansUnique ==
  ASSUME IdentitiesHold', NEW p, HasTablesOnce(p)', tablesOf'[p] \subseteq TableVersions,
         NEW content, content = Content(p)', NamesOnce(content)
  PROVE  NamesAreUniqueIn(p)'
<1>1. ASSUME NEW t \in tablesOf'[p], NEW u \in tablesOf'[p],
             Folded[table'[t].id] = Folded[table'[u].id]
      PROVE  t = u
  <2>1. PICK s, v : s = TableContent(Stored, t)' /\ v = TableContent(Stored, u)'
    OBVIOUS
  <2>2. s \in content /\ v \in content
    BY <2>1 DEF Content
  <2>3. /\ s.id = table'[t].id /\ s.createdId = table'[t].createdId
        /\ v.id = table'[u].id /\ v.createdId = table'[u].createdId
    BY <2>1 DEF TableContent, Stored
  <2>4. s = v
    BY <1>1, <2>2, <2>3 DEF NamesOnce
  <2>5. QED
    BY <2>3, <2>4 DEF HasTablesOnce
<1>2. ASSUME NEW t \in tablesOf'[p], NEW x \in rowsOf'[t], NEW y \in rowsOf'[t],
             row'[x].id = row'[y].id
      PROVE  x = y
  <2>1. PICK s, v, w : /\ s = TableContent(Stored, t)'
                       /\ v = RowContent(row'[x]) /\ w = RowContent(row'[y])
    OBVIOUS
  <2>2. s \in content /\ v \in s.rows /\ w \in s.rows
    BY <2>1 DEF Content, TableContent, Stored
  <2>3. /\ v.id = row'[x].id /\ v.createdId = row'[x].createdId
        /\ w.id = row'[y].id /\ w.createdId = row'[y].createdId
    BY <2>1 DEF RowContent
  <2>4. v = w
    BY <1>2, <2>2, <2>3 DEF NamesOnce
  <2>5. t \in TableVersions /\ row'[x].createdId = row'[y].createdId
    BY <2>3, <2>4
  <2>6. QED
    BY <2>5 DEF IdentitiesHold
<1>3. QED
  BY <1>1, <1>2 DEF NamesAreUniqueIn

\* No two spellings of a name: names are compared exactly by partial operations,
\* and without case by every other one.
NamesHaveOneSpelling == \A m, n \in TableIds : Folded[m] = Folded[n] => m = n

\* What passed the collision checks.
LEMMA TargetNamesAreOnce ==
  ASSUME NamesHaveOneSpelling, NEW target, HasNoCollisions(target),
         \A t \in target : t.id \in TableIds
  PROVE  NamesOnce(target)
BY DEF NamesHaveOneSpelling, HasNoCollisions, NamesOnce

\* Versions that are linked have names there are.
LEMMA LinkedNames ==
  ASSUME IInv', NEW p \in RevisionIds, NEW content, content = Content(p)'
  PROVE  /\ tablesOf'[p] \subseteq TableVersions
         /\ \A s \in content : s.id \in TableIds
<1>1. \A t \in tablesOf'[p] : t \in TableVersions /\ table'[t].id \in TableIds
  BY DEF IInv, TypeOK, CommittedIsReadonly, TableRecord
<1>2. ASSUME NEW s \in content
      PROVE  s.id \in TableIds
  <2>1. PICK t \in tablesOf'[p] : s = TableContent(Stored, t)'
    BY DEF Content
  <2>2. s.id = table'[t].id
    BY <2>1 DEF TableContent, Stored
  <2>3. QED
    BY <1>1, <2>2
<1>3. QED
  BY <1>1, <1>2

\* A revision that links one version of each logical table.
LEMMA LinkedOnce ==
  ASSUME IInv, IdentitiesHold, NEW b, NEW h \in RevisionIds, NEW r \in RevisionIds, NEW q,
         Asks(b, h, r, q), NEW tableId, NEW rowId, Fresh(q, tableId, rowId),
         AfterOf(q, tableId, rowId), NEW p \in RevisionIds, NEW link,
         tablesOf'[p] = {link[c] : c \in TableCreatedIds} \ {None},
         \A c \in TableCreatedIds :
           link[c] \in {Goes(q, tableId, c), DraftGoes(q, tableId, rowId, c)}
  PROVE  HasTablesOnce(p)'
<1>1. ASSUME NEW c \in TableCreatedIds, link[c] # None
      PROVE  table'[link[c]].createdId = c
  <2>1. GoesOf(q, tableId, rowId, c)
    BY GoesFacts
  <2>2. IsVersion(q, tableId, rowId, c, link[c])
    BY <1>1, <2>1 DEF GoesOf
  <2>3. QED
    BY <2>2, NoneAssumption DEF IsVersion, AfterOf
<1>2. \A t, u \in tablesOf'[p] : table'[t].createdId = table'[u].createdId => t = u
  BY <1>1
<1>3. QED
  BY <1>2 DEF HasTablesOnce

\* The new head has the target's names, the next draft the draft's.
LEMMA CommitToTargetKeepsNames ==
  ASSUME NamesHaveOneSpelling, IInv, IInv', IdentitiesHold, IdentitiesHold', NamesAreUnique,
         NEW b \in Branches, NEW h \in RevisionIds, NEW r \in RevisionIds, NEW q,
         Asks(b, h, r, q), NEW tableId, NEW rowId, Fresh(q, tableId, rowId),
         AfterOf(q, tableId, rowId), NEW n \in RevisionIds,
         CommitOf(b, h, r, q, tableId, rowId, n)
  PROVE  NamesAreUnique'
<1> PICK goes, link : /\ goes = [c \in TableCreatedIds |-> Goes(q, tableId, c)]
                      /\ link = [c \in TableCreatedIds |-> DraftGoes(q, tableId, rowId, c)]
  OBVIOUS
<1>1. /\ tablesOf'[r] = {goes[c] : c \in TableCreatedIds} \ {None}
      /\ tablesOf'[n] = {link[c] : c \in TableCreatedIds} \ {None}
      /\ \A p \in RevisionIds \ {r, n} : tablesOf'[p] = tablesOf[p]
      /\ q.operation = "commit"
  BY DEF CommitOf
<1>2. HasNoCollisions(Target(q))
  <2>1. RequestOf(b, h, r, q)
    BY RequestFacts
  <2>2. QED
    BY <2>1 DEF RequestOf
<1>3. Content(r)' = Target(q) /\ Content(n)' = Content(r)
  BY CommitReaches
<1>4. HasTablesOnce(r)'
  BY <1>1, LinkedOnce
<1>5. HasTablesOnce(n)'
  BY <1>1, LinkedOnce
<1>6. NamesAreUniqueIn(r)'
  <2>1. PICK content : content = Content(r)'
    OBVIOUS
  <2>2. NamesOnce(content)
    BY <1>2, <1>3, <2>1, LinkedNames, TargetNamesAreOnce
  <2>3. QED
    BY <1>4, <2>1, <2>2, LinkedNames, OnceMeansUnique
<1>7. NamesAreUniqueIn(n)'
  <2>1. PICK content : content = Content(n)'
    OBVIOUS
  <2>2. NamesAreUniqueIn(r)
    BY DEF NamesAreUnique, NamesAreUniqueIn
  <2>3. NamesOnce(content)
    BY <1>3, <2>1, <2>2, UniqueNamesAreOnce
  <2>4. QED
    BY <1>5, <2>1, <2>3, LinkedNames, OnceMeansUnique
<1>8. ASSUME NEW p \in RevisionIds \ {r, n}
      PROVE  NamesAreUniqueIn(p)'
  <2>1. \A t \in tablesOf[p] :
          /\ t \in TableVersions /\ table[t] # None
          /\ \A x \in rowsOf[t] : x \in RowVersions /\ row[x] # None
    BY DEF IInv, TypeOK, CommittedIsReadonly
  <2>2. ASSUME NEW t \in tablesOf[p]
        PROVE  /\ table'[t].id = table[t].id /\ rowsOf'[t] = rowsOf[t]
               /\ \A x \in rowsOf[t] : row'[x].id = row[x].id
    <3>1. /\ t \in TableVersions /\ table[t] # None
          /\ \A x \in rowsOf[t] : x \in RowVersions /\ row[x] # None
      BY <2>1
    <3>2. /\ table'[t].id = table[t].id
          /\ rowsOf'[t] = rowsOf[t] \/ q.operation = "revert"
      BY <3>1, OldVersionsStay
    <3>3. \A x \in rowsOf[t] : row'[x].id = row[x].id
      BY <3>1, OldVersionsStay
    <3>4. QED
      BY <1>1, <3>2, <3>3
  <2>3. QED
    BY <1>1, <2>2, NamesFromBefore
<1>9. QED
  BY <1>6, <1>7, <1>8 DEF NamesAreUnique, NamesAreUniqueIn

\* The reverted draft has the target's names.
LEMMA RevertToTargetKeepsNames ==
  ASSUME NamesHaveOneSpelling, IInv, IInv', IdentitiesHold, IdentitiesHold', NamesAreUnique,
         MutableIsUnshared, NEW b, NEW h \in RevisionIds, NEW r \in RevisionIds, NEW q,
         Asks(b, h, r, q), NEW tableId, NEW rowId, Fresh(q, tableId, rowId),
         AfterOf(q, tableId, rowId), RevertOf(r, q, tableId, rowId)
  PROVE  NamesAreUnique'
<1> PICK link : link = [c \in TableCreatedIds |-> DraftGoes(q, tableId, rowId, c)]
  OBVIOUS
<1>1. /\ tablesOf'[r] = {link[c] : c \in TableCreatedIds} \ {None}
      /\ \A p \in RevisionIds \ {r} : tablesOf'[p] = tablesOf[p]
  BY DEF RevertOf
<1>2. HasNoCollisions(Target(q))
  <2>1. RequestOf(b, h, r, q)
    BY RequestFacts
  <2>2. QED
    BY <2>1 DEF RequestOf
<1>3. Content(r)' = Target(q)
  BY RevertReaches
<1>4. HasTablesOnce(r)'
  BY <1>1, LinkedOnce
<1>5. NamesAreUniqueIn(r)'
  <2>1. PICK content : content = Content(r)'
    OBVIOUS
  <2>2. NamesOnce(content)
    BY <1>2, <1>3, <2>1, LinkedNames, TargetNamesAreOnce
  <2>3. QED
    BY <1>4, <2>1, <2>2, LinkedNames, OnceMeansUnique
<1>6. ASSUME NEW p \in RevisionIds \ {r}
      PROVE  NamesAreUniqueIn(p)'
  <2>1. \A t \in tablesOf[p] :
          /\ t \in TableVersions /\ table[t] # None
          /\ \A x \in rowsOf[t] : x \in RowVersions /\ row[x] # None
    BY DEF IInv, TypeOK, CommittedIsReadonly
  <2>2. ASSUME NEW t \in tablesOf[p]
        PROVE  /\ table'[t].id = table[t].id /\ rowsOf'[t] = rowsOf[t]
               /\ \A x \in rowsOf[t] : row'[x].id = row[x].id
    <3>1. /\ table'[t].id = table[t].id
          /\ rowsOf'[t] = rowsOf[t] \/ (t \in tablesOf[r] /\ ~table[t].readonly)
          /\ \A x \in rowsOf[t] : row'[x].id = row[x].id
      BY <2>1, OldVersionsStay
    <3>2. t \in tablesOf[r] /\ ~table[t].readonly => p = r
      BY UnsharedFacts
    <3>3. QED
      BY <3>1, <3>2
  <2>3. QED
    BY <1>1, <2>2, NamesFromBefore
<1>7. QED
  BY <1>5, <1>6 DEF NamesAreUnique, NamesAreUniqueIn

\* Where no two names differ in case only, the collision checks keep names unique:
\* a partial operation brings in no second table or row of a name, in the head, in
\* the reverted draft, or in the next draft.
THEOREM TargetNamesStayUnique ==
  ASSUME NamesHaveOneSpelling
  PROVE  TargetSpec => []NamesAreUnique
<1>1. TargetInit => NamesAreUnique
  BY DEF TargetInit, Init, NamesAreUnique
<1>2. ASSUME TargetInv, TargetInv', NamesAreUnique, NEW b \in Branches,
             NEW h \in RevisionIds, NEW r \in RevisionIds, ApplyChanges(b, h, r)
      PROVE  NamesAreUnique'
  <2>1. PICK q, tableId, rowId :
          /\ Asks(b, h, r, q) /\ Fresh(q, tableId, rowId)
          /\ Commits(q, tableId, rowId) \/ Reverts(q, tableId, rowId)
    BY <1>2, ApplyChangesIs
  <2>2. /\ IInv /\ IdentitiesHold /\ MutableIsUnshared
        /\ IInv' /\ IdentitiesHold'
    BY <1>2 DEF TargetInv
  <2>3. CASE Commits(q, tableId, rowId)
    <3>1. PICK n \in RevisionIds :
            AfterOf(q, tableId, rowId) /\ CommitOf(b, h, r, q, tableId, rowId, n)
      BY <2>1, <2>2, <2>3, CommitFacts
    <3>2. QED
      BY <1>2, <2>1, <2>2, <3>1, CommitToTargetKeepsNames
  <2>4. CASE Reverts(q, tableId, rowId)
    <3>1. AfterOf(q, tableId, rowId) /\ RevertOf(r, q, tableId, rowId)
      BY <2>1, <2>2, <2>4, RevertFacts
    <3>2. QED
      BY <1>2, <2>1, <2>2, <3>1, RevertToTargetKeepsNames
  <2>5. QED
    BY <2>1, <2>3, <2>4
<1>3. TargetInv /\ Next /\ NamesAreUnique => NamesAreUnique'
  BY StepKeepsNames DEF TargetInv
<1>4. NamesAreUnique /\ UNCHANGED targetVars => NamesAreUnique'
  BY DEF NamesAreUnique, targetVars, vars
<1>5. TargetInv /\ TargetInv' /\ NamesAreUnique /\ [TargetNext]_targetVars => NamesAreUnique'
  BY <1>2, <1>3, <1>4 DEF TargetNext
<1>6. QED
  BY <1>1, <1>5, TargetInvariantHolds, PTL DEF TargetSpec

=============================================================================

-------------------------- MODULE VersioningProofs --------------------------
(***************************************************************************)
(* What every project, of any size, can rely on: the database stays well   *)
(* formed, whatever a committed revision reaches is locked, and so no      *)
(* operation on any branch changes what a committed revision says; each    *)
(* branch has one head, one draft on it, and an ancestry that stays whole; *)
(* what can be edited in place is seen from one place only.  And the store *)
(* implements BranchHistory: with all its sharing of versions it behaves   *)
(* as if every commit kept a copy of its own, and every branch's draft     *)
(* were edited in isolation.                                               *)
(***************************************************************************)
EXTENDS Versioning, TLAPS

\* Commit takes the draft flag from the head it retires as well, so the locks
\* hold only because a head was never a draft to begin with.
HeadsAreCommitted == \A r \in RevisionIds : IsHead(r) => ~IsDraft(r)

IInv == TypeOK /\ HeadsAreCommitted /\ CommittedIsReadonly

\* A step that leaves the tables of surviving committed revisions alone, with
\* the rows of each.
KeepsCommitted ==
  \A r \in RevisionIds : Committed(r) /\ IsLive(r)' =>
    /\ tablesOf'[r] = tablesOf[r]
    /\ \A t \in tablesOf[r] :
         /\ table'[t].createdId = table[t].createdId /\ table'[t].id = table[t].id
         /\ rowsOf'[t] = rowsOf[t]
         /\ \A x \in rowsOf[t] :
              /\ row'[x].createdId = row[x].createdId /\ row'[x].id = row[x].id
              /\ row'[x].data = row[x].data

-----------------------------------------------------------------------------
(* Fresh identifiers and touched versions. *)

\* IdService.generate returns an identifier that no record has.
LEMMA NewIdIsUnused ==
  ASSUME NEW relation, Unused(relation) # {}
  PROVE  NewId(relation) \in DOMAIN relation /\ relation[NewId(relation)] = None
BY DEF NewId, Unused, Live

\* The same, for the relations that hand out identifiers: a table version,
LEMMA NewTableVersion ==
  ASSUME TypeOK, Unused(table) # {}
  PROVE  NewId(table) \in TableVersions /\ table[NewId(table)] = None
BY NewIdIsUnused DEF TypeOK

\* ... a row version,
LEMMA NewRowVersion ==
  ASSUME TypeOK, Unused(row) # {}
  PROVE  NewId(row) \in RowVersions /\ row[NewId(row)] = None
BY NewIdIsUnused DEF TypeOK

\* ... and a revision.
LEMMA NewRevision ==
  ASSUME TypeOK, Unused(revision) # {}
  PROVE  NewId(revision) \in RevisionIds /\ revision[NewId(revision)] = None
BY NewIdIsUnused DEF TypeOK

\* Writing hasChanges of a draft changes nothing else of any revision.
LEMMA MarkChangedKeeps ==
  ASSUME IInv, NEW r \in RevisionIds, IsDraft(r), NEW v \in BOOLEAN,
         revision' = [revision EXCEPT ![r] = [@ EXCEPT !.hasChanges = v]]
  PROVE  /\ revision' \in [RevisionIds -> RevisionRecord \cup {None}]
         /\ \A q \in RevisionIds :
              /\ IsLive(q)' = IsLive(q) /\ IsDraft(q)' = IsDraft(q)
              /\ IsHead(q)' = IsHead(q) /\ Committed(q)' = Committed(q)
<1>1. revision[r] \in RevisionRecord
  BY DEF IInv, TypeOK, IsDraft, IsLive
<1>2. /\ revision'[r] = [revision[r] EXCEPT !.hasChanges = v]
      /\ \A q \in RevisionIds \ {r} : revision'[q] = revision[q]
      /\ revision' = [q \in RevisionIds |-> revision'[q]]
  BY DEF IInv, TypeOK
<1>3. /\ revision'[r] \in RevisionRecord
      /\ revision'[r].isDraft = revision[r].isDraft
      /\ revision'[r].isHead = revision[r].isHead
  BY <1>1, <1>2 DEF RevisionRecord
<1>4. revision' \in [RevisionIds -> RevisionRecord \cup {None}]
  BY <1>2, <1>3 DEF IInv, TypeOK
<1>5. QED
  BY <1>1, <1>2, <1>3, <1>4, NoneAssumption DEF IsLive, IsDraft, IsHead, Committed

\* A linked table's draft version: itself if mutable, else one that nothing links.
LEMMA DraftTableFacts ==
  ASSUME IInv, NEW r \in RevisionIds, NEW t \in tablesOf[r], CanTouch(t)
  PROVE  /\ t \in TableVersions /\ table[t] \in TableRecord
         /\ DraftTable(t) \in TableVersions
         /\ table[t].readonly => table[DraftTable(t)] = None
         /\ ~table[t].readonly => DraftTable(t) = t
<1>1. t \in TableVersions /\ table[t] \in TableRecord
  BY DEF IInv, TypeOK, CommittedIsReadonly
<1>2. CASE table[t].readonly
  BY <1>1, <1>2, NewTableVersion DEF CanTouch, DraftTable, IInv
<1>3. CASE ~table[t].readonly
  BY <1>1, <1>3 DEF DraftTable
<1>4. QED
  BY <1>1, <1>2, <1>3

\* Saving a table under a type-correct name with rows that exist keeps the
\* invariant, whatever becomes of rows that no readonly table links.
LEMMA SaveTableKeeps ==
  ASSUME IInv, NEW r \in RevisionIds, IsDraft(r),
         NEW t \in tablesOf[r], CanTouch(t),
         NEW name \in TableIds, NEW rows \in SUBSET RowVersions,
         SaveTable(r, t, name, rows), MarkChanged(r),
         row' \in [RowVersions -> RowRecord \cup {None}],
         \A x \in rows : row'[x] # None,
         \A u \in TableVersions : \A x \in rowsOf[u] :
           row'[x] # None /\ (row[x].readonly => row'[x] = row[x])
  PROVE  IInv' /\ KeepsCommitted
<1> DEFINE v == DraftTable(t)
<1>1. /\ t \in TableVersions /\ table[t] \in TableRecord /\ v \in TableVersions
      /\ table[t].readonly => table[v] = None
      /\ ~table[t].readonly => v = t
  BY DraftTableFacts
<1>2. TypeOK'
  <2>1. table' \in [TableVersions -> TableRecord \cup {None}]
    <3>1. [createdId |-> table[t].createdId, id |-> name, readonly |-> FALSE] \in TableRecord
      BY <1>1 DEF TableRecord
    <3>2. QED
      BY <1>1, <3>1 DEF IInv, TypeOK, SaveTable
  <2>2. /\ tablesOf' \in [RevisionIds -> SUBSET TableVersions]
        /\ rowsOf' \in [TableVersions -> SUBSET RowVersions]
    BY <1>1 DEF IInv, TypeOK, SaveTable
  <2>3. revision' \in [RevisionIds -> RevisionRecord \cup {None}]
    BY MarkChangedKeeps DEF MarkChanged
  <2>4. QED
    BY <2>1, <2>2, <2>3 DEF TypeOK
<1>3. \A q \in RevisionIds :
         /\ IsLive(q)' = IsLive(q) /\ IsDraft(q)' = IsDraft(q)
         /\ IsHead(q)' = IsHead(q) /\ Committed(q)' = Committed(q)
  BY MarkChangedKeeps DEF MarkChanged
<1>4. HeadsAreCommitted'
  BY <1>3 DEF IInv, HeadsAreCommitted
<1>5. table'[v] # None /\ ~table'[v].readonly /\ rowsOf'[v] = rows
  <2>1. [createdId |-> table[t].createdId, id |-> name, readonly |-> FALSE] \in TableRecord
    BY <1>1 DEF TableRecord
  <2>2. QED
    BY <1>1, <2>1, NoneAssumption DEF IInv, TypeOK, SaveTable
<1>6. \A u \in TableVersions \ {v} : table'[u] = table[u] /\ rowsOf'[u] = rowsOf[u]
  BY DEF IInv, TypeOK, SaveTable
<1>7. \A q \in RevisionIds \ {r} : tablesOf'[q] = tablesOf[q]
  BY DEF IInv, TypeOK, SaveTable
<1>8. tablesOf'[r] = (tablesOf[r] \ {t}) \cup {v}
  BY DEF IInv, TypeOK, SaveTable
<1>9. \A q \in RevisionIds : Committed(q) => v \notin tablesOf[q]
  BY <1>1 DEF IInv, CommittedIsReadonly
<1>10. CommittedIsReadonly'
  <2>1. ASSUME NEW q \in RevisionIds, NEW u \in tablesOf'[q]
        PROVE  /\ IsLive(q)' /\ table'[u] # None
               /\ Committed(q)' => table'[u].readonly
    <3>1. CASE q = r
      BY <1>3, <1>5, <1>6, <1>8, <2>1, <3>1, <1>2
         DEF IInv, CommittedIsReadonly, IsDraft, Committed, TypeOK
    <3>2. CASE q # r
      BY <1>3, <1>5, <1>6, <1>7, <1>9, <2>1, <3>2, <1>2
         DEF IInv, CommittedIsReadonly, TypeOK
    <3>3. QED
      BY <3>1, <3>2
  <2>2. ASSUME NEW u \in TableVersions, NEW x \in rowsOf'[u]
        PROVE  /\ table'[u] # None /\ row'[x] # None
               /\ table'[u].readonly => row'[x].readonly
    BY <1>5, <1>6, <2>2 DEF IInv, CommittedIsReadonly
  <2>3. QED
    BY <2>1, <2>2 DEF CommittedIsReadonly
<1>11. KeepsCommitted
  BY <1>3, <1>6, <1>7, <1>9 DEF KeepsCommitted, IInv, TypeOK, CommittedIsReadonly, IsDraft, Committed
<1>12. QED
  BY <1>2, <1>4, <1>10, <1>11 DEF IInv

\* Saving rows writes only rows that are mutable or that nothing links.
LEMMA SaveRowsFacts ==
  ASSUME IInv, NEW t \in TableVersions, NEW S \in SUBSET rowsOf[t],
         RowTouches(S) # {},
         NEW name \in [S -> RowIds], NEW data \in [S -> Data],
         SaveRows(S, name, data)
  PROVE  /\ row' \in [RowVersions -> RowRecord \cup {None}]
         /\ RowsTouched(t, S) \in SUBSET RowVersions
         /\ \A x \in RowsTouched(t, S) : row'[x] # None
         /\ \A u \in TableVersions : \A x \in rowsOf[u] :
              row'[x] # None /\ (row[x].readonly => row'[x] = row[x])
<1> DEFINE w == TouchRows(S)
           source(y) == CHOOSE x \in S : w[x] = y
           saved(y) == [createdId |-> row[source(y)].createdId, id |-> name[source(y)],
                        readonly |-> FALSE, data |-> data[source(y)]]
<1>1. w \in RowTouches(S)
  BY DEF TouchRows
<1>2. /\ w \in [S -> RowVersions]
      /\ \A x \in S : IF row[x].readonly THEN row[w[x]] = None ELSE w[x] = x
  BY <1>1 DEF RowTouches, Injection, Unused, Live, IInv, TypeOK
<1>3. Range(w) = {w[x] : x \in S}
  BY <1>2 DEF Range
<1>4. /\ S \subseteq RowVersions
      /\ \A x \in S : row[x] \in RowRecord
      /\ \A u \in TableVersions : \A x \in rowsOf[u] : x \in RowVersions /\ row[x] # None
  BY DEF IInv, TypeOK, CommittedIsReadonly
<1>5. \A y \in Range(w) : saved(y) \in RowRecord
  <2>1. \A y \in Range(w) : source(y) \in S
    BY <1>3
  <2> HIDE DEF source
  <2>2. QED
    BY <2>1, <1>4 DEF RowRecord
<1>6. row' = [y \in RowVersions |-> IF y \in Range(w) THEN saved(y) ELSE row[y]]
  BY DEF SaveRows
<1> HIDE DEF saved, w
<1>7. row' \in [RowVersions -> RowRecord \cup {None}]
  BY <1>5, <1>6 DEF IInv, TypeOK
<1>8. \A y \in Range(w) : y \in RowVersions /\ row'[y] # None
  BY <1>2, <1>3, <1>5, <1>6, NoneAssumption
<1>9. \A y \in RowVersions \ Range(w) : row'[y] = row[y]
  BY <1>6
<1>10. \A y \in Range(w) : row[y] = None \/ ~row[y].readonly
  BY <1>2, <1>3
<1>11. RowsTouched(t, S) = (rowsOf[t] \ S) \cup Range(w)
  BY DEF RowsTouched, w
<1>12. QED
  BY <1>4, <1>7, <1>8, <1>9, <1>10, <1>11

-----------------------------------------------------------------------------
(* One lemma per operation. *)

\* A new table is mutable, has no rows, and only the draft links it.
LEMMA CreateTableKeeps ==
  ASSUME IInv, NEW r \in RevisionIds, NEW n \in TableIds, CreateTable(r, n)
  PROVE  IInv' /\ KeepsCommitted
<1> DEFINE v == NewId(table)
           c == CHOOSE k \in UnusedTableCreatedIds : TRUE
           new == [createdId |-> c, id |-> n, readonly |-> FALSE]
<1>1. v \in TableVersions /\ table[v] = None
  BY NewTableVersion DEF CreateTable, IInv
<1>2. new \in TableRecord /\ new # None /\ ~new.readonly
  <2>1. c \in TableCreatedIds
    BY DEF CreateTable, UnusedTableCreatedIds
  <2> HIDE DEF c
  <2>2. new \in TableRecord
    BY <2>1 DEF TableRecord
  <2>3. QED
    BY <2>2, NoneAssumption
<1>3. /\ table' = [table EXCEPT ![v] = new]
      /\ tablesOf' = [tablesOf EXCEPT ![r] = @ \cup {v}]
      /\ UNCHANGED <<row, rowsOf>>
      /\ IsDraft(r)
  BY DEF CreateTable
<1>4. /\ revision' \in [RevisionIds -> RevisionRecord \cup {None}]
      /\ \A q \in RevisionIds :
           /\ IsLive(q)' = IsLive(q) /\ IsDraft(q)' = IsDraft(q)
           /\ IsHead(q)' = IsHead(q) /\ Committed(q)' = Committed(q)
  BY MarkChangedKeeps DEF CreateTable, MarkChanged
<1> HIDE DEF v, new
<1>5. TypeOK'
  BY <1>1, <1>2, <1>3, <1>4 DEF IInv, TypeOK
<1>6. HeadsAreCommitted'
  BY <1>4 DEF IInv, HeadsAreCommitted
<1>7. CommittedIsReadonly'
  <2>1. \A q \in RevisionIds : v \notin tablesOf[q]
    BY <1>1 DEF IInv, CommittedIsReadonly
  <2>2. \A u \in TableVersions : table'[u] = IF u = v THEN new ELSE table[u]
    BY <1>3 DEF IInv, TypeOK
  <2>3. \A q \in RevisionIds :
          tablesOf'[q] = IF q = r THEN tablesOf[r] \cup {v} ELSE tablesOf[q]
    BY <1>3 DEF IInv, TypeOK
  <2>4. IsLive(r) /\ ~Committed(r)
    BY <1>3 DEF IsDraft, Committed
  <2>5. rowsOf[v] = {}
    BY <1>1 DEF IInv, TypeOK, CommittedIsReadonly
  <2>6. tablesOf \in [RevisionIds -> SUBSET TableVersions] /\ row' = row /\ rowsOf' = rowsOf
    BY <1>3 DEF IInv, TypeOK
  <2>7. QED
    BY <1>1, <1>2, <1>4, <2>1, <2>2, <2>3, <2>4, <2>5, <2>6 DEF IInv, CommittedIsReadonly
<1>8. KeepsCommitted
  BY <1>1, <1>3 DEF KeepsCommitted, IInv, TypeOK, CommittedIsReadonly, IsDraft, Committed
<1>9. QED
  BY <1>5, <1>6, <1>7, <1>8 DEF IInv

\* A rename saves the table with the rows it has.
LEMMA RenameTableKeeps ==
  ASSUME IInv, NEW r \in RevisionIds, NEW t \in tablesOf[r], NEW n \in TableIds,
         RenameTable(r, t, n)
  PROVE  IInv' /\ KeepsCommitted
<1>1. t \in TableVersions /\ rowsOf[t] \in SUBSET RowVersions
  BY DEF IInv, TypeOK
<1>2. row' = row /\ row' \in [RowVersions -> RowRecord \cup {None}]
  BY DEF RenameTable, IInv, TypeOK
<1>3. \A u \in TableVersions : \A x \in rowsOf[u] : row'[x] # None
  BY <1>2 DEF IInv, CommittedIsReadonly
<1>4. QED
  BY <1>1, <1>2, <1>3, SaveTableKeeps DEF RenameTable

\* A new row is a version that nothing links yet.
LEMMA CreateRowKeeps ==
  ASSUME IInv, NEW r \in RevisionIds, NEW t \in tablesOf[r],
         NEW n \in RowIds, NEW d \in Data, CreateRow(r, t, n, d)
  PROVE  IInv' /\ KeepsCommitted
<1> DEFINE v == NewId(row)
           c == CHOOSE k \in UnusedRowCreatedIds : TRUE
           new == [createdId |-> c, id |-> n, readonly |-> FALSE, data |-> d]
<1>1. v \in RowVersions /\ row[v] = None
  BY NewRowVersion DEF CreateRow, IInv
<1>2. new \in RowRecord /\ new # None
  <2>1. c \in RowCreatedIds
    BY DEF CreateRow, UnusedRowCreatedIds
  <2> HIDE DEF c
  <2>2. new \in RowRecord
    BY <2>1 DEF RowRecord
  <2>3. QED
    BY <2>2, NoneAssumption
<1>3. row' = [row EXCEPT ![v] = new]
  BY DEF CreateRow
<1> HIDE DEF new
<1>4. /\ row' \in [RowVersions -> RowRecord \cup {None}]
      /\ row'[v] # None
      /\ \A x \in RowVersions \ {v} : row'[x] = row[x]
  BY <1>1, <1>2, <1>3 DEF IInv, TypeOK
<1> HIDE DEF v
<1>5. \A u \in TableVersions : \A x \in rowsOf[u] : row'[x] = row[x] /\ row[x] # None
  BY <1>1, <1>4 DEF IInv, TypeOK, CommittedIsReadonly
<1>6. t \in TableVersions /\ table[t].id \in TableIds
  BY DraftTableFacts DEF CreateRow, TableRecord
<1>7. rowsOf[t] \cup {v} \in SUBSET RowVersions
  BY <1>1, <1>6 DEF IInv, TypeOK
<1>8. \A x \in rowsOf[t] \cup {v} : row'[x] # None
  BY <1>4, <1>5, <1>6
<1>9. SaveTable(r, t, table[t].id, rowsOf[t] \cup {v})
  BY DEF CreateRow, v
<1>10. QED
  BY <1>4, <1>5, <1>6, <1>7, <1>8, <1>9, SaveTableKeeps DEF CreateRow

\* The rows a readonly table shares are cloned, never written.
LEMMA UpdateRowsKeeps ==
  ASSUME IInv, NEW r \in RevisionIds, NEW t \in tablesOf[r],
         NEW S, NEW d \in Data, UpdateRows(r, t, S, d)
  PROVE  IInv' /\ KeepsCommitted
<1> DEFINE name == [x \in S |-> row[x].id]
           data == [x \in S |-> d]
<1>1. t \in TableVersions /\ table[t].id \in TableIds /\ S \in SUBSET rowsOf[t]
  BY DraftTableFacts DEF UpdateRows, TableRecord
<1>2. \A x \in S : row[x] \in RowRecord
  BY <1>1 DEF IInv, TypeOK, CommittedIsReadonly
<1>3. name \in [S -> RowIds] /\ data \in [S -> Data]
  BY <1>2 DEF RowRecord
<1>4. SaveRows(S, name, data) /\ RowTouches(S) # {}
  BY DEF UpdateRows
<1> HIDE DEF name, data
<1>5. /\ row' \in [RowVersions -> RowRecord \cup {None}]
      /\ RowsTouched(t, S) \in SUBSET RowVersions
      /\ \A x \in RowsTouched(t, S) : row'[x] # None
      /\ \A u \in TableVersions : \A x \in rowsOf[u] :
           row'[x] # None /\ (row[x].readonly => row'[x] = row[x])
  BY <1>1, <1>3, <1>4, SaveRowsFacts
<1>6. QED
  BY <1>1, <1>5, SaveTableKeeps DEF UpdateRows

\* The same, under other names.
LEMMA RenameRowsKeeps ==
  ASSUME IInv, NEW r \in RevisionIds, NEW t \in tablesOf[r],
         NEW S, NEW name \in [S -> RowIds], RenameRows(r, t, S, name)
  PROVE  IInv' /\ KeepsCommitted
<1> DEFINE data == [x \in S |-> row[x].data]
<1>1. t \in TableVersions /\ table[t].id \in TableIds /\ S \in SUBSET rowsOf[t]
  BY DraftTableFacts DEF RenameRows, TableRecord
<1>2. \A x \in S : row[x] \in RowRecord
  BY <1>1 DEF IInv, TypeOK, CommittedIsReadonly
<1>3. data \in [S -> Data]
  BY <1>2 DEF RowRecord
<1>4. SaveRows(S, name, data) /\ RowTouches(S) # {}
  BY DEF RenameRows
<1> HIDE DEF data
<1>5. /\ row' \in [RowVersions -> RowRecord \cup {None}]
      /\ RowsTouched(t, S) \in SUBSET RowVersions
      /\ \A x \in RowsTouched(t, S) : row'[x] # None
      /\ \A u \in TableVersions : \A x \in rowsOf[u] :
           row'[x] # None /\ (row[x].readonly => row'[x] = row[x])
  BY <1>1, <1>3, <1>4, SaveRowsFacts
<1>6. QED
  BY <1>1, <1>5, SaveTableKeeps DEF RenameRows

\* The draft links what is left of it or tables of the head, which are readonly;
\* the rows that go are mutable, so no committed revision has them.
LEMMA RemoveRowsKeeps ==
  ASSUME IInv, NEW r \in RevisionIds, NEW t \in tablesOf[r],
         NEW S, RemoveRows(r, t, S)
  PROVE  IInv' /\ KeepsCommitted
<1> DEFINE v == DraftTable(t)
           removed == {x \in S : ~row[x].readonly}
           kept == rowsOf[t] \ S
           inHead == UNION {Named(h, table[t].id) :
                        h \in {q \in RevisionsOf(revision[r].branch) : IsHead(q)}}
           new == [createdId |-> table[t].createdId, id |-> table[t].id, readonly |-> FALSE]
<1>1. /\ t \in TableVersions /\ table[t] \in TableRecord /\ v \in TableVersions
      /\ table[t].readonly => table[v] = None
      /\ ~table[t].readonly => v = t
  BY DraftTableFacts DEF RemoveRows
<1>2. new \in TableRecord /\ new # None /\ ~new.readonly
  <2>1. new \in TableRecord
    BY <1>1 DEF TableRecord
  <2>2. QED
    BY <2>1, NoneAssumption
<1>3. /\ table' = [table EXCEPT ![v] = new]
      /\ row' = [x \in RowVersions |-> IF x \in removed THEN None ELSE row[x]]
      /\ rowsOf' = [u \in TableVersions |-> IF u = v THEN kept ELSE rowsOf[u] \ removed]
      /\ IsDraft(r) /\ S \subseteq rowsOf[t]
  BY DEF RemoveRows
<1>4. PICK linked \in {inHead, {v}} : tablesOf' = [tablesOf EXCEPT ![r] = (@ \ {t}) \cup linked]
  <2>1. AfterRemoval(r, t, kept, removed) \in {inHead, {v}}
    BY Zenon DEF AfterRemoval
  <2>2. QED
    BY <2>1 DEF RemoveRows
<1>5. /\ revision' \in [RevisionIds -> RevisionRecord \cup {None}]
      /\ \A q \in RevisionIds :
           /\ IsLive(q)' = IsLive(q) /\ IsDraft(q)' = IsDraft(q)
           /\ IsHead(q)' = IsHead(q) /\ Committed(q)' = Committed(q)
  <2>1. TableSetsDiffer(table', tablesOf'[revision[r].parent], tablesOf'[r]) \in BOOLEAN
    BY DEF TableSetsDiffer
  <2>2. UpdateHasChanges(r) /\ IsDraft(r)
    BY DEF RemoveRows
  <2>3. QED
    BY <2>1, <2>2, MarkChangedKeeps DEF UpdateHasChanges
<1>6. \A u \in inHead : u \in TableVersions /\ table[u] # None /\ table[u].readonly
  <2>1. ASSUME NEW q \in RevisionIds, IsHead(q), NEW u \in tablesOf[q]
        PROVE  u \in TableVersions /\ table[u] # None /\ table[u].readonly
    BY <2>1 DEF IInv, TypeOK, CommittedIsReadonly, HeadsAreCommitted, Committed, IsDraft, IsHead
  <2>2. RevisionsOf(revision[r].branch) \subseteq RevisionIds
    BY DEF RevisionsOf, Live, IInv, TypeOK
  <2>3. QED
    BY <2>1, <2>2 DEF Named
<1> HIDE DEF v, new, inHead
<1>7. /\ \A u \in TableVersions : table'[u] = IF u = v THEN new ELSE table[u]
      /\ \A q \in RevisionIds \ {r} : tablesOf'[q] = tablesOf[q]
      /\ tablesOf'[r] = (tablesOf[r] \ {t}) \cup linked
      /\ linked \subseteq inHead \cup {v}
  BY <1>1, <1>3, <1>4 DEF IInv, TypeOK
<1>8. TypeOK'
  BY <1>1, <1>2, <1>3, <1>4, <1>5, <1>6 DEF IInv, TypeOK
<1>9. HeadsAreCommitted'
  BY <1>5 DEF IInv, HeadsAreCommitted
<1>10. IsLive(r) /\ ~Committed(r)
  BY <1>3 DEF IsDraft, Committed
<1>11. \A q \in RevisionIds : Committed(q) => v \notin tablesOf[q]
  BY <1>1 DEF IInv, CommittedIsReadonly
<1>12. \A x \in removed : x \in RowVersions /\ ~row[x].readonly
  BY <1>1, <1>3 DEF IInv, TypeOK
<1>13. CommittedIsReadonly'
  <2>1. ASSUME NEW q \in RevisionIds, NEW u \in tablesOf'[q]
        PROVE  /\ IsLive(q)' /\ table'[u] # None
               /\ Committed(q)' => table'[u].readonly
    <3>1. CASE q = r
      <4>1. IsLive(q)' /\ ~Committed(q)'
        BY <1>5, <1>10, <3>1
      <4>2. u \in tablesOf[r] \/ u \in inHead \/ u = v
        BY <1>7, <2>1, <3>1
      <4>3. u \in TableVersions /\ (u = v \/ table[u] # None)
        BY <1>1, <1>6, <4>2 DEF IInv, CommittedIsReadonly, TypeOK
      <4>4. QED
        BY <1>2, <1>7, <4>1, <4>3
    <3>2. CASE q # r
      BY <1>2, <1>5, <1>7, <1>11, <2>1, <3>2 DEF IInv, CommittedIsReadonly, TypeOK
    <3>3. QED
      BY <3>1, <3>2
  <2>2. ASSUME NEW u \in TableVersions, NEW x \in rowsOf'[u]
        PROVE  /\ table'[u] # None /\ row'[x] # None
               /\ table'[u].readonly => row'[x].readonly
    <3>1. x \in RowVersions \ removed
      BY <1>1, <1>3, <2>2 DEF IInv, TypeOK
    <3>2. row'[x] = row[x]
      BY <1>3, <3>1
    <3>3. QED
      BY <1>1, <1>2, <1>3, <1>7, <2>2, <3>2 DEF IInv, CommittedIsReadonly
  <2>3. QED
    BY <2>1, <2>2 DEF CommittedIsReadonly
<1>14. KeepsCommitted
  <2>1. ASSUME NEW q \in RevisionIds, Committed(q), NEW u \in tablesOf[q]
        PROVE  /\ tablesOf'[q] = tablesOf[q] /\ table'[u] = table[u]
               /\ rowsOf'[u] = rowsOf[u]
               /\ \A x \in rowsOf[u] : row'[x] = row[x]
    <3>1. q # r /\ u # v /\ u \in TableVersions
      BY <1>10, <1>11, <2>1 DEF IInv, TypeOK
    <3>2. \A x \in rowsOf[u] : x \in RowVersions \ removed
      BY <1>12, <2>1, <3>1 DEF IInv, TypeOK, CommittedIsReadonly
    <3>3. QED
      BY <1>3, <1>7, <3>1, <3>2
  <2>2. \A q \in RevisionIds : Committed(q) => tablesOf'[q] = tablesOf[q]
    BY <1>7, <1>10
  <2>3. QED
    BY <2>1, <2>2 DEF KeepsCommitted
<1>15. QED
  BY <1>8, <1>9, <1>13, <1>14 DEF IInv

\* A readonly table is unlinked from the draft; a mutable one no committed
\* revision links, so it goes with the rows that are its own.
LEMMA RemoveTableKeeps ==
  ASSUME IInv, NEW r \in RevisionIds, NEW t \in tablesOf[r], RemoveTable(r, t)
  PROVE  IInv' /\ KeepsCommitted
<1>1. /\ revision' \in [RevisionIds -> RevisionRecord \cup {None}]
      /\ \A q \in RevisionIds :
           /\ IsLive(q)' = IsLive(q) /\ IsDraft(q)' = IsDraft(q)
           /\ IsHead(q)' = IsHead(q) /\ Committed(q)' = Committed(q)
  <2>1. TableSetsDiffer(table', tablesOf'[revision[r].parent], tablesOf'[r]) \in BOOLEAN
    BY DEF TableSetsDiffer
  <2>2. UpdateHasChanges(r) /\ IsDraft(r)
    BY DEF RemoveTable
  <2>3. QED
    BY <2>1, <2>2, MarkChangedKeeps DEF UpdateHasChanges
<1>2. IsLive(r) /\ ~Committed(r) /\ t \in TableVersions
  BY DEF RemoveTable, IsDraft, Committed, IInv, TypeOK
<1>3. HeadsAreCommitted'
  BY <1>1 DEF IInv, HeadsAreCommitted
<1>4. CASE table[t].readonly
  <2>1. tablesOf' = [tablesOf EXCEPT ![r] = @ \ {t}] /\ UNCHANGED <<table, row, rowsOf>>
    BY <1>4 DEF RemoveTable
  <2>2. TypeOK'
    BY <1>1, <2>1 DEF IInv, TypeOK
  <2>3. CommittedIsReadonly'
    BY <1>1, <2>1 DEF IInv, TypeOK, CommittedIsReadonly
  <2>4. KeepsCommitted
    BY <1>1, <1>2, <2>1 DEF KeepsCommitted, IInv, TypeOK
  <2>5. QED
    BY <1>3, <2>2, <2>3, <2>4 DEF IInv
<1>5. CASE ~table[t].readonly
  <2> DEFINE gone == {x \in rowsOf[t] : \A u \in TableVersions \ {t} : x \notin rowsOf[u]}
  <2>1. /\ tablesOf' = [q \in RevisionIds |-> tablesOf[q] \ {t}]
        /\ table' = [table EXCEPT ![t] = None]
        /\ row' = [x \in RowVersions |-> IF x \in gone THEN None ELSE row[x]]
        /\ rowsOf' = [rowsOf EXCEPT ![t] = {}]
    BY <1>5 DEF RemoveTable
  <2>2. TypeOK'
    BY <1>1, <2>1 DEF IInv, TypeOK
  <2>3. \A u \in TableVersions \ {t} : table'[u] = table[u] /\ rowsOf'[u] = rowsOf[u]
    BY <2>1 DEF IInv, TypeOK
  <2>4. \A u \in TableVersions \ {t} : \A x \in rowsOf[u] : row'[x] = row[x]
    BY <2>1 DEF IInv, TypeOK
  <2>5. rowsOf'[t] = {}
    BY <1>2, <2>1 DEF IInv, TypeOK
  <2>6. \A q \in RevisionIds : tablesOf'[q] = tablesOf[q] \ {t}
    BY <2>1
  <2>7. \A q \in RevisionIds : Committed(q) => t \notin tablesOf[q]
    BY <1>5 DEF IInv, CommittedIsReadonly
  <2>8. CommittedIsReadonly'
    BY <1>1, <2>2, <2>3, <2>4, <2>5, <2>6 DEF IInv, TypeOK, CommittedIsReadonly
  <2>9. KeepsCommitted
    <3>1. ASSUME NEW q \in RevisionIds, Committed(q), NEW u \in tablesOf[q]
          PROVE  /\ table'[u] = table[u] /\ rowsOf'[u] = rowsOf[u]
                 /\ \A x \in rowsOf[u] : row'[x] = row[x]
      BY <2>3, <2>4, <2>7, <3>1 DEF IInv, TypeOK
    <3>2. \A q \in RevisionIds : Committed(q) => tablesOf'[q] = tablesOf[q]
      BY <2>6, <2>7
    <3>3. QED
      BY <3>1, <3>2 DEF KeepsCommitted
  <2>10. QED
    BY <1>3, <2>2, <2>8, <2>9 DEF IInv
<1>6. QED
  BY <1>4, <1>5

\* The draft links what the head links, which is readonly.
LEMMA RevertKeeps ==
  ASSUME IInv, NEW b \in Branches, NEW h \in RevisionIds, NEW r \in RevisionIds,
         Revert(b, h, r)
  PROVE  IInv' /\ KeepsCommitted
<1>1. /\ revision' \in [RevisionIds -> RevisionRecord \cup {None}]
      /\ \A q \in RevisionIds :
           /\ IsLive(q)' = IsLive(q) /\ IsDraft(q)' = IsDraft(q)
           /\ IsHead(q)' = IsHead(q) /\ Committed(q)' = Committed(q)
  BY MarkChangedKeeps DEF Revert
<1>2. /\ tablesOf' = [tablesOf EXCEPT ![r] = tablesOf[h]]
      /\ UNCHANGED <<table, row, rowsOf>>
      /\ IsLive(r) /\ ~Committed(r)
  BY DEF Revert, IsDraft, Committed
<1>3. TypeOK'
  BY <1>1, <1>2 DEF IInv, TypeOK
<1>4. HeadsAreCommitted'
  BY <1>1 DEF IInv, HeadsAreCommitted
<1>5. CommittedIsReadonly'
  BY <1>1, <1>2 DEF IInv, TypeOK, CommittedIsReadonly
<1>6. KeepsCommitted
  BY <1>1, <1>2 DEF KeepsCommitted, IInv, TypeOK
<1>7. QED
  BY <1>3, <1>4, <1>5, <1>6 DEF IInv

\* Whatever the new head reaches is locked: the draft's tables are; a row of a
\* table the draft had cloned is locked with it unless the head's version links
\* it, and then it is locked already.
LEMMA CommitKeeps ==
  ASSUME IInv, NEW b \in Branches, NEW h \in RevisionIds, NEW r \in RevisionIds,
         Commit(b, h, r)
  PROVE  IInv' /\ KeepsCommitted
<1> DEFINE new == OpenNextDraft(b, r)
           oldHead == RetireHead(h)
           newHead == PromoteDraftToHead(r)
           locked == RowsToLock(h, r)
<1>1. PICK n \in RevisionIds : n = NewId(revision) /\ revision[n] = None
  BY NewRevision DEF Commit, IInv
<1>2. /\ revision[h] \in RevisionRecord /\ revision[r] \in RevisionRecord
      /\ revision[r].isDraft /\ ~revision[h].isDraft
      /\ Committed(h) /\ h # r /\ n # h /\ n # r
  BY <1>1 DEF Commit, IInv, TypeOK, HeadsAreCommitted, IsHead, IsDraft, IsLive, Committed
<1>3. /\ new \in RevisionRecord /\ new.isDraft /\ ~new.isHead
      /\ oldHead \in RevisionRecord /\ ~oldHead.isDraft /\ ~oldHead.isHead
      /\ newHead \in RevisionRecord /\ ~newHead.isDraft
  BY <1>2 DEF RevisionRecord, OpenNextDraft, RetireHead, PromoteDraftToHead
<1>4. /\ revision' = [revision EXCEPT ![h] = oldHead, ![r] = newHead, ![n] = new]
      /\ tablesOf' = [tablesOf EXCEPT ![n] = tablesOf[r]]
      /\ row' = [x \in RowVersions |->
                   IF x \in locked THEN [row[x] EXCEPT !.readonly = TRUE] ELSE row[x]]
      /\ table' = [t \in TableVersions |->
                     IF t \in tablesOf[r] THEN [table[t] EXCEPT !.readonly = TRUE] ELSE table[t]]
      /\ rowsOf' = rowsOf
  BY <1>1 DEF Commit, LockRows, LockTables
<1> HIDE DEF new, oldHead, newHead
<1>5. /\ revision'[h] = oldHead /\ revision'[r] = newHead /\ revision'[n] = new
      /\ \A q \in RevisionIds \ {h, r, n} : revision'[q] = revision[q]
  BY <1>1, <1>2, <1>4 DEF IInv, TypeOK
<1>6. /\ revision' \in [RevisionIds -> RevisionRecord \cup {None}]
      /\ tablesOf' \in [RevisionIds -> SUBSET TableVersions]
  BY <1>3, <1>4 DEF IInv, TypeOK
<1>7. \A t \in tablesOf[r] : t \in TableVersions /\ table[t] \in TableRecord
  BY DEF IInv, TypeOK, CommittedIsReadonly
<1>8. ASSUME NEW t \in TableVersions
      PROVE  /\ table[t] # None => /\ table'[t] \in TableRecord /\ table'[t] # None
                                   /\ table'[t].createdId = table[t].createdId
                                   /\ table'[t].id = table[t].id
             /\ table[t] = None => table'[t] = None
             /\ t \in tablesOf[r] => table'[t].readonly
             /\ t \notin tablesOf[r] => table'[t] = table[t]
  <2>1. CASE t \in tablesOf[r]
    <3>1. table[t] \in TableRecord /\ table'[t] = [table[t] EXCEPT !.readonly = TRUE]
      BY <1>4, <1>7, <2>1
    <3>2. QED
      BY <2>1, <3>1, NoneAssumption DEF TableRecord
  <2>2. CASE t \notin tablesOf[r]
    <3>1. table'[t] = table[t] /\ (table[t] # None => table[t] \in TableRecord)
      BY <1>4, <2>2 DEF IInv, TypeOK
    <3>2. QED
      BY <2>2, <3>1
  <2>3. QED
    BY <2>1, <2>2
<1>9. \A t \in TableVersions : \A x \in rowsOf[t] : x \in RowVersions /\ row[x] \in RowRecord
  BY DEF IInv, TypeOK, CommittedIsReadonly
<1>10. \A x \in locked : x \in RowVersions /\ row[x] \in RowRecord
  BY <1>7, <1>9 DEF RowsToLock
<1>11. ASSUME NEW x \in RowVersions
       PROVE  /\ row[x] # None => /\ row'[x] \in RowRecord /\ row'[x] # None
                                  /\ row'[x].createdId = row[x].createdId
                                  /\ row'[x].id = row[x].id /\ row'[x].data = row[x].data
                                  /\ row[x].readonly => row'[x].readonly
              /\ row[x] = None => row'[x] = None
              /\ x \in locked => row'[x].readonly
  <2>1. CASE x \in locked
    <3>1. row[x] \in RowRecord /\ row'[x] = [row[x] EXCEPT !.readonly = TRUE]
      BY <1>4, <1>10, <2>1
    <3>2. QED
      BY <2>1, <3>1, NoneAssumption DEF RowRecord
  <2>2. CASE x \notin locked
    <3>1. row'[x] = row[x] /\ (row[x] # None => row[x] \in RowRecord)
      BY <1>4, <2>2 DEF IInv, TypeOK
    <3>2. QED
      BY <2>2, <3>1
  <2>3. QED
    BY <2>1, <2>2
<1>12. TypeOK'
  BY <1>4, <1>6, <1>8, <1>11 DEF IInv, TypeOK
<1>13. \A q \in RevisionIds \ {h, r, n} :
         /\ IsLive(q)' = IsLive(q) /\ IsDraft(q)' = IsDraft(q)
         /\ IsHead(q)' = IsHead(q) /\ Committed(q)' = Committed(q)
  BY <1>5 DEF IsLive, IsDraft, IsHead, Committed
<1>14. /\ IsLive(h)' /\ Committed(h)' /\ ~IsHead(h)'
       /\ IsLive(r)' /\ Committed(r)'
       /\ IsLive(n)' /\ IsDraft(n)' /\ ~IsHead(n)' /\ ~Committed(n)'
       /\ ~IsDraft(r)'
  BY <1>3, <1>5, NoneAssumption DEF IsLive, IsDraft, IsHead, Committed
<1>15. HeadsAreCommitted'
  BY <1>13, <1>14 DEF IInv, HeadsAreCommitted
<1>16. \A t \in tablesOf[r] : \A x \in rowsOf[t] : row'[x].readonly
  <2>1. SUFFICES ASSUME NEW t \in tablesOf[r], NEW x \in rowsOf[t]
                 PROVE  x \in locked \/ row[x].readonly
    BY <1>7, <1>9, <1>11, NoneAssumption
  <2>2. CASE table[t].readonly
    BY <1>7, <2>2 DEF IInv, CommittedIsReadonly
  <2>3. CASE ~table[t].readonly /\ x \notin locked
    <3>1. PICK u \in tablesOf[h] : table[u].readonly /\ x \in rowsOf[u]
      BY <2>3 DEF RowsToLock
    <3>2. QED
      BY <3>1 DEF IInv, TypeOK, CommittedIsReadonly
  <2>4. QED
    BY <2>2, <2>3
<1>17. CommittedIsReadonly'
  <2>1. ASSUME NEW q \in RevisionIds, NEW t \in tablesOf'[q]
        PROVE  /\ IsLive(q)' /\ table'[t] # None
               /\ Committed(q)' => table'[t].readonly
    <3>1. CASE q = n \/ q = r
      BY <1>1, <1>2, <1>4, <1>7, <1>8, <1>14, <2>1, <3>1, NoneAssumption DEF IInv, TypeOK
    <3>2. CASE q # n /\ q # r
      <4>1. t \in tablesOf[q] /\ t \in TableVersions
        BY <1>4, <2>1, <3>2 DEF IInv, TypeOK
      <4>2. IsLive(q)' /\ table[t] # None /\ (Committed(q)' => table[t].readonly)
        BY <1>2, <1>13, <1>14, <3>2, <4>1 DEF IInv, CommittedIsReadonly
      <4>3. QED
        BY <1>8, <4>1, <4>2
    <3>3. QED
      BY <3>1, <3>2
  <2>2. ASSUME NEW t \in TableVersions, NEW x \in rowsOf'[t]
        PROVE  /\ table'[t] # None /\ row'[x] # None
               /\ table'[t].readonly => row'[x].readonly
    <3>1. x \in rowsOf[t] /\ x \in RowVersions
      BY <1>4, <2>2 DEF IInv, TypeOK
    <3>2. table[t] # None /\ row[x] # None /\ (table[t].readonly => row[x].readonly)
      BY <3>1 DEF IInv, CommittedIsReadonly
    <3>3. QED
      BY <1>8, <1>11, <1>16, <3>1, <3>2
  <2>3. QED
    BY <2>1, <2>2 DEF CommittedIsReadonly
<1>18. KeepsCommitted
  <2>1. ASSUME NEW q \in RevisionIds, Committed(q), NEW t \in tablesOf[q]
        PROVE  /\ t \in TableVersions /\ table[t] # None
               /\ \A x \in rowsOf[t] : x \in RowVersions /\ row[x] # None
    BY <2>1 DEF IInv, TypeOK, CommittedIsReadonly
  <2>2. \A q \in RevisionIds : Committed(q) => tablesOf'[q] = tablesOf[q]
    BY <1>1, <1>4 DEF IInv, TypeOK, Committed, IsLive
  <2>3. QED
    BY <1>4, <1>8, <1>11, <2>1, <2>2 DEF KeepsCommitted
<1>19. QED
  BY <1>12, <1>15, <1>17, <1>18 DEF IInv

\* The branch's head and draft link what a committed revision links.
LEMMA CreateBranchKeeps ==
  ASSUME IInv, NEW source \in RevisionIds, NEW b \in Branches, CreateBranch(source, b)
  PROVE  IInv' /\ KeepsCommitted
<1>1. PICK h \in RevisionIds : h = NewId(revision) /\ revision[h] = None
  BY NewRevision DEF CreateBranch, IInv
<1>2. PICK d \in RevisionIds \ {h} :
        d = (CHOOSE k \in Unused(revision) \ {h} : TRUE) /\ revision[d] = None
  BY <1>1 DEF CreateBranch, Unused, Live, IInv, TypeOK
<1> DEFINE newHead == [branch |-> b, parent |-> source, isHead |-> TRUE, isDraft |-> FALSE,
                       isStart |-> TRUE, hasChanges |-> FALSE]
           newDraft == [branch |-> b, parent |-> h, isHead |-> FALSE, isDraft |-> TRUE,
                        isStart |-> FALSE, hasChanges |-> FALSE]
<1>3. /\ newHead \in RevisionRecord /\ ~newHead.isDraft
      /\ newDraft \in RevisionRecord /\ newDraft.isDraft /\ ~newDraft.isHead
  BY DEF RevisionRecord
<1>4. /\ revision' = [revision EXCEPT ![h] = newHead, ![d] = newDraft]
      /\ tablesOf' = [tablesOf EXCEPT ![h] = tablesOf[source], ![d] = tablesOf[source]]
      /\ UNCHANGED <<table, row, rowsOf>>
      /\ Committed(source)
  BY <1>1, <1>2 DEF CreateBranch
<1> HIDE DEF newHead, newDraft
<1>5. /\ revision'[h] = newHead /\ revision'[d] = newDraft
      /\ \A q \in RevisionIds \ {h, d} : revision'[q] = revision[q]
      /\ \A q \in RevisionIds \ {h, d} : tablesOf'[q] = tablesOf[q]
      /\ tablesOf'[h] = tablesOf[source] /\ tablesOf'[d] = tablesOf[source]
  BY <1>1, <1>2, <1>4 DEF IInv, TypeOK
<1>6. TypeOK'
  BY <1>3, <1>4 DEF IInv, TypeOK
<1>7. /\ \A q \in RevisionIds \ {h, d} :
           /\ IsLive(q)' = IsLive(q) /\ IsDraft(q)' = IsDraft(q)
           /\ IsHead(q)' = IsHead(q) /\ Committed(q)' = Committed(q)
      /\ IsLive(h)' /\ ~IsDraft(h)'
      /\ IsLive(d)' /\ IsDraft(d)' /\ ~IsHead(d)' /\ ~Committed(d)'
  BY <1>3, <1>5, NoneAssumption DEF IsLive, IsDraft, IsHead, Committed
<1>8. HeadsAreCommitted'
  BY <1>7 DEF IInv, HeadsAreCommitted
<1>9. CommittedIsReadonly'
  BY <1>4, <1>5, <1>7 DEF IInv, TypeOK, CommittedIsReadonly
<1>10. KeepsCommitted
  BY <1>1, <1>2, <1>4, <1>5 DEF KeepsCommitted, Committed, IsLive
<1>11. QED
  BY <1>6, <1>8, <1>9, <1>10 DEF IInv

\* Revisions go with their links; the others only lose a parent.
LEMMA DeleteBranchKeeps ==
  ASSUME IInv, NEW b \in Branches, DeleteBranch(b)
  PROVE  IInv' /\ KeepsCommitted
<1> DEFINE gone == RevisionsOf(b)
<1>1. /\ tablesOf' = [r \in RevisionIds |-> IF r \in gone THEN {} ELSE tablesOf[r]]
      /\ UNCHANGED <<table, row, rowsOf>>
      /\ DOMAIN revision' = RevisionIds
      /\ \A r \in RevisionIds :
           \/ r \in gone /\ revision'[r] = None
           \/ r \notin gone /\ revision'[r] = revision[r]
           \/ /\ r \notin gone /\ IsLive(r)
              /\ revision'[r] = [revision[r] EXCEPT !.parent = None]
      /\ revision' = [r \in RevisionIds |-> revision'[r]]
  BY DEF DeleteBranch
<1>2. ASSUME NEW r \in RevisionIds
      PROVE  /\ revision'[r] \in RevisionRecord \cup {None}
             /\ r \in gone => revision'[r] = None
             /\ r \notin gone =>
                  /\ (revision'[r] = None) = (revision[r] = None)
                  /\ revision'[r].isDraft = revision[r].isDraft
                  /\ revision'[r].isHead = revision[r].isHead
  <2>1. CASE IsLive(r) /\ revision'[r] = [revision[r] EXCEPT !.parent = None] /\ r \notin gone
    <3>1. revision[r] \in RevisionRecord
      BY <2>1 DEF IInv, TypeOK, IsLive
    <3>2. /\ revision'[r] \in RevisionRecord
          /\ revision'[r].isDraft = revision[r].isDraft
          /\ revision'[r].isHead = revision[r].isHead
      BY <2>1, <3>1 DEF RevisionRecord
    <3>3. QED
      BY <2>1, <3>1, <3>2, NoneAssumption
  <2>2. CASE revision'[r] = revision[r] /\ r \notin gone
    BY <2>2 DEF IInv, TypeOK
  <2>3. CASE revision'[r] = None /\ r \in gone
    BY <2>3
  <2>4. QED
    BY <1>1, <2>1, <2>2, <2>3
<1>3. TypeOK'
  BY <1>1, <1>2 DEF IInv, TypeOK
<1>4. \A r \in RevisionIds :
        /\ r \in gone => ~IsLive(r)' /\ ~IsDraft(r)' /\ ~IsHead(r)' /\ ~Committed(r)'
        /\ r \notin gone =>
             /\ IsLive(r)' = IsLive(r) /\ IsDraft(r)' = IsDraft(r)
             /\ IsHead(r)' = IsHead(r) /\ Committed(r)' = Committed(r)
  BY <1>2 DEF IsLive, IsDraft, IsHead, Committed
<1>5. HeadsAreCommitted'
  BY <1>4 DEF IInv, HeadsAreCommitted
<1>6. CommittedIsReadonly'
  BY <1>1, <1>4 DEF IInv, TypeOK, CommittedIsReadonly
<1>7. KeepsCommitted
  BY <1>1, <1>4 DEF KeepsCommitted
<1>8. QED
  BY <1>3, <1>5, <1>6, <1>7 DEF IInv

\* No revision links an orphan table.
LEMMA DeleteOrphanTablesKeeps ==
  ASSUME IInv, DeleteOrphanTables
  PROVE  IInv' /\ KeepsCommitted
<1> DEFINE orphans == {t \in Live(table) : \A r \in RevisionIds : t \notin tablesOf[r]}
<1>1. /\ table' = [t \in TableVersions |-> IF t \in orphans THEN None ELSE table[t]]
      /\ rowsOf' = [t \in TableVersions |-> IF t \in orphans THEN {} ELSE rowsOf[t]]
      /\ UNCHANGED <<revision, row, tablesOf>>
  BY DEF DeleteOrphanTables
<1>2. \A r \in RevisionIds : \A t \in tablesOf[r] : t \notin orphans /\ t \in TableVersions
  BY DEF IInv, TypeOK
<1> HIDE DEF orphans
<1>3. TypeOK'
  BY <1>1 DEF IInv, TypeOK
<1>4. \A r :
        /\ IsLive(r)' = IsLive(r) /\ IsDraft(r)' = IsDraft(r)
        /\ IsHead(r)' = IsHead(r) /\ Committed(r)' = Committed(r)
  BY <1>1 DEF IsLive, IsDraft, IsHead, Committed
<1>5. HeadsAreCommitted'
  BY <1>4 DEF IInv, HeadsAreCommitted
<1>6. CommittedIsReadonly'
  BY <1>1, <1>2, <1>4 DEF IInv, TypeOK, CommittedIsReadonly
<1>7. KeepsCommitted
  BY <1>1, <1>2 DEF KeepsCommitted
<1>8. QED
  BY <1>3, <1>5, <1>6, <1>7 DEF IInv

\* No table links an orphan row.
LEMMA DeleteOrphanRowsKeeps ==
  ASSUME IInv, DeleteOrphanRows
  PROVE  IInv' /\ KeepsCommitted
<1> DEFINE orphans == {x \in Live(row) : \A t \in TableVersions : x \notin rowsOf[t]}
<1>1. /\ row' = [x \in RowVersions |-> IF x \in orphans THEN None ELSE row[x]]
      /\ UNCHANGED <<revision, table, tablesOf, rowsOf>>
  BY DEF DeleteOrphanRows
<1>2. \A t \in TableVersions : \A x \in rowsOf[t] : x \in RowVersions /\ row'[x] = row[x]
  BY <1>1 DEF IInv, TypeOK
<1>3. TypeOK'
  BY <1>1 DEF IInv, TypeOK
<1>4. \A r :
        /\ IsLive(r)' = IsLive(r) /\ IsDraft(r)' = IsDraft(r)
        /\ IsHead(r)' = IsHead(r) /\ Committed(r)' = Committed(r)
  BY <1>1 DEF IsLive, IsDraft, IsHead, Committed
<1>5. HeadsAreCommitted'
  BY <1>4 DEF IInv, HeadsAreCommitted
<1>6. CommittedIsReadonly'
  BY <1>1, <1>2, <1>4 DEF IInv, TypeOK, CommittedIsReadonly
<1>7. KeepsCommitted
  BY <1>1, <1>2 DEF KeepsCommitted, IInv, TypeOK
<1>8. QED
  BY <1>3, <1>5, <1>6, <1>7 DEF IInv

-----------------------------------------------------------------------------

\* An empty project satisfies the invariant.
LEMMA InitEstablishes == Init => IInv
<1> SUFFICES ASSUME Init PROVE IInv
  OBVIOUS
<1>1. revision \in [RevisionIds -> RevisionRecord \cup {None}]
  BY RootAssumption DEF Init, RevisionRecord
<1>2. TypeOK
  BY <1>1 DEF Init, TypeOK
<1>3. HeadsAreCommitted
  BY RootAssumption DEF Init, HeadsAreCommitted, IsHead, IsDraft, IsLive
<1>4. CommittedIsReadonly
  BY DEF Init, CommittedIsReadonly
<1>5. QED
  BY <1>2, <1>3, <1>4 DEF IInv

\* Every operation keeps the invariant, and what committed revisions link.
LEMMA StepKeeps == IInv /\ Next => IInv' /\ KeepsCommitted
<1> SUFFICES ASSUME IInv, Next PROVE IInv' /\ KeepsCommitted
  OBVIOUS
<1>1. ASSUME NEW r \in RevisionIds, EditTables(r)
      PROVE  IInv' /\ KeepsCommitted
  BY <1>1, CreateTableKeeps, RemoveTableKeeps, RenameTableKeeps DEF EditTables
<1>2. ASSUME NEW r \in RevisionIds, EditRows(r)
      PROVE  IInv' /\ KeepsCommitted
  <2>1. PICK t \in tablesOf[r] :
          \/ \E n \in RowIds, d \in Data : CreateRow(r, t, n, d)
          \/ \E S \in (SUBSET rowsOf[t]) \ {{}} :
               \/ \E d \in Data : UpdateRows(r, t, S, d)
               \/ \E name \in Injection(S, RowIds) : RenameRows(r, t, S, name)
               \/ RemoveRows(r, t, S)
    BY <1>2 DEF EditRows
  <2>2. \A S : Injection(S, RowIds) \subseteq [S -> RowIds]
    BY DEF Injection
  <2>3. QED
    BY <2>1, <2>2, CreateRowKeeps, UpdateRowsKeeps, RenameRowsKeeps, RemoveRowsKeeps
<1>3. ASSUME NEW b \in Branches, NEW h \in RevisionIds, NEW r \in RevisionIds,
             Commit(b, h, r) \/ Revert(b, h, r)
      PROVE  IInv' /\ KeepsCommitted
  BY <1>3, CommitKeeps, RevertKeeps
<1>4. QED
  BY <1>1, <1>2, <1>3, CreateBranchKeeps, DeleteBranchKeeps,
     DeleteOrphanTablesKeeps, DeleteOrphanRowsKeeps DEF Next

\* The inductive invariant: the schema's types, that a head is no draft, and
\* that what a committed revision reaches is locked.
THEOREM InvariantHolds == Spec => []IInv
<1>1. Init => IInv
  BY InitEstablishes
<1>2. IInv /\ [Next]_vars => IInv'
  <2>1. IInv /\ UNCHANGED vars => IInv'
    BY DEF vars, IInv, TypeOK, HeadsAreCommitted, CommittedIsReadonly,
           IsHead, IsDraft, IsLive, Committed
  <2>2. QED
    BY <2>1, StepKeeps
<1>3. QED
  BY <1>1, <1>2, PTL DEF Spec

\* The database is well formed in every reachable state.
THEOREM TypeCorrect == Spec => []TypeOK
<1>1. IInv => TypeOK
  BY DEF IInv
<1>2. QED
  BY <1>1, InvariantHolds, PTL

\* No link dangles, and nothing a committed revision reaches can be edited in place.
THEOREM CommittedStaysReadonly == Spec => []CommittedIsReadonly
<1>1. IInv => CommittedIsReadonly
  BY DEF IInv
<1>2. QED
  BY <1>1, InvariantHolds, PTL

\* A step that leaves a committed revision's tables and rows alone leaves what
\* it says.
LEMMA SameSnapshot ==
  ASSUME KeepsCommitted, NEW r \in RevisionIds, Committed(r), IsLive(r)'
  PROVE  Snapshot(r)' = Snapshot(r)
<1>1. \A t \in tablesOf[r] : TableSnapshot(t)' = TableSnapshot(t)
  <2>1. SUFFICES ASSUME NEW t \in tablesOf[r]
                 PROVE  TableSnapshot(t)' = TableSnapshot(t)
    OBVIOUS
  <2>2. \A x \in rowsOf[t] : RowSnapshot(x)' = RowSnapshot(x)
    BY DEF KeepsCommitted, RowSnapshot
  <2>3. {RowSnapshot(x) : x \in rowsOf[t]}' = {RowSnapshot(x) : x \in rowsOf[t]}
    BY <2>2 DEF KeepsCommitted
  <2>4. QED
    BY <2>3 DEF KeepsCommitted, TableSnapshot
<1>2. QED
  BY <1>1 DEF KeepsCommitted, Snapshot

\* No operation on any branch, and no cleanup, changes what a committed
\* revision says.
THEOREM CommittedIsImmutable == Spec => CommittedNeverChanges
<1>1. IInv /\ [Next]_vars =>
        [\A r \in RevisionIds : Committed(r) /\ IsLive(r)' => Snapshot(r)' = Snapshot(r)]_vars
  BY StepKeeps, SameSnapshot
<1>2. QED
  BY <1>1, InvariantHolds, PTL DEF Spec, CommittedNeverChanges

-----------------------------------------------------------------------------
(* The shape of a history: each branch has one head and one draft on it, and *)
(* only a branch's first revision has a parent elsewhere. *)

\* A branch's revisions follow each other; only its start follows another's.
\* The draft's handlers read its parent without looking at its branch.
ParentsInBranch ==
  \A r \in RevisionIds : IsLive(r) /\ ~revision[r].isStart =>
    /\ revision[r].parent \in RevisionIds /\ IsLive(revision[r].parent)
    /\ revision[revision[r].parent].branch = revision[r].branch

BInv == DraftFollowsHead /\ ParentsInBranch

\* This revision is left alone, but for hasChanges.
SamePlace(q) ==
  /\ IsLive(q)' = IsLive(q)
  /\ IsLive(q) =>
       /\ revision'[q].branch = revision[q].branch
       /\ revision'[q].parent = revision[q].parent
       /\ revision'[q].isHead = revision[q].isHead
       /\ revision'[q].isDraft = revision[q].isDraft
       /\ revision'[q].isStart = revision[q].isStart

-----------------------------------------------------------------------------
(* What the shape says, revision by revision. *)

\* A branch's head and draft are its only ones, and the draft follows the head.
LEMMA HeadAndDraft ==
  ASSUME DraftFollowsHead, NEW b \in Branches,
         NEW q \in RevisionIds, IsLive(q), revision[q].branch = b
  PROVE  \E h, d \in RevisionIds :
           /\ IsHead(h) /\ revision[h].branch = b
           /\ IsDraft(d) /\ revision[d].branch = b
           /\ revision[d].parent = h /\ h # d
           /\ \A r \in RevisionIds : IsHead(r) /\ revision[r].branch = b => r = h
           /\ \A r \in RevisionIds : IsDraft(r) /\ revision[r].branch = b => r = d
           /\ \A r \in RevisionIds : IsLive(r) /\ revision[r].branch = b /\ revision[r].hasChanges => r = d
<1>1. q \in RevisionsOf(b)
  BY DEF RevisionsOf
<1>2. PICK h, d \in RevisionsOf(b) :
        /\ IsHead(h) /\ IsDraft(d)
        /\ revision[d].parent = h /\ h # d
        /\ \A r \in RevisionsOf(b) \ {h} : ~revision[r].isHead
        /\ \A r \in RevisionsOf(b) \ {d} : ~revision[r].isDraft /\ ~revision[r].hasChanges
  BY <1>1 DEF DraftFollowsHead
<1>3. h \in RevisionIds /\ d \in RevisionIds /\ revision[h].branch = b /\ revision[d].branch = b
  BY DEF RevisionsOf
<1>4. QED
  BY <1>2, <1>3 DEF RevisionsOf, IsHead, IsDraft

\* A draft is given: its parent is the one head of its branch.
LEMMA DraftOnHead ==
  ASSUME IInv, DraftFollowsHead, NEW d \in RevisionIds, IsDraft(d)
  PROVE  /\ revision[d].branch \in Branches
         /\ revision[d].parent \in RevisionIds /\ IsHead(revision[d].parent)
         /\ revision[revision[d].parent].branch = revision[d].branch
         /\ revision[d].parent # d
         /\ \A h \in RevisionIds : IsHead(h) /\ revision[h].branch = revision[d].branch =>
              h = revision[d].parent
         /\ \A r \in RevisionIds : IsDraft(r) /\ revision[r].branch = revision[d].branch => r = d
<1>1. IsLive(d) /\ revision[d].branch \in Branches
  BY DEF IInv, TypeOK, IsDraft, IsLive, RevisionRecord
<1>2. QED
  BY <1>1, HeadAndDraft

\* One branch as it should be, with this head and this draft.
Shape(b, h, d) ==
  /\ IsHead(h) /\ revision[h].branch = b
  /\ IsDraft(d) /\ revision[d].branch = b
  /\ revision[d].parent = h /\ h # d
  /\ \A r \in RevisionIds : IsLive(r) /\ revision[r].branch = b =>
       /\ revision[r].isHead => r = h
       /\ revision[r].isDraft \/ revision[r].hasChanges => r = d

\* Before a step, a branch that exists has a shape,
LEMMA ShapeOf ==
  ASSUME DraftFollowsHead, NEW b \in Branches,
         NEW q \in RevisionIds, IsLive(q), revision[q].branch = b
  PROVE  \E h, d \in RevisionIds : Shape(b, h, d)
BY HeadAndDraft DEF Shape, IsHead, IsDraft

\* ... and after it, a shape for each branch that exists is enough.
LEMMA ShapesSuffice ==
  ASSUME \A b \in Branches : \A q \in RevisionIds :
           IsLive(q)' /\ revision'[q].branch = b => \E h, d \in RevisionIds : Shape(b, h, d)'
  PROVE  DraftFollowsHead'
<1> SUFFICES ASSUME NEW b \in Branches, RevisionsOf(b)' # {}
             PROVE  \E h, d \in RevisionsOf(b)' :
                      /\ IsHead(h)' /\ IsDraft(d)'
                      /\ revision'[d].parent = h /\ h # d
                      /\ \A r \in RevisionsOf(b)' \ {h} : ~revision'[r].isHead
                      /\ \A r \in RevisionsOf(b)' \ {d} :
                           ~revision'[r].isDraft /\ ~revision'[r].hasChanges
  BY DEF DraftFollowsHead
<1>1. PICK q \in RevisionIds : IsLive(q)' /\ revision'[q].branch = b
  BY DEF RevisionsOf
<1>2. PICK h, d \in RevisionIds : Shape(b, h, d)'
  BY <1>1
<1>3. h \in RevisionsOf(b)' /\ d \in RevisionsOf(b)'
  BY <1>2 DEF Shape, RevisionsOf, IsHead, IsDraft
<1>4. QED
  BY <1>2, <1>3 DEF Shape, RevisionsOf

\* Revisions that stay where they are, with hasChanges set by drafts alone,
\* keep the shape of every branch.
LEMMA SamePlacesKeep ==
  ASSUME BInv, \A q \in RevisionIds : SamePlace(q),
         \A q \in RevisionIds : IsLive(q) /\ revision'[q].hasChanges =>
           revision[q].hasChanges \/ IsDraft(q)
  PROVE  BInv'
<1>1. DraftFollowsHead'
  <2>1. SUFFICES ASSUME NEW b \in Branches, NEW q \in RevisionIds,
                        IsLive(q)', revision'[q].branch = b
                 PROVE  \E h, d \in RevisionIds : Shape(b, h, d)'
    BY ShapesSuffice
  <2>2. PICK h, d \in RevisionIds : Shape(b, h, d)
    BY <2>1, ShapeOf DEF SamePlace, BInv
  <2>3. Shape(b, h, d)'
    BY <2>2 DEF Shape, SamePlace, IsHead, IsDraft
  <2>4. QED
    BY <2>3
<1>2. ParentsInBranch'
  BY DEF BInv, ParentsInBranch, SamePlace
<1>3. QED
  BY <1>1, <1>2 DEF BInv

\* Writing hasChanges of a draft.
LEMMA MarkChangedStays ==
  ASSUME IInv, NEW r \in RevisionIds, IsDraft(r), NEW v \in BOOLEAN,
         revision' = [revision EXCEPT ![r] = [@ EXCEPT !.hasChanges = v]]
  PROVE  /\ \A q \in RevisionIds : SamePlace(q)
         /\ \A q \in RevisionIds \ {r} : revision'[q] = revision[q]
         /\ revision'[r].hasChanges = v
<1>1. revision[r] \in RevisionRecord
  BY DEF IInv, TypeOK, IsDraft, IsLive
<1>2. /\ revision'[r] = [revision[r] EXCEPT !.hasChanges = v]
      /\ \A q \in RevisionIds \ {r} : revision'[q] = revision[q]
  BY DEF IInv, TypeOK
<1>3. /\ revision'[r] \in RevisionRecord
      /\ revision'[r].branch = revision[r].branch /\ revision'[r].parent = revision[r].parent
      /\ revision'[r].isHead = revision[r].isHead /\ revision'[r].isDraft = revision[r].isDraft
      /\ revision'[r].isStart = revision[r].isStart /\ revision'[r].hasChanges = v
  BY <1>1, <1>2 DEF RevisionRecord
<1>4. QED
  BY <1>1, <1>2, <1>3, NoneAssumption DEF SamePlace, IsLive

-----------------------------------------------------------------------------
(* The steps that move heads and drafts. *)

\* The head h of b is retired, its draft r is the head, and n the draft that follows.
Promotes(b, h, r, n, v) ==
  revision' = [revision EXCEPT ![h] = RetireHead(h), ![r] = PromoteDraftToHead(r),
                               ![n] = [OpenNextDraft(b, r) EXCEPT !.hasChanges = v]]

PromotionOf(b, h, r, n, v) ==
  /\ h # r /\ n # h /\ n # r
  /\ revision' \in [RevisionIds -> RevisionRecord \cup {None}]
  /\ \A q \in RevisionIds \ {h, r, n} : revision'[q] = revision[q]
  /\ revision'[h] # None /\ ~revision'[h].isDraft /\ ~revision'[h].isHead
  /\ revision'[h].branch = b /\ revision'[h].parent = revision[h].parent
  /\ revision'[h].isStart = revision[h].isStart /\ ~revision'[h].hasChanges
  /\ revision'[r] # None /\ ~revision'[r].isDraft /\ revision'[r].isHead
  /\ revision'[r].branch = b /\ revision'[r].parent = revision[r].parent
  /\ revision'[r].isStart = revision[r].isStart /\ ~revision'[r].hasChanges
  /\ revision'[n] # None /\ revision'[n].isDraft /\ ~revision'[n].isHead
  /\ revision'[n].branch = b /\ revision'[n].parent = r
  /\ ~revision'[n].isStart /\ revision'[n].hasChanges = v

\* What a commit leaves of the revisions.
LEMMA PromotionFacts ==
  ASSUME IInv, NEW b \in Branches, NEW h \in RevisionIds, NEW r \in RevisionIds,
         IsHead(h), IsDraft(r), revision[h].branch = b, revision[r].branch = b,
         NEW n \in RevisionIds, revision[n] = None, NEW v \in BOOLEAN, Promotes(b, h, r, n, v)
  PROVE  PromotionOf(b, h, r, n, v)
<1> DEFINE new == [OpenNextDraft(b, r) EXCEPT !.hasChanges = v]
           oldHead == RetireHead(h)
           newHead == PromoteDraftToHead(r)
<1>1. /\ revision[h] \in RevisionRecord /\ revision[r] \in RevisionRecord
      /\ h # r /\ n # h /\ n # r
  BY DEF IInv, TypeOK, HeadsAreCommitted, IsHead, IsDraft, IsLive
<1>2. /\ new \in RevisionRecord /\ new.isDraft /\ ~new.isHead /\ new.hasChanges = v
      /\ ~new.isStart /\ new.branch = b /\ new.parent = r
      /\ oldHead \in RevisionRecord /\ ~oldHead.isDraft /\ ~oldHead.isHead
      /\ oldHead.branch = b /\ oldHead.parent = revision[h].parent
      /\ oldHead.isStart = revision[h].isStart /\ ~oldHead.hasChanges
      /\ newHead \in RevisionRecord /\ ~newHead.isDraft /\ newHead.isHead
      /\ newHead.branch = b /\ newHead.parent = revision[r].parent
      /\ newHead.isStart = revision[r].isStart /\ ~newHead.hasChanges
  BY <1>1 DEF RevisionRecord, OpenNextDraft, RetireHead, PromoteDraftToHead
<1>3. revision' = [revision EXCEPT ![h] = oldHead, ![r] = newHead, ![n] = new]
  BY DEF Promotes
<1> HIDE DEF new, oldHead, newHead
<1>4. /\ revision'[h] = oldHead /\ revision'[r] = newHead /\ revision'[n] = new
      /\ \A q \in RevisionIds \ {h, r, n} : revision'[q] = revision[q]
      /\ revision' \in [RevisionIds -> RevisionRecord \cup {None}]
  BY <1>1, <1>2, <1>3 DEF IInv, TypeOK
<1>5. oldHead # None /\ newHead # None /\ new # None
  BY <1>2, NoneAssumption
<1>6. QED
  BY <1>1, <1>2, <1>4, <1>5 DEF PromotionOf

\* The draft becomes the head, and the next draft follows it.
LEMMA PromotionShapes ==
  ASSUME IInv, BInv, NEW b \in Branches, NEW h \in RevisionIds, NEW r \in RevisionIds,
         IsHead(h), IsDraft(r), revision[h].branch = b, revision[r].branch = b,
         NEW n \in RevisionIds, revision[n] = None, NEW v, PromotionOf(b, h, r, n, v)
  PROVE  BInv'
<1>1. /\ h # r /\ n # h /\ n # r
      /\ \A q \in RevisionIds \ {h, r, n} : revision'[q] = revision[q]
  BY DEF PromotionOf
<1>2. /\ revision[h] # None /\ revision[h].isHead
      /\ revision[r] # None /\ revision[r].isDraft /\ revision[r].parent = h
  BY DraftOnHead DEF IsHead, IsDraft, IsLive, BInv
<1>3. /\ revision'[h] # None /\ ~revision'[h].isDraft /\ ~revision'[h].isHead
      /\ revision'[h].branch = b /\ revision'[h].parent = revision[h].parent
      /\ revision'[h].isStart = revision[h].isStart /\ ~revision'[h].hasChanges
      /\ revision'[r] # None /\ ~revision'[r].isDraft /\ revision'[r].isHead
      /\ revision'[r].branch = b /\ revision'[r].parent = h
      /\ revision'[r].isStart = revision[r].isStart /\ ~revision'[r].hasChanges
      /\ revision'[n] # None /\ revision'[n].isDraft /\ ~revision'[n].isHead
      /\ revision'[n].branch = b /\ revision'[n].parent = r /\ ~revision'[n].isStart
  BY <1>2 DEF PromotionOf
<1>4. DraftFollowsHead'
  <2>1. SUFFICES ASSUME NEW c \in Branches, NEW q \in RevisionIds,
                        IsLive(q)', revision'[q].branch = c
                 PROVE  \E x, y \in RevisionIds : Shape(c, x, y)'
    BY ShapesSuffice
  <2>2. CASE c = b
    <3>1. PICK x, y \in RevisionIds : Shape(b, x, y)
      BY <1>2, ShapeOf DEF BInv, IsLive
    <3>2. x = h /\ y = r
      BY <1>2, <3>1 DEF Shape, IsLive
    <3>3. Shape(b, r, n)'
      BY <1>1, <1>2, <1>3, <3>1, <3>2 DEF Shape, IsLive, IsHead, IsDraft
    <3>4. QED
      BY <2>2, <3>3
  <2>3. CASE c # b
    <3>1. q \notin {h, r, n} /\ IsLive(q) /\ revision[q].branch = c
      BY <1>1, <1>3, <2>1, <2>3 DEF IsLive
    <3>2. PICK x, y \in RevisionIds : Shape(c, x, y)
      BY <3>1, ShapeOf DEF BInv
    <3>3. Shape(c, x, y)'
      BY <1>1, <1>2, <1>3, <2>3, <3>2 DEF Shape, IsLive, IsHead, IsDraft
    <3>4. QED
      BY <3>3
  <2>4. QED
    BY <2>2, <2>3
<1>5. ParentsInBranch'
  <2>1. SUFFICES ASSUME NEW q \in RevisionIds, IsLive(q)', ~revision'[q].isStart
                 PROVE  /\ revision'[q].parent \in RevisionIds /\ revision'[revision'[q].parent] # None
                        /\ revision'[revision'[q].parent].branch = revision'[q].branch
    BY DEF ParentsInBranch, IsLive
  <2>2. \A p \in RevisionIds : IsLive(p) => IsLive(p)' /\ revision'[p].branch = revision[p].branch
    BY <1>1, <1>2, <1>3 DEF IsLive
  <2>3. CASE q = n
    BY <1>2, <1>3, <2>3
  <2>4. CASE q # n
    <3>1. /\ IsLive(q) /\ ~revision[q].isStart
          /\ revision'[q].parent = revision[q].parent
      BY <1>1, <1>2, <1>3, <2>1, <2>4 DEF IsLive
    <3>2. QED
      BY <2>2, <3>1 DEF BInv, ParentsInBranch, IsLive
  <2>5. QED
    BY <2>3, <2>4
<1>6. QED
  BY <1>4, <1>5 DEF BInv

\* A commit does no other.
LEMMA CommitShapes ==
  ASSUME IInv, BInv, NEW b \in Branches, NEW h \in RevisionIds, NEW r \in RevisionIds,
         Commit(b, h, r)
  PROVE  BInv'
<1>1. PICK n \in RevisionIds : n = NewId(revision) /\ revision[n] = None
  BY NewRevision DEF Commit, IInv
<1>2. [OpenNextDraft(b, r) EXCEPT !.hasChanges = FALSE] = OpenNextDraft(b, r)
  <2> DEFINE new == OpenNextDraft(b, r)
  <2>1. /\ new = [f \in DOMAIN new |-> new[f]]
        /\ new.hasChanges = FALSE
    BY DEF OpenNextDraft
  <2> HIDE DEF new
  <2>2. [new EXCEPT !.hasChanges = FALSE] = new
    BY <2>1, Zenon
  <2>3. QED
    BY <2>2 DEF new
<1>3. Promotes(b, h, r, n, FALSE)
  <2>1. revision' = [revision EXCEPT ![h] = RetireHead(h), ![r] = PromoteDraftToHead(r),
                                     ![n] = OpenNextDraft(b, r)]
    BY <1>1 DEF Commit
  <2>2. QED
    BY <1>2, <2>1, Zenon DEF Promotes
<1>4. IsHead(h) /\ IsDraft(r) /\ revision[h].branch = b /\ revision[r].branch = b
  BY DEF Commit
<1>5. PromotionOf(b, h, r, n, FALSE)
  BY <1>1, <1>3, <1>4, PromotionFacts
<1>6. QED
  BY <1>1, <1>4, <1>5, PromotionShapes

\* A branch that did not exist starts with a head and a draft on it.
LEMMA CreateBranchShapes ==
  ASSUME IInv, BInv, NEW source \in RevisionIds, NEW b \in Branches, CreateBranch(source, b)
  PROVE  BInv'
<1>1. PICK h \in RevisionIds : h = NewId(revision) /\ revision[h] = None
  BY NewRevision DEF CreateBranch, IInv
<1>2. PICK d \in RevisionIds \ {h} :
        d = (CHOOSE k \in Unused(revision) \ {h} : TRUE) /\ revision[d] = None
  BY <1>1 DEF CreateBranch, Unused, Live, IInv, TypeOK
<1> DEFINE newHead == [branch |-> b, parent |-> source, isHead |-> TRUE, isDraft |-> FALSE,
                       isStart |-> TRUE, hasChanges |-> FALSE]
           newDraft == [branch |-> b, parent |-> h, isHead |-> FALSE, isDraft |-> TRUE,
                        isStart |-> FALSE, hasChanges |-> FALSE]
<1>3. /\ newHead \in RevisionRecord /\ newHead.isHead /\ ~newHead.isDraft
      /\ newHead.branch = b /\ newHead.isStart /\ ~newHead.hasChanges
      /\ newDraft \in RevisionRecord /\ newDraft.isDraft /\ ~newDraft.isHead
      /\ newDraft.branch = b /\ newDraft.parent = h /\ ~newDraft.isStart
  BY DEF RevisionRecord
<1>4. revision' = [revision EXCEPT ![h] = newHead, ![d] = newDraft] /\ ~BranchExists(b)
  BY <1>1, <1>2 DEF CreateBranch
<1> HIDE DEF newHead, newDraft
<1>5. /\ revision'[h] = newHead /\ revision'[d] = newDraft
      /\ \A q \in RevisionIds \ {h, d} : revision'[q] = revision[q]
  BY <1>1, <1>2, <1>4 DEF IInv, TypeOK
<1>6. newHead # None /\ newDraft # None
  BY <1>3, NoneAssumption
<1>7. \A q \in RevisionIds : IsLive(q) => revision[q].branch # b /\ q # h /\ q # d
  BY <1>1, <1>2, <1>4 DEF BranchExists, RevisionsOf, IsLive
<1>8. DraftFollowsHead'
  <2>1. SUFFICES ASSUME NEW c \in Branches, NEW q \in RevisionIds,
                        IsLive(q)', revision'[q].branch = c
                 PROVE  \E x, y \in RevisionIds : Shape(c, x, y)'
    BY ShapesSuffice
  <2>2. CASE c = b
    <3>1. Shape(b, h, d)'
      <4>1. /\ IsHead(h)' /\ revision'[h].branch = b
            /\ IsDraft(d)' /\ revision'[d].branch = b
            /\ revision'[d].parent = h /\ h # d
        BY <1>2, <1>3, <1>5, <1>6 DEF IsLive, IsHead, IsDraft
      <4>2. ASSUME NEW k \in RevisionIds, IsLive(k)', revision'[k].branch = b
            PROVE  k = h \/ k = d
        BY <1>5, <1>7, <4>2 DEF IsLive
      <4>3. ASSUME NEW k \in RevisionIds, IsLive(k)', revision'[k].branch = b
            PROVE  /\ revision'[k].isHead => k = h
                   /\ revision'[k].isDraft \/ revision'[k].hasChanges => k = d
        BY <1>3, <1>5, <4>2, <4>3
      <4>4. QED
        BY <4>1, <4>3 DEF Shape
    <3>2. QED
      BY <2>2, <3>1
  <2>3. CASE c # b
    <3>1. q \notin {h, d} /\ IsLive(q) /\ revision[q].branch = c
      BY <1>3, <1>5, <2>1, <2>3 DEF IsLive
    <3>2. PICK x, y \in RevisionIds : Shape(c, x, y)
      BY <3>1, ShapeOf DEF BInv
    <3>3. Shape(c, x, y)'
      BY <1>3, <1>5, <1>7, <2>3, <3>2 DEF Shape, IsLive, IsHead, IsDraft
    <3>4. QED
      BY <3>3
  <2>4. QED
    BY <2>2, <2>3
<1>9. ParentsInBranch'
  <2>1. SUFFICES ASSUME NEW q \in RevisionIds, revision'[q] # None, ~revision'[q].isStart
                 PROVE  /\ revision'[q].parent \in RevisionIds
                        /\ revision'[revision'[q].parent] # None
                        /\ revision'[revision'[q].parent].branch = revision'[q].branch
    BY DEF ParentsInBranch, IsLive
  <2>2. CASE q = d
    BY <1>2, <1>3, <1>5, <1>6, <2>2
  <2>3. CASE q # d
    <3>1. q # h /\ revision'[q] = revision[q] /\ IsLive(q)
      BY <1>3, <1>5, <2>1, <2>3 DEF IsLive
    <3>2. PICK p \in RevisionIds : /\ p = revision[q].parent /\ IsLive(p)
                                  /\ revision[p].branch = revision[q].branch
      BY <2>1, <3>1 DEF BInv, ParentsInBranch
    <3>3. revision'[p] = revision[p]
      BY <1>5, <1>7, <3>2
    <3>4. QED
      BY <3>1, <3>2, <3>3 DEF IsLive
  <2>4. QED
    BY <2>2, <2>3
<1>10. QED
  BY <1>8, <1>9 DEF BInv

\* The database sets the parent of a revision to NULL that outlives it; since no
\* branch was started from this one, there is none.
LEMMA DeleteBranchSpares ==
  ASSUME IInv, BInv, NEW b \in Branches, DeleteBranch(b)
  PROVE  /\ \A q \in RevisionsOf(b) : revision'[q] = None
         /\ \A q \in RevisionIds \ RevisionsOf(b) :
              /\ revision'[q] = revision[q]
              /\ IsLive(q) => revision[q].parent \notin RevisionsOf(b)
<1>1. ASSUME NEW q \in RevisionIds \ RevisionsOf(b), IsLive(q)
      PROVE  revision[q].parent \notin RevisionsOf(b)
  <2>1. CASE revision[q].isStart
    BY <1>1, <2>1 DEF DeleteBranch, HasChildBranch, Live, IsLive, IInv, TypeOK
  <2>2. CASE ~revision[q].isStart
    BY <1>1, <2>2 DEF BInv, ParentsInBranch, RevisionsOf
  <2>3. QED
    BY <2>1, <2>2
<1>2. RevisionsOf(b) \subseteq RevisionIds
  BY DEF RevisionsOf
<1>3. QED
  BY <1>1, <1>2 DEF DeleteBranch

\* A branch that goes leaves the others as they are.
LEMMA DeleteBranchShapes ==
  ASSUME IInv, BInv, NEW b \in Branches, DeleteBranch(b)
  PROVE  BInv'
<1>1. /\ \A q \in RevisionsOf(b) : revision'[q] = None
      /\ \A q \in RevisionIds \ RevisionsOf(b) :
           /\ revision'[q] = revision[q]
           /\ IsLive(q) => revision[q].parent \notin RevisionsOf(b)
  BY DeleteBranchSpares
<1>2. \A q \in RevisionIds : IsLive(q)' =>
        IsLive(q) /\ revision'[q] = revision[q] /\ revision[q].branch # b
  BY <1>1 DEF IsLive, RevisionsOf
<1>3. \A q \in RevisionIds : IsLive(q) /\ revision[q].branch # b => revision'[q] = revision[q]
  BY <1>1 DEF RevisionsOf
<1>4. DraftFollowsHead'
  <2>1. SUFFICES ASSUME NEW c \in Branches, NEW q \in RevisionIds,
                        IsLive(q)', revision'[q].branch = c
                 PROVE  \E x, y \in RevisionIds : Shape(c, x, y)'
    BY ShapesSuffice
  <2>2. PICK x, y \in RevisionIds : Shape(c, x, y)
    BY <1>2, <2>1, ShapeOf DEF BInv
  <2>3. Shape(c, x, y)'
    BY <1>2, <1>3, <2>1, <2>2 DEF Shape, IsLive, IsHead, IsDraft
  <2>4. QED
    BY <2>3
<1>5. ParentsInBranch'
  <2>1. ASSUME NEW q \in RevisionIds, IsLive(q)', ~revision'[q].isStart
        PROVE  /\ revision'[q].parent \in RevisionIds /\ revision'[revision'[q].parent] # None
               /\ revision'[revision'[q].parent].branch = revision'[q].branch
    <3>1. /\ revision'[q] = revision[q] /\ revision[q].branch # b
          /\ revision[q].parent \in RevisionIds /\ IsLive(revision[q].parent)
          /\ revision[revision[q].parent].branch = revision[q].branch
      BY <1>2, <2>1 DEF BInv, ParentsInBranch
    <3>2. QED
      BY <1>3, <3>1 DEF IsLive
  <2>2. QED
    BY <2>1 DEF ParentsInBranch, IsLive
<1>6. QED
  BY <1>4, <1>5 DEF BInv

-----------------------------------------------------------------------------

\* Removals compare the draft with its parent, the other edits mark it changed.
LEMMA EditStays ==
  ASSUME IInv, NEW r \in RevisionIds, EditTables(r) \/ EditRows(r)
  PROVE  /\ IsDraft(r)
         /\ \A q \in RevisionIds : SamePlace(q)
         /\ \A q \in RevisionIds \ {r} : revision'[q] = revision[q]
         /\ MarkChanged(r) \/ UpdateHasChanges(r)
<1>1. IsDraft(r) /\ (MarkChanged(r) \/ UpdateHasChanges(r))
  <2>1. CASE EditTables(r)
    BY <2>1 DEF EditTables, CreateTable, RemoveTable, RenameTable
  <2>2. CASE EditRows(r)
    BY <2>2 DEF EditRows, CreateRow, UpdateRows, RenameRows, RemoveRows
  <2>3. QED
    BY <2>1, <2>2
<1>2. TableSetsDiffer(table', tablesOf'[revision[r].parent], tablesOf'[r]) \in BOOLEAN
  BY DEF TableSetsDiffer
<1>3. QED
  BY <1>1, <1>2, MarkChangedStays DEF MarkChanged, UpdateHasChanges

\* A revert writes hasChanges of the draft, too.
LEMMA RevertStays ==
  ASSUME IInv, NEW b \in Branches, NEW h \in RevisionIds, NEW r \in RevisionIds,
         Revert(b, h, r)
  PROVE  /\ \A q \in RevisionIds : SamePlace(q)
         /\ \A q \in RevisionIds \ {r} : revision'[q] = revision[q]
         /\ ~revision'[r].hasChanges
BY MarkChangedStays DEF Revert

\* Every operation keeps the shape of every branch.
LEMMA StepShapes == IInv /\ BInv /\ Next => BInv'
<1> SUFFICES ASSUME IInv, BInv, Next PROVE BInv'
  OBVIOUS
<1>1. ASSUME NEW r \in RevisionIds, EditTables(r) \/ EditRows(r)
      PROVE  BInv'
  BY <1>1, EditStays, SamePlacesKeep
<1>2. ASSUME NEW b \in Branches, NEW h \in RevisionIds, NEW r \in RevisionIds, Revert(b, h, r)
      PROVE  BInv'
  BY <1>2, RevertStays, SamePlacesKeep
<1>3. ASSUME DeleteOrphanTables \/ DeleteOrphanRows
      PROVE  BInv'
  BY <1>3, SamePlacesKeep DEF DeleteOrphanTables, DeleteOrphanRows, SamePlace, IsLive
<1>4. QED
  BY <1>1, <1>2, <1>3, CommitShapes, CreateBranchShapes, DeleteBranchShapes DEF Next

\* The root branch's head and its draft.
LEMMA InitShapes == Init => BInv
<1> SUFFICES ASSUME Init PROVE BInv
  OBVIOUS
<1>1. /\ revision[RootHead].isHead /\ ~revision[RootHead].isDraft
      /\ ~revision[RootHead].hasChanges /\ revision[RootHead].isStart
      /\ revision[RootHead].branch = RootBranch
      /\ revision[RootDraft].isDraft /\ ~revision[RootDraft].isHead
      /\ ~revision[RootDraft].hasChanges
      /\ revision[RootDraft].branch = RootBranch /\ revision[RootDraft].parent = RootHead
      /\ \A q \in RevisionIds \ {RootHead, RootDraft} : ~IsLive(q)
  BY RootAssumption DEF Init, IsLive
<1>2. IsLive(RootHead) /\ IsLive(RootDraft)
  <2>1. /\ [branch |-> RootBranch, parent |-> None, isHead |-> TRUE, isDraft |-> FALSE,
            isStart |-> TRUE, hasChanges |-> FALSE] \in RevisionRecord
        /\ [branch |-> RootBranch, parent |-> RootHead, isHead |-> FALSE, isDraft |-> TRUE,
            isStart |-> FALSE, hasChanges |-> FALSE] \in RevisionRecord
    BY RootAssumption DEF RevisionRecord
  <2>2. QED
    BY <2>1, RootAssumption, NoneAssumption DEF Init, IsLive
<1>3. DraftFollowsHead
  BY <1>1, <1>2, RootAssumption DEF DraftFollowsHead, RevisionsOf, IsHead, IsDraft
<1>4. ParentsInBranch
  BY <1>1, <1>2, RootAssumption DEF ParentsInBranch
<1>5. QED
  BY <1>3, <1>4 DEF BInv

\* The invariant always holds.
LEMMA BranchInvariantHolds == Spec => []BInv
<1>1. BInv /\ UNCHANGED vars => BInv'
  BY DEF BInv, vars, DraftFollowsHead, ParentsInBranch, RevisionsOf, IsLive, IsHead, IsDraft
<1>2. IInv /\ BInv /\ [Next]_vars => BInv'
  BY <1>1, StepShapes
<1>3. QED
  BY <1>2, InitShapes, InvariantHolds, PTL DEF Spec

\* Every branch has one head and one draft on it, and no other revision of it
\* claims changes, however branches are forked, committed, reverted and deleted.
THEOREM DraftsFollowHeads == Spec => []DraftFollowsHead
<1>1. BInv => DraftFollowsHead
  BY DEF BInv
<1>2. QED
  BY <1>1, BranchInvariantHolds, PTL

\* Only a branch's start follows a revision of another branch, and no deletion
\* cuts an ancestry: the parent of every other revision remains.
THEOREM ParentsStayInBranch == Spec => []ParentsInBranch
<1>1. BInv => ParentsInBranch
  BY DEF BInv
<1>2. QED
  BY <1>1, BranchInvariantHolds, PTL

-----------------------------------------------------------------------------
(* Copy-on-write: a version that can be edited in place is seen from one   *)
(* place only, so that what a draft's operation writes is seen by no other *)
(* revision, committed or not; names stay unique; and hasChanges tells     *)
(* whether the draft differs from its head.                                *)

\* A step that leaves what this revision says alone.
KeepsRevision(q) ==
  /\ tablesOf'[q] = tablesOf[q]
  /\ \A t \in tablesOf[q] :
       /\ table'[t].createdId = table[t].createdId /\ table'[t].id = table[t].id
       /\ rowsOf'[t] = rowsOf[t]
       /\ \A x \in rowsOf[t] :
            /\ row'[x].createdId = row[x].createdId /\ row'[x].id = row[x].id
            /\ row'[x].data = row[x].data

\* What every edit of a table has in common: the draft r gives up the table t for
\* its draft version, which has rows of t or new ones, or for the head's table;
\* of the rows that exist, mutable ones of t are written or deleted.
TableEdit(r, t) ==
  LET v == DraftTable(t)
  IN  /\ IsDraft(r) /\ CanTouch(t)
      /\ \A q \in RevisionIds \ {r} : tablesOf'[q] = tablesOf[q]
      /\ \A u \in tablesOf'[r] :
           \/ u = v \/ u \in tablesOf[r] \ {t}
           \/ \E h \in RevisionIds : IsHead(h) /\ u \in tablesOf[h]
      /\ ~table'[v].readonly
      /\ rowsOf'[v] \subseteq rowsOf[t] \cup Unused(row)
      /\ \A u \in TableVersions \ {v} :
           /\ table'[u] = table[u]
           /\ rowsOf'[u] \subseteq rowsOf[u]
           /\ \A x \in rowsOf[u] \ rowsOf'[u] : x \in rowsOf[t] /\ ~row[x].readonly
      /\ \A x \in RowVersions \ Unused(row) :
           row'[x] # row[x] => /\ x \in rowsOf[t] /\ ~row[x].readonly
                               /\ row'[x] = None \/ ~row'[x].readonly

-----------------------------------------------------------------------------
(* Every edit of a table is one. *)

\* Rows are saved in place if mutable, else as versions no table links.
LEMMA TouchedRows ==
  ASSUME IInv, NEW t \in TableVersions, NEW S \in SUBSET rowsOf[t],
         RowTouches(S) # {},
         NEW name \in [S -> RowIds], NEW data \in [S -> Data],
         SaveRows(S, name, data)
  PROVE  /\ RowsTouched(t, S) \subseteq rowsOf[t] \cup Unused(row)
         /\ \A x \in RowVersions \ Unused(row) :
              row'[x] # row[x] => x \in S /\ ~row[x].readonly /\ ~row'[x].readonly
<1> DEFINE w == TouchRows(S)
           source(y) == CHOOSE x \in S : w[x] = y
           saved(y) == [createdId |-> row[source(y)].createdId, id |-> name[source(y)],
                        readonly |-> FALSE, data |-> data[source(y)]]
<1>1. w \in RowTouches(S)
  BY DEF TouchRows
<1>2. /\ w \in [S -> RowVersions]
      /\ \A x \in S : IF row[x].readonly THEN w[x] \in Unused(row) ELSE w[x] = x
  BY <1>1 DEF RowTouches, Injection
<1>3. Range(w) = {w[x] : x \in S}
  BY <1>2 DEF Range
<1>4. row' = [y \in RowVersions |-> IF y \in Range(w) THEN saved(y) ELSE row[y]]
  BY DEF SaveRows
<1>5. \A y : ~saved(y).readonly
  OBVIOUS
<1>6. RowsTouched(t, S) = (rowsOf[t] \ S) \cup Range(w)
  BY DEF RowsTouched
<1> HIDE DEF saved, w
<1>7. QED
  BY <1>2, <1>3, <1>4, <1>5, <1>6

\* The table's draft version with the rows it has.
LEMMA RenameTableIsEdit ==
  ASSUME IInv, NEW r \in RevisionIds, NEW t \in tablesOf[r], NEW n \in TableIds,
         RenameTable(r, t, n)
  PROVE  TableEdit(r, t)
<1>1. /\ t \in TableVersions /\ DraftTable(t) \in TableVersions
  BY DraftTableFacts DEF RenameTable
<1>2. QED
  BY <1>1 DEF RenameTable, SaveTable, TableEdit, IInv, TypeOK

\* The new row is no other table's.
LEMMA CreateRowIsEdit ==
  ASSUME IInv, NEW r \in RevisionIds, NEW t \in tablesOf[r],
         NEW n \in RowIds, NEW d \in Data, CreateRow(r, t, n, d)
  PROVE  TableEdit(r, t)
<1>1. t \in TableVersions /\ DraftTable(t) \in TableVersions
  BY DraftTableFacts DEF CreateRow
<1>2. NewId(row) \in Unused(row)
  BY NewRowVersion DEF CreateRow, IInv, Unused, Live, TypeOK
<1> DEFINE x == NewId(row)
<1> HIDE DEF x
<1>3. x \in Unused(row) /\ (\A y \in RowVersions \ {x} : row'[y] = row[y])
      /\ SaveTable(r, t, table[t].id, rowsOf[t] \cup {x})
  BY <1>2 DEF CreateRow, IInv, TypeOK, x
<1>4. QED
  BY <1>1, <1>3 DEF CreateRow, SaveTable, TableEdit, IInv, TypeOK

\* Rows of the table are saved with it.
LEMMA SaveRowsIsEdit ==
  ASSUME IInv, NEW r \in RevisionIds, NEW t \in tablesOf[r], IsDraft(r), CanTouch(t),
         NEW S \in SUBSET rowsOf[t], RowTouches(S) # {},
         NEW name \in [S -> RowIds], NEW data \in [S -> Data],
         SaveRows(S, name, data), SaveTable(r, t, table[t].id, RowsTouched(t, S))
  PROVE  TableEdit(r, t)
<1>1. t \in TableVersions /\ DraftTable(t) \in TableVersions
  BY DraftTableFacts
<1>2. /\ RowsTouched(t, S) \subseteq rowsOf[t] \cup Unused(row)
      /\ \A x \in RowVersions \ Unused(row) :
           row'[x] # row[x] => x \in S /\ ~row[x].readonly /\ ~row'[x].readonly
  BY <1>1, TouchedRows
<1>3. QED
  BY <1>1, <1>2 DEF SaveTable, TableEdit, IInv, TypeOK

\* Readonly rows are unlinked, mutable ones deleted; or the head's table is linked.
LEMMA RemoveRowsIsEdit ==
  ASSUME IInv, NEW r \in RevisionIds, NEW t \in tablesOf[r], NEW S, RemoveRows(r, t, S)
  PROVE  TableEdit(r, t)
<1> DEFINE v == DraftTable(t)
           removed == {x \in S : ~row[x].readonly}
           kept == rowsOf[t] \ S
           inHead == UNION {Named(h, table[t].id) :
                        h \in {q \in RevisionsOf(revision[r].branch) : IsHead(q)}}
<1>1. t \in TableVersions /\ v \in TableVersions
  BY DraftTableFacts DEF RemoveRows
<1>2. /\ table' = [table EXCEPT ![v] =
             [createdId |-> table[t].createdId, id |-> table[t].id, readonly |-> FALSE]]
      /\ row' = [x \in RowVersions |-> IF x \in removed THEN None ELSE row[x]]
      /\ rowsOf' = [u \in TableVersions |-> IF u = v THEN kept ELSE rowsOf[u] \ removed]
      /\ IsDraft(r) /\ S \subseteq rowsOf[t] /\ CanTouch(t)
  BY DEF RemoveRows
<1>3. PICK linked \in {inHead, {v}} : tablesOf' = [tablesOf EXCEPT ![r] = (@ \ {t}) \cup linked]
  <2>1. AfterRemoval(r, t, kept, removed) \in {inHead, {v}}
    BY Zenon DEF AfterRemoval
  <2>2. QED
    BY <2>1 DEF RemoveRows
<1>4. \A u \in inHead : \E h \in RevisionIds : IsHead(h) /\ u \in tablesOf[h]
  BY DEF RevisionsOf, Named
<1> HIDE DEF inHead
<1>5. QED
  BY <1>1, <1>2, <1>3, <1>4 DEF TableEdit, IInv, TypeOK

\* Edits of rows are edits of their table.
LEMMA RowsOfOneTable ==
  ASSUME IInv, NEW r \in RevisionIds, NEW t \in tablesOf[r],
         \/ \E n \in RowIds, d \in Data : CreateRow(r, t, n, d)
         \/ \E S \in (SUBSET rowsOf[t]) \ {{}} :
              \/ \E d \in Data : UpdateRows(r, t, S, d)
              \/ \E name \in Injection(S, RowIds) : RenameRows(r, t, S, name)
              \/ RemoveRows(r, t, S)
  PROVE  TableEdit(r, t)
<1>1. \A S \in SUBSET rowsOf[t] : \A x \in S : row[x] \in RowRecord
  BY DEF IInv, TypeOK, CommittedIsReadonly
<1>2. ASSUME NEW S \in SUBSET rowsOf[t], NEW d \in Data, UpdateRows(r, t, S, d)
      PROVE  TableEdit(r, t)
  <2>1. [x \in S |-> row[x].id] \in [S -> RowIds] /\ [x \in S |-> d] \in [S -> Data]
    BY <1>1 DEF RowRecord
  <2>2. QED
    BY <1>2, <2>1, SaveRowsIsEdit DEF UpdateRows
<1>3. ASSUME NEW S \in SUBSET rowsOf[t], NEW name \in [S -> RowIds], RenameRows(r, t, S, name)
      PROVE  TableEdit(r, t)
  <2>1. [x \in S |-> row[x].data] \in [S -> Data]
    BY <1>1 DEF RowRecord
  <2>2. QED
    BY <1>3, <2>1, SaveRowsIsEdit DEF RenameRows
<1>4. \A S : Injection(S, RowIds) \subseteq [S -> RowIds]
  BY DEF Injection
<1>5. QED
  BY <1>2, <1>3, <1>4, CreateRowIsEdit, RemoveRowsIsEdit

\* ... and so is what a request for rows does to the draft.
LEMMA EditRowsIsEdit ==
  ASSUME IInv, NEW r \in RevisionIds, EditRows(r)
  PROVE  \E t \in tablesOf[r] : TableEdit(r, t)
BY RowsOfOneTable DEF EditRows

-----------------------------------------------------------------------------
(* Nothing that can be edited in place is shared. *)

\* MutableIsUnshared in terms of revisions: before a step,
LEMMA UnsharedFacts ==
  ASSUME IInv, MutableIsUnshared
  PROVE  /\ \A q, r \in RevisionIds : \A t \in tablesOf[q] :
              ~table[t].readonly /\ t \in tablesOf[r] => q = r
         /\ \A q, r \in RevisionIds : \A t \in tablesOf[q], u \in tablesOf[r] :
              \A x \in rowsOf[t] : ~row[x].readonly /\ x \in rowsOf[u] => t = u
<1>1. ASSUME NEW q \in RevisionIds, NEW t \in tablesOf[q]
      PROVE  /\ t \in TableVersions /\ t \in Live(table) /\ t \in UNION Range(tablesOf)
             /\ \A x \in rowsOf[t] : x \in Live(row)
  BY DEF IInv, TypeOK, CommittedIsReadonly, Live, Range
<1>2. ASSUME NEW q \in RevisionIds, NEW r \in RevisionIds, NEW t \in tablesOf[q],
             ~table[t].readonly, t \in tablesOf[r]
      PROVE  q = r
  BY <1>1, <1>2 DEF MutableIsUnshared
<1>3. ASSUME NEW q \in RevisionIds, NEW r \in RevisionIds,
             NEW t \in tablesOf[q], NEW u \in tablesOf[r],
             NEW x \in rowsOf[t], ~row[x].readonly, x \in rowsOf[u]
      PROVE  t = u
  BY <1>1, <1>3 DEF MutableIsUnshared
<1>4. QED
  BY <1>2, <1>3

\* ... and after it.
LEMMA UnsharedSuffices ==
  ASSUME TypeOK',
         \A q, r \in RevisionIds : \A t \in tablesOf'[q] :
           ~table'[t].readonly /\ t \in tablesOf'[r] => q = r,
         \A q, r \in RevisionIds : \A t \in tablesOf'[q], u \in tablesOf'[r] :
           \A x \in rowsOf'[t] : ~row'[x].readonly /\ x \in rowsOf'[u] => t = u
  PROVE  MutableIsUnshared'
<1>1. \A t \in (UNION Range(tablesOf))' : \E q \in RevisionIds : t \in tablesOf'[q]
  BY DEF TypeOK, Range
<1>2. QED
  BY <1>1 DEF MutableIsUnshared

\* No other revision sees an edit, not even another branch's draft: the versions
\* it writes are mutable, and so this draft's alone.
LEMMA EditIsIsolated ==
  ASSUME IInv, MutableIsUnshared,
         NEW r \in RevisionIds, NEW t \in tablesOf[r], TableEdit(r, t),
         NEW q \in RevisionIds \ {r}
  PROVE  /\ tablesOf'[q] = tablesOf[q]
         /\ \A u \in tablesOf[q] :
              /\ u # DraftTable(t) /\ table'[u] = table[u] /\ rowsOf'[u] = rowsOf[u]
              /\ \A x \in rowsOf[u] : row'[x] = row[x]
<1>1. /\ t \in TableVersions
      /\ table[t].readonly => table[DraftTable(t)] = None
      /\ ~table[t].readonly => DraftTable(t) = t
  BY DraftTableFacts DEF TableEdit
<1>2. tablesOf'[q] = tablesOf[q]
  BY DEF TableEdit
<1>3. ASSUME NEW u \in tablesOf[q]
      PROVE  u \in TableVersions /\ u # DraftTable(t)
  BY <1>1, UnsharedFacts DEF IInv, TypeOK, CommittedIsReadonly
<1>4. ASSUME NEW u \in tablesOf[q], NEW x \in rowsOf[u]
      PROVE  /\ x \in RowVersions \ Unused(row)
             /\ ~(x \in rowsOf[t] /\ ~row[x].readonly)
  <2>1. x \in RowVersions \ Unused(row)
    BY <1>3 DEF IInv, TypeOK, CommittedIsReadonly, Unused, Live
  <2>2. SUFFICES ASSUME x \in rowsOf[t], ~row[x].readonly
                 PROVE  FALSE
    BY <2>1
  <2>3. u = t /\ ~table[t].readonly
    BY <1>1, <2>2, UnsharedFacts DEF IInv, CommittedIsReadonly
  <2>4. QED
    BY <1>1, <1>3, <2>3
<1>5. ASSUME NEW u \in tablesOf[q]
      PROVE  /\ table'[u] = table[u] /\ rowsOf'[u] = rowsOf[u]
             /\ \A x \in rowsOf[u] : row'[x] = row[x]
  <2>1. table'[u] = table[u] /\ rowsOf'[u] = rowsOf[u]
    <3>1. u \in TableVersions \ {DraftTable(t)}
      BY <1>3
    <3>2. /\ table'[u] = table[u] /\ rowsOf'[u] \subseteq rowsOf[u]
          /\ \A x \in rowsOf[u] \ rowsOf'[u] : x \in rowsOf[t] /\ ~row[x].readonly
      BY <3>1 DEF TableEdit
    <3>3. \A x \in rowsOf[u] : ~(x \in rowsOf[t] /\ ~row[x].readonly)
      BY <1>4
    <3>4. QED
      BY <3>2, <3>3
  <2>2. ASSUME NEW x \in rowsOf[u]
        PROVE  row'[x] = row[x]
    <3>1. x \in RowVersions \ Unused(row) /\ ~(x \in rowsOf[t] /\ ~row[x].readonly)
      BY <1>4
    <3>2. ASSUME NEW y \in RowVersions \ Unused(row), row'[y] # row[y]
          PROVE  y \in rowsOf[t] /\ ~row[y].readonly
      BY <3>2 DEF TableEdit
    <3>3. QED
      BY <3>1, <3>2
  <2>3. QED
    BY <2>1, <2>2
<1>6. QED
  BY <1>2, <1>3, <1>5

\* The draft's other tables keep their names and rows, too.
LEMMA EditSparesSiblings ==
  ASSUME IInv, MutableIsUnshared,
         NEW r \in RevisionIds, NEW t \in tablesOf[r], TableEdit(r, t),
         NEW u \in tablesOf'[r], u # DraftTable(t)
  PROVE  /\ table'[u] = table[u] /\ rowsOf'[u] = rowsOf[u]
         /\ \A x \in rowsOf[u] : row'[x] = row[x]
         /\ \/ u \in tablesOf[r] \ {t}
            \/ \E h \in RevisionIds : IsHead(h) /\ u \in tablesOf[h]
<1>1. /\ t \in TableVersions
      /\ table[t].readonly => table[DraftTable(t)] = None
      /\ ~table[t].readonly => DraftTable(t) = t
  BY DraftTableFacts DEF TableEdit
<1>2. CASE u \in tablesOf[r] \ {t}
  <2>1. u \in TableVersions
    BY <1>2 DEF IInv, TypeOK
  <2>2. ASSUME NEW x \in rowsOf[u]
        PROVE  x \in RowVersions \ Unused(row) /\ ~(x \in rowsOf[t] /\ ~row[x].readonly)
    BY <1>2, <2>1, UnsharedFacts DEF IInv, TypeOK, CommittedIsReadonly, Unused, Live
  <2>3. /\ table'[u] = table[u] /\ rowsOf'[u] \subseteq rowsOf[u]
        /\ \A x \in rowsOf[u] \ rowsOf'[u] : x \in rowsOf[t] /\ ~row[x].readonly
    BY <2>1 DEF TableEdit
  <2>4. rowsOf'[u] = rowsOf[u]
    BY <2>2, <2>3
  <2>5. ASSUME NEW x \in rowsOf[u]
        PROVE  row'[x] = row[x]
    <3>1. ASSUME NEW y \in RowVersions \ Unused(row), row'[y] # row[y]
          PROVE  y \in rowsOf[t] /\ ~row[y].readonly
      BY <3>1 DEF TableEdit
    <3>2. QED
      BY <2>2, <3>1
  <2>6. QED
    BY <1>2, <2>3, <2>4, <2>5
<1>3. CASE \E h \in RevisionIds : IsHead(h) /\ u \in tablesOf[h]
  <2>1. PICK h \in RevisionIds : IsHead(h) /\ u \in tablesOf[h]
    BY <1>3
  <2>2. h # r
    BY <2>1 DEF IInv, HeadsAreCommitted, TableEdit
  <2>3. QED
    BY <2>1, <2>2, EditIsIsolated
<1>4. QED
  BY <1>2, <1>3 DEF TableEdit

\* An edit gives the draft versions of its own.
LEMMA EditKeepsUnshared ==
  ASSUME IInv, IInv', MutableIsUnshared,
         NEW r \in RevisionIds, NEW t \in tablesOf[r], TableEdit(r, t)
  PROVE  MutableIsUnshared'
<1> DEFINE v == DraftTable(t)
<1>1. /\ t \in TableVersions /\ v \in TableVersions
      /\ table[t].readonly => table[v] = None
      /\ ~table[t].readonly => v = t
  BY DraftTableFacts DEF TableEdit
<1>2. ASSUME NEW q \in RevisionIds \ {r}, NEW u \in tablesOf'[q]
      PROVE  u \in tablesOf[q] /\ u # v /\ table'[u] = table[u]
  BY EditIsIsolated
<1>3. ASSUME NEW u \in tablesOf'[r], u # v, ~table'[u].readonly
      PROVE  u \in tablesOf[r]
  <2>1. ~table[u].readonly
    BY <1>3, EditSparesSiblings
  <2>2. CASE \E h \in RevisionIds : IsHead(h) /\ u \in tablesOf[h]
    BY <2>1, <2>2 DEF IInv, HeadsAreCommitted, CommittedIsReadonly, Committed, IsHead, IsDraft
  <2>3. QED
    BY <1>3, <2>2, EditSparesSiblings
<1>4. ASSUME NEW p \in RevisionIds, NEW q \in RevisionIds, NEW u \in tablesOf'[p],
             ~table'[u].readonly, u \in tablesOf'[q]
      PROVE  p = q
  BY <1>2, <1>3, <1>4, UnsharedFacts
<1>5. ASSUME NEW q \in RevisionIds, NEW u \in tablesOf'[q], u # v
      PROVE  /\ \E p \in RevisionIds : u \in tablesOf[p]
             /\ rowsOf'[u] = rowsOf[u]
             /\ \A x \in rowsOf[u] : row'[x] = row[x]
  <2>1. CASE q = r
    BY <1>5, <2>1, EditSparesSiblings
  <2>2. CASE q # r
    BY <1>5, <2>2, EditIsIsolated
  <2>3. QED
    BY <2>1, <2>2
<1>6. ASSUME NEW q \in RevisionIds, NEW u \in tablesOf'[q], u # v,
             NEW x \in rowsOf'[u], x \in rowsOf'[v]
      PROVE  row'[x].readonly
  <2>1. PICK p \in RevisionIds : u \in tablesOf[p]
    BY <1>5, <1>6
  <2>2. x \in rowsOf[u] /\ row'[x] = row[x]
    BY <1>5, <1>6
  <2>3. x \notin Unused(row)
    BY <2>1, <2>2 DEF IInv, TypeOK, CommittedIsReadonly, Unused, Live
  <2>4. x \in rowsOf[t]
    BY <1>6, <2>3 DEF TableEdit
  <2>5. CASE table[t].readonly
    BY <1>1, <2>2, <2>4, <2>5 DEF IInv, CommittedIsReadonly
  <2>6. CASE ~table[t].readonly
    BY <1>1, <1>6, <2>1, <2>2, <2>4, <2>6, UnsharedFacts
  <2>7. QED
    BY <2>5, <2>6
<1>7. ASSUME NEW p \in RevisionIds, NEW q \in RevisionIds,
             NEW u \in tablesOf'[p], NEW w \in tablesOf'[q],
             NEW x \in rowsOf'[u], ~row'[x].readonly, x \in rowsOf'[w]
      PROVE  u = w
  <2>1. CASE u = v \/ w = v
    BY <1>6, <1>7, <2>1
  <2>2. CASE u # v /\ w # v
    BY <1>5, <1>7, <2>2, UnsharedFacts
  <2>3. QED
    BY <2>1, <2>2
<1>8. QED
  BY <1>4, <1>7, UnsharedSuffices DEF IInv

\* A step after which only tables are linked and mutable that were so before, in
\* the same revision, and the same for rows.
LEMMA LessIsShared ==
  ASSUME IInv, IInv', MutableIsUnshared,
         \A q \in RevisionIds : \A t \in tablesOf'[q] :
           /\ \E p \in RevisionIds : t \in tablesOf[p]
           /\ ~table'[t].readonly => t \in tablesOf[q] /\ ~table[t].readonly
           /\ rowsOf'[t] \subseteq rowsOf[t]
           /\ \A x \in rowsOf'[t] : ~row'[x].readonly => ~row[x].readonly
  PROVE  MutableIsUnshared'
<1>1. \A q, r \in RevisionIds : \A t \in tablesOf'[q] :
        ~table'[t].readonly /\ t \in tablesOf'[r] => q = r
  BY UnsharedFacts
<1>2. ASSUME NEW q \in RevisionIds, NEW r \in RevisionIds,
             NEW t \in tablesOf'[q], NEW u \in tablesOf'[r],
             NEW x \in rowsOf'[t], ~row'[x].readonly, x \in rowsOf'[u]
      PROVE  t = u
  BY <1>2, UnsharedFacts
<1>3. QED
  BY <1>1, <1>2, UnsharedSuffices DEF IInv

\* A new table is linked by this draft alone, and has no rows.
LEMMA CreateTableKeepsUnshared ==
  ASSUME IInv, IInv', MutableIsUnshared, NEW r \in RevisionIds, NEW n \in TableIds,
         CreateTable(r, n)
  PROVE  MutableIsUnshared'
<1> DEFINE v == NewId(table)
<1>1. v \in TableVersions /\ table[v] = None
  BY NewTableVersion DEF CreateTable, IInv
<1> HIDE DEF v
<1>2. /\ \A u \in TableVersions \ {v} : table'[u] = table[u]
      /\ \A q \in RevisionIds \ {r} : tablesOf'[q] = tablesOf[q]
      /\ tablesOf'[r] = tablesOf[r] \cup {v}
      /\ row' = row /\ rowsOf' = rowsOf
  BY DEF CreateTable, IInv, TypeOK, v
<1>3. \A q \in RevisionIds : v \notin tablesOf[q]
  BY <1>1 DEF IInv, CommittedIsReadonly
<1>4. rowsOf[v] = {}
  BY <1>1 DEF IInv, TypeOK, CommittedIsReadonly
<1>5. \A q \in RevisionIds : tablesOf[q] \subseteq TableVersions
  BY DEF IInv, TypeOK
<1>6. \A p, q \in RevisionIds : \A t \in tablesOf'[p] :
        ~table'[t].readonly /\ t \in tablesOf'[q] => p = q
  BY <1>2, <1>3, <1>5, UnsharedFacts
<1>7. ASSUME NEW p \in RevisionIds, NEW q \in RevisionIds,
             NEW t \in tablesOf'[p], NEW u \in tablesOf'[q],
             NEW x \in rowsOf'[t], ~row'[x].readonly, x \in rowsOf'[u]
      PROVE  t = u
  <2>1. t # v /\ u # v
    BY <1>2, <1>4, <1>7
  <2>2. t \in tablesOf[p] /\ u \in tablesOf[q]
    BY <1>2, <2>1
  <2>3. QED
    BY <1>2, <1>7, <2>2, UnsharedFacts
<1>8. QED
  BY <1>6, <1>7, UnsharedSuffices DEF IInv

\* What is unlinked or deleted is not shared afterwards.
LEMMA RemoveTableKeepsUnshared ==
  ASSUME IInv, IInv', MutableIsUnshared, NEW r \in RevisionIds, NEW t \in tablesOf[r],
         RemoveTable(r, t)
  PROVE  MutableIsUnshared'
<1>1. CASE table[t].readonly
  <2>1. /\ \A q \in RevisionIds : tablesOf'[q] \subseteq tablesOf[q]
        /\ UNCHANGED <<table, row, rowsOf>>
    BY <1>1 DEF RemoveTable, IInv, TypeOK
  <2>2. QED
    BY <2>1, LessIsShared
<1>2. CASE ~table[t].readonly
  <2>1. /\ \A q \in RevisionIds : tablesOf'[q] = tablesOf[q] \ {t}
        /\ \A u \in TableVersions \ {t} : table'[u] = table[u] /\ rowsOf'[u] = rowsOf[u]
        /\ \A x \in RowVersions : row'[x] = row[x] \/ row'[x] = None
    BY <1>2 DEF RemoveTable, IInv, TypeOK
  <2>2. \A u \in TableVersions : \A x \in rowsOf'[u] : x \in RowVersions /\ row'[x] # None
    BY DEF IInv, TypeOK, CommittedIsReadonly
  <2>3. \A q \in RevisionIds : tablesOf[q] \subseteq TableVersions
    BY DEF IInv, TypeOK
  <2>4. QED
    BY <2>1, <2>2, <2>3, LessIsShared
<1>3. QED
  BY <1>1, <1>2

\* What the next draft shares with the new head has been locked.
LEMMA CommitKeepsUnshared ==
  ASSUME IInv, IInv', MutableIsUnshared,
         NEW b \in Branches, NEW h \in RevisionIds, NEW r \in RevisionIds, Commit(b, h, r)
  PROVE  MutableIsUnshared'
<1> DEFINE locked == RowsToLock(h, r)
<1>1. PICK n \in RevisionIds : n = NewId(revision) /\ revision[n] = None
  BY NewRevision DEF Commit, IInv
<1>2. /\ tablesOf' = [tablesOf EXCEPT ![n] = tablesOf[r]]
      /\ row' = [x \in RowVersions |->
                   IF x \in locked THEN [row[x] EXCEPT !.readonly = TRUE] ELSE row[x]]
      /\ table' = [t \in TableVersions |->
                     IF t \in tablesOf[r] THEN [table[t] EXCEPT !.readonly = TRUE] ELSE table[t]]
      /\ rowsOf' = rowsOf
  BY <1>1 DEF Commit, LockRows, LockTables
<1> HIDE DEF locked
<1>3. /\ tablesOf'[n] = tablesOf[r]
      /\ \A q \in RevisionIds \ {n} : tablesOf'[q] = tablesOf[q]
  BY <1>2 DEF IInv, TypeOK
<1>4. \A q \in RevisionIds : \A t \in tablesOf[q] :
        /\ t \in TableVersions /\ table[t] \in TableRecord
        /\ \A x \in rowsOf[t] : x \in RowVersions /\ row[x] \in RowRecord
  BY DEF IInv, TypeOK, CommittedIsReadonly
<1>5. \A t \in TableVersions : table[t] \in TableRecord =>
        IF t \in tablesOf[r] THEN table'[t].readonly ELSE table'[t] = table[t]
  BY <1>2 DEF TableRecord
<1>6. \A x \in RowVersions : row[x] \in RowRecord => (~row'[x].readonly => ~row[x].readonly)
  BY <1>2 DEF RowRecord
<1>7. ASSUME NEW q \in RevisionIds, NEW t \in tablesOf'[q]
      PROVE  /\ \E p \in RevisionIds : t \in tablesOf[p]
             /\ ~table'[t].readonly => t \in tablesOf[q] /\ ~table[t].readonly
             /\ rowsOf'[t] \subseteq rowsOf[t]
             /\ \A x \in rowsOf'[t] : ~row'[x].readonly => ~row[x].readonly
  <2>1. PICK p \in RevisionIds : t \in tablesOf[p] /\ (q # n => p = q) /\ (q = n => p = r)
    BY <1>3, <1>7
  <2>2. ~table'[t].readonly => t \in tablesOf[q] /\ ~table[t].readonly
    BY <1>4, <1>5, <2>1
  <2>3. QED
    BY <1>2, <1>4, <1>6, <2>1, <2>2
<1>8. QED
  BY <1>7, LessIsShared

\* The draft gives up its own versions for the head's.
LEMMA RevertKeepsUnshared ==
  ASSUME IInv, IInv', MutableIsUnshared,
         NEW b \in Branches, NEW h \in RevisionIds, NEW r \in RevisionIds, Revert(b, h, r)
  PROVE  MutableIsUnshared'
<1>1. /\ \A q \in RevisionIds \ {r} : tablesOf'[q] = tablesOf[q]
      /\ tablesOf'[r] = tablesOf[h]
      /\ UNCHANGED <<table, row, rowsOf>>
  BY DEF Revert, IInv, TypeOK
<1>2. \A t \in tablesOf[h] : table[t].readonly
  BY DEF Revert, IInv, HeadsAreCommitted, CommittedIsReadonly, Committed, IsHead, IsDraft
<1>3. QED
  BY <1>1, <1>2, LessIsShared

\* A branch starts from a committed revision.
LEMMA CreateBranchKeepsUnshared ==
  ASSUME IInv, IInv', MutableIsUnshared,
         NEW source \in RevisionIds, NEW b \in Branches, CreateBranch(source, b)
  PROVE  MutableIsUnshared'
<1>1. /\ \A q \in RevisionIds : tablesOf'[q] = tablesOf[q] \/ tablesOf'[q] = tablesOf[source]
      /\ UNCHANGED <<table, row, rowsOf>>
  BY DEF CreateBranch, IInv, TypeOK
<1>2. \A t \in tablesOf[source] : table[t].readonly
  BY DEF CreateBranch, IInv, CommittedIsReadonly
<1>3. QED
  BY <1>1, <1>2, LessIsShared

\* Deletions share nothing.
LEMMA DeletionKeepsUnshared ==
  ASSUME IInv, IInv', MutableIsUnshared,
         DeleteOrphanTables \/ DeleteOrphanRows \/ \E b \in Branches : DeleteBranch(b)
  PROVE  MutableIsUnshared'
<1>1. CASE DeleteOrphanTables
  <2>1. \A q \in RevisionIds : \A t \in tablesOf[q] :
          t \in TableVersions /\ table'[t] = table[t] /\ rowsOf'[t] = rowsOf[t]
    BY <1>1 DEF DeleteOrphanTables, IInv, TypeOK
  <2>2. QED
    BY <1>1, <2>1, LessIsShared DEF DeleteOrphanTables
<1>2. CASE DeleteOrphanRows
  <2>1. \A t \in TableVersions : \A x \in rowsOf[t] : row'[x] = row[x]
    BY <1>2 DEF DeleteOrphanRows, IInv, TypeOK
  <2>2. \A q \in RevisionIds : tablesOf[q] \subseteq TableVersions
    BY DEF IInv, TypeOK
  <2>3. QED
    BY <1>2, <2>1, <2>2, LessIsShared DEF DeleteOrphanRows
<1>3. CASE \E b \in Branches : DeleteBranch(b)
  <2>1. /\ \A q \in RevisionIds : tablesOf'[q] \subseteq tablesOf[q]
        /\ UNCHANGED <<table, row, rowsOf>>
    BY <1>3 DEF DeleteBranch
  <2>2. QED
    BY <2>1, LessIsShared
<1>4. QED
  BY <1>1, <1>2, <1>3

\* Every operation keeps mutable versions unshared.
LEMMA StepKeepsUnshared == IInv /\ MutableIsUnshared /\ Next => MutableIsUnshared'
<1> SUFFICES ASSUME IInv, MutableIsUnshared, Next PROVE MutableIsUnshared'
  OBVIOUS
<1>1. IInv'
  BY StepKeeps
<1>2. ASSUME NEW r \in RevisionIds, EditTables(r)
      PROVE  MutableIsUnshared'
  BY <1>1, <1>2, CreateTableKeepsUnshared, RemoveTableKeepsUnshared,
     RenameTableIsEdit, EditKeepsUnshared DEF EditTables
<1>3. ASSUME NEW r \in RevisionIds, EditRows(r)
      PROVE  MutableIsUnshared'
  BY <1>1, <1>3, EditRowsIsEdit, EditKeepsUnshared
<1>4. QED
  BY <1>1, <1>2, <1>3, CommitKeepsUnshared, RevertKeepsUnshared,
     CreateBranchKeepsUnshared, DeletionKeepsUnshared DEF Next

\* A version that can still be edited in place is seen from one place only:
\* however branches are forked, committed and reverted, no operation clones too
\* late, relinks what another draft edits, or unlocks what is shared.
THEOREM MutableStaysUnshared == Spec => []MutableIsUnshared
<1>1. Init => MutableIsUnshared
  BY DEF Init, MutableIsUnshared, Live
<1>2. MutableIsUnshared /\ UNCHANGED vars => MutableIsUnshared'
  BY DEF vars, MutableIsUnshared, Live
<1>3. IInv /\ MutableIsUnshared /\ [Next]_vars => MutableIsUnshared'
  BY <1>2, StepKeepsUnshared
<1>4. QED
  BY <1>1, <1>3, InvariantHolds, PTL DEF Spec

-----------------------------------------------------------------------------
(* Names stay unique. *)

\* One revision's names.
NamesAreUniqueIn(q) ==
  \A t \in tablesOf[q] :
    /\ \A u \in tablesOf[q] : Folded[table[t].id] = Folded[table[u].id] => t = u
    /\ \A x, y \in rowsOf[t] : row[x].id = row[y].id => x = y

\* A revision whose tables, and whose rows, all were in one revision, and still
\* have the names they had.
LEMMA NamesFromBefore ==
  ASSUME NamesAreUnique, NEW q \in RevisionIds, NEW p \in RevisionIds,
         tablesOf'[q] \subseteq tablesOf[p],
         \A t \in tablesOf'[q] :
           /\ table'[t].id = table[t].id /\ rowsOf'[t] \subseteq rowsOf[t]
           /\ \A x \in rowsOf'[t] : row'[x].id = row[x].id
  PROVE  NamesAreUniqueIn(q)'
BY DEF NamesAreUnique, NamesAreUniqueIn

\* An edit answers for the names of the draft's tables, and of the rows it writes.
LEMMA EditKeepsNames ==
  ASSUME IInv, MutableIsUnshared, NamesAreUnique,
         NEW r \in RevisionIds, NEW t \in tablesOf[r], TableEdit(r, t),
         \A u, w \in tablesOf'[r] : Folded[table'[u].id] = Folded[table'[w].id] => u = w,
         \A x, y \in rowsOf'[DraftTable(t)] : row'[x].id = row'[y].id => x = y
  PROVE  NamesAreUnique'
<1>1. ASSUME NEW q \in RevisionIds \ {r}
      PROVE  NamesAreUniqueIn(q)'
  BY EditIsIsolated, NamesFromBefore
<1>2. ASSUME NEW u \in tablesOf'[r], u # DraftTable(t)
      PROVE  \A x, y \in rowsOf'[u] : row'[x].id = row'[y].id => x = y
  BY <1>2, EditSparesSiblings DEF NamesAreUnique
<1>3. NamesAreUniqueIn(r)'
  BY <1>2 DEF NamesAreUniqueIn
<1>4. QED
  BY <1>1, <1>3 DEF NamesAreUnique, NamesAreUniqueIn

\* A table that is saved under its own name, or under one that is not taken.
LEMMA SaveTableKeepsNames ==
  ASSUME IInv, MutableIsUnshared, NamesAreUnique,
         NEW r \in RevisionIds, NEW t \in tablesOf[r], TableEdit(r, t),
         NEW name \in TableIds, NEW rows \in SUBSET RowVersions, SaveTable(r, t, name, rows),
         name = table[t].id \/ ~NameTaken(r, name),
         \A x, y \in rows : row'[x].id = row'[y].id => x = y
  PROVE  NamesAreUnique'
<1> DEFINE v == DraftTable(t)
<1>1. /\ t \in TableVersions /\ v \in TableVersions
      /\ table[t].readonly => table[v] = None
      /\ ~table[t].readonly => v = t
  BY DraftTableFacts DEF TableEdit
<1>2. /\ tablesOf'[r] = (tablesOf[r] \ {t}) \cup {v}
      /\ table'[v].id = name /\ rowsOf'[v] = rows
      /\ \A u \in TableVersions \ {v} : table'[u] = table[u]
  BY <1>1 DEF SaveTable, IInv, TypeOK
<1>3. \A u \in tablesOf[r] \ {t} : u # v /\ table'[u] = table[u]
  BY <1>1, <1>2 DEF IInv, TypeOK, CommittedIsReadonly
<1>4. \A u \in tablesOf[r] \ {t} : Folded[table[u].id] # Folded[name]
  BY DEF NamesAreUnique, NameTaken
<1>5. \A u, w \in tablesOf[r] \ {t} : Folded[table[u].id] = Folded[table[w].id] => u = w
  BY DEF NamesAreUnique
<1>6. ASSUME NEW u \in tablesOf'[r], NEW w \in tablesOf'[r],
             Folded[table'[u].id] = Folded[table'[w].id]
      PROVE  u = w
  BY <1>2, <1>3, <1>4, <1>5, <1>6
<1>7. QED
  BY <1>2, <1>6, EditKeepsNames

\* Rows saved under different names, none of them one of the table's other rows,
\* have different names: touching gives each its own version.
LEMMA TouchedNames ==
  ASSUME IInv, NEW t \in TableVersions, NEW S \in SUBSET rowsOf[t],
         RowTouches(S) # {},
         NEW name \in [S -> RowIds], NEW data \in [S -> Data],
         SaveRows(S, name, data),
         \A x, y \in S : name[x] = name[y] => x = y,
         \A x \in rowsOf[t] \ S : \A y \in S : row[x].id # name[y],
         \A x, y \in rowsOf[t] : row[x].id = row[y].id => x = y
  PROVE  \A x, y \in RowsTouched(t, S) : row'[x].id = row'[y].id => x = y
<1> DEFINE w == TouchRows(S)
           source(y) == CHOOSE x \in S : w[x] = y
           saved(y) == [createdId |-> row[source(y)].createdId, id |-> name[source(y)],
                        readonly |-> FALSE, data |-> data[source(y)]]
<1>1. w \in RowTouches(S)
  BY DEF TouchRows
<1>2. /\ w \in [S -> RowVersions]
      /\ \A x, y \in S : w[x] = w[y] => x = y
      /\ \A x \in S : IF row[x].readonly THEN row[w[x]] = None ELSE w[x] = x
  BY <1>1 DEF RowTouches, Injection, IsInjective, Unused, Live, IInv, TypeOK
<1>3. Range(w) = {w[x] : x \in S}
  BY <1>2 DEF Range
<1>4. row' = [y \in RowVersions |-> IF y \in Range(w) THEN saved(y) ELSE row[y]]
  BY DEF SaveRows
<1>5. \A y \in Range(w) : source(y) \in S /\ w[source(y)] = y
  BY <1>3
<1>6. \A y : saved(y).id = name[source(y)]
  OBVIOUS
<1>7. RowsTouched(t, S) = (rowsOf[t] \ S) \cup Range(w)
  BY DEF RowsTouched
<1> HIDE DEF source, saved, w
<1>8. \A y \in Range(w) : y \in RowVersions /\ row'[y].id = name[source(y)]
  BY <1>2, <1>3, <1>4, <1>6
<1>9. \A y \in rowsOf[t] \ S : y \in RowVersions /\ row'[y] = row[y]
  <2>1. \A y \in rowsOf[t] \ S : y \in RowVersions /\ row[y] # None
    BY DEF IInv, TypeOK, CommittedIsReadonly
  <2>2. \A y \in rowsOf[t] \ S : y \notin Range(w)
    BY <1>2, <1>3, <2>1
  <2>3. QED
    BY <1>4, <2>1, <2>2
<1>10. QED
  BY <1>2, <1>5, <1>7, <1>8, <1>9

\* A new table's name is not taken, in any case.
LEMMA CreateTableKeepsNames ==
  ASSUME IInv, NamesAreUnique, NEW r \in RevisionIds, NEW n \in TableIds, CreateTable(r, n)
  PROVE  NamesAreUnique'
<1> DEFINE v == NewId(table)
<1>1. v \in TableVersions /\ table[v] = None
  BY NewTableVersion DEF CreateTable, IInv
<1> HIDE DEF v
<1>2. /\ \A u \in TableVersions \ {v} : table'[u] = table[u]
      /\ \A q \in RevisionIds \ {r} : tablesOf'[q] = tablesOf[q]
      /\ tablesOf'[r] = tablesOf[r] \cup {v}
      /\ row' = row /\ rowsOf' = rowsOf /\ table'[v].id = n
  BY <1>1 DEF CreateTable, IInv, TypeOK, v
<1>3. \A q \in RevisionIds : \A t \in tablesOf[q] : t # v /\ table'[t] = table[t]
  BY <1>1, <1>2 DEF IInv, TypeOK, CommittedIsReadonly
<1>4. rowsOf[v] = {}
  BY <1>1 DEF IInv, TypeOK, CommittedIsReadonly
<1>5. \A q \in RevisionIds \ {r} : NamesAreUniqueIn(q)'
  BY <1>2, <1>3, NamesFromBefore
<1>6. \A u \in tablesOf[r] : Folded[table'[u].id] # Folded[table'[v].id]
  BY <1>2, <1>3 DEF CreateTable, NameTaken
<1>7. ASSUME NEW t \in tablesOf'[r]
      PROVE  /\ \A u \in tablesOf'[r] : Folded[table'[t].id] = Folded[table'[u].id] => t = u
             /\ \A x, y \in rowsOf'[t] : row'[x].id = row'[y].id => x = y
  BY <1>2, <1>3, <1>4, <1>6 DEF NamesAreUnique
<1>8. QED
  BY <1>5, <1>7 DEF NamesAreUnique, NamesAreUniqueIn

\* The new name is taken by no table, in any case.
LEMMA RenameTableKeepsNames ==
  ASSUME IInv, MutableIsUnshared, NamesAreUnique,
         NEW r \in RevisionIds, NEW t \in tablesOf[r], NEW n \in TableIds, RenameTable(r, t, n)
  PROVE  NamesAreUnique'
<1>1. rowsOf[t] \in SUBSET RowVersions
  BY DEF IInv, TypeOK
<1>2. \A x, y \in rowsOf[t] : row'[x].id = row'[y].id => x = y
  BY DEF RenameTable, NamesAreUnique
<1>3. QED
  BY <1>1, <1>2, RenameTableIsEdit, SaveTableKeepsNames DEF RenameTable

\* The new row's name is not taken in its table.
LEMMA CreateRowKeepsNames ==
  ASSUME IInv, MutableIsUnshared, NamesAreUnique,
         NEW r \in RevisionIds, NEW t \in tablesOf[r],
         NEW n \in RowIds, NEW d \in Data, CreateRow(r, t, n, d)
  PROVE  NamesAreUnique'
<1> DEFINE v == NewId(row)
<1>1. v \in RowVersions /\ row[v] = None
  BY NewRowVersion DEF CreateRow, IInv
<1> HIDE DEF v
<1>2. /\ row'[v].id = n
      /\ \A x \in RowVersions \ {v} : row'[x] = row[x]
  BY <1>1 DEF CreateRow, IInv, TypeOK, v
<1>3. t \in TableVersions /\ table[t].id \in TableIds
  BY DraftTableFacts DEF CreateRow, TableRecord
<1>4. \A x \in rowsOf[t] : x \in RowVersions \ {v} /\ row[x].id # n
  BY <1>1, <1>3 DEF CreateRow, IInv, TypeOK, CommittedIsReadonly
<1>5. \A x, y \in rowsOf[t] \cup {v} : row'[x].id = row'[y].id => x = y
  BY <1>2, <1>4 DEF NamesAreUnique
<1>6. /\ SaveTable(r, t, table[t].id, rowsOf[t] \cup {v})
      /\ rowsOf[t] \cup {v} \in SUBSET RowVersions
  BY <1>1, <1>4 DEF CreateRow, v
<1>7. QED
  BY <1>3, <1>5, <1>6, CreateRowIsEdit, SaveTableKeepsNames

\* Touched rows keep their names.
LEMMA UpdateRowsKeepsNames ==
  ASSUME IInv, MutableIsUnshared, NamesAreUnique,
         NEW r \in RevisionIds, NEW t \in tablesOf[r],
         NEW S, NEW d \in Data, UpdateRows(r, t, S, d)
  PROVE  NamesAreUnique'
<1> DEFINE name == [x \in S |-> row[x].id]
           data == [x \in S |-> d]
<1>1. t \in TableVersions /\ table[t].id \in TableIds /\ S \in SUBSET rowsOf[t]
  BY DraftTableFacts DEF UpdateRows, TableRecord
<1>2. \A x \in S : row[x] \in RowRecord
  BY <1>1 DEF IInv, TypeOK, CommittedIsReadonly
<1>3. name \in [S -> RowIds] /\ data \in [S -> Data] /\ \A x \in S : name[x] = row[x].id
  BY <1>2 DEF RowRecord
<1>4. SaveRows(S, name, data) /\ RowTouches(S) # {} /\ IsDraft(r) /\ CanTouch(t)
      /\ SaveTable(r, t, table[t].id, RowsTouched(t, S))
  BY DEF UpdateRows
<1> HIDE DEF name, data
<1>5. \A x, y \in rowsOf[t] : row[x].id = row[y].id => x = y
  BY DEF NamesAreUnique
<1>6. \A x, y \in RowsTouched(t, S) : row'[x].id = row'[y].id => x = y
  <2>1. \A x, y \in S : name[x] = name[y] => x = y
    BY <1>1, <1>3, <1>5
  <2>2. \A x \in rowsOf[t] \ S : \A y \in S : row[x].id # name[y]
    BY <1>1, <1>3, <1>5
  <2>3. QED
    BY <1>1, <1>3, <1>4, <1>5, <2>1, <2>2, TouchedNames
<1>7. RowsTouched(t, S) \in SUBSET RowVersions
  BY <1>1, <1>3, <1>4, SaveRowsFacts
<1>8. TableEdit(r, t)
  BY <1>1, <1>3, <1>4, SaveRowsIsEdit
<1>9. QED
  BY <1>1, <1>4, <1>6, <1>7, <1>8, SaveTableKeepsNames

\* New names are different, and no other row of the table has one of them.
LEMMA RenameRowsKeepsNames ==
  ASSUME IInv, MutableIsUnshared, NamesAreUnique,
         NEW r \in RevisionIds, NEW t \in tablesOf[r],
         NEW S, NEW name \in Injection(S, RowIds), RenameRows(r, t, S, name)
  PROVE  NamesAreUnique'
<1> DEFINE data == [x \in S |-> row[x].data]
<1>1. t \in TableVersions /\ table[t].id \in TableIds /\ S \in SUBSET rowsOf[t]
  BY DraftTableFacts DEF RenameRows, TableRecord
<1>2. \A x \in S : row[x] \in RowRecord
  BY <1>1 DEF IInv, TypeOK, CommittedIsReadonly
<1>3. data \in [S -> Data]
  BY <1>2 DEF RowRecord
<1>4. name \in [S -> RowIds] /\ \A x, y \in S : name[x] = name[y] => x = y
  BY DEF Injection, IsInjective
<1>5. SaveRows(S, name, data) /\ RowTouches(S) # {} /\ IsDraft(r) /\ CanTouch(t)
      /\ SaveTable(r, t, table[t].id, RowsTouched(t, S))
  BY DEF RenameRows
<1> HIDE DEF data
<1>6. \A x \in rowsOf[t] \ S : \A y \in S : row[x].id # name[y]
  BY <1>4 DEF RenameRows, Range
<1>7. \A x, y \in rowsOf[t] : row[x].id = row[y].id => x = y
  BY DEF NamesAreUnique
<1>8. \A x, y \in RowsTouched(t, S) : row'[x].id = row'[y].id => x = y
  BY <1>1, <1>3, <1>4, <1>5, <1>6, <1>7, TouchedNames
<1>9. RowsTouched(t, S) \in SUBSET RowVersions
  BY <1>1, <1>3, <1>4, <1>5, SaveRowsFacts
<1>10. TableEdit(r, t)
  BY <1>1, <1>3, <1>4, <1>5, SaveRowsIsEdit
<1>11. QED
  BY <1>1, <1>5, <1>8, <1>9, <1>10, SaveTableKeepsNames

\* The head's table, which is linked by name, is the only one of that name in
\* the head, and no other of the draft's tables has it.
LEMMA RemoveRowsKeepsNames ==
  ASSUME IInv, DraftFollowsHead, MutableIsUnshared, NamesAreUnique,
         NEW r \in RevisionIds, NEW t \in tablesOf[r], NEW S, RemoveRows(r, t, S)
  PROVE  NamesAreUnique'
<1> DEFINE v == DraftTable(t)
           removed == {x \in S : ~row[x].readonly}
           kept == rowsOf[t] \ S
           inHead == UNION {Named(h, table[t].id) :
                        h \in {q \in RevisionsOf(revision[r].branch) : IsHead(q)}}
<1>1. /\ t \in TableVersions /\ v \in TableVersions
      /\ table[t].readonly => table[v] = None
      /\ ~table[t].readonly => v = t
  BY DraftTableFacts DEF RemoveRows
<1>2. /\ table' = [table EXCEPT ![v] =
             [createdId |-> table[t].createdId, id |-> table[t].id, readonly |-> FALSE]]
      /\ row' = [x \in RowVersions |-> IF x \in removed THEN None ELSE row[x]]
      /\ rowsOf' = [u \in TableVersions |-> IF u = v THEN kept ELSE rowsOf[u] \ removed]
      /\ IsDraft(r)
  BY DEF RemoveRows
<1>3. PICK linked \in {inHead, {v}} : tablesOf' = [tablesOf EXCEPT ![r] = (@ \ {t}) \cup linked]
  <2>1. AfterRemoval(r, t, kept, removed) \in {inHead, {v}}
    BY Zenon DEF AfterRemoval
  <2>2. QED
    BY <2>1 DEF RemoveRows
<1>4. PICK h \in RevisionIds : IsHead(h) /\ \A u \in inHead : u \in tablesOf[h] /\ table[u].id = table[t].id
  <2>1. \A q \in RevisionIds : IsHead(q) /\ revision[q].branch = revision[r].branch =>
          q = revision[r].parent
    BY <1>2, DraftOnHead
  <2>2. revision[r].parent \in RevisionIds /\ IsHead(revision[r].parent)
    BY <1>2, DraftOnHead
  <2>3. \A u \in inHead : u \in tablesOf[revision[r].parent] /\ table[u].id = table[t].id
    BY <2>1 DEF RevisionsOf, Named
  <2>4. QED
    BY <2>2, <2>3
<1> HIDE DEF inHead
<1>5. /\ table'[v].id = table[t].id /\ \A u \in TableVersions \ {v} : table'[u] = table[u]
      /\ tablesOf'[r] = (tablesOf[r] \ {t}) \cup linked
  BY <1>1, <1>2, <1>3 DEF IInv, TypeOK
<1>6. \A u \in tablesOf[r] \ {t} :
        u # v /\ table'[u] = table[u] /\ Folded[table[u].id] # Folded[table[t].id]
  BY <1>1, <1>5 DEF IInv, TypeOK, CommittedIsReadonly, NamesAreUnique
<1>7. \A u \in inHead : u # v /\ table'[u] = table[u]
  <2>1. h # r
    BY <1>2, <1>4 DEF IInv, HeadsAreCommitted
  <2>2. TableEdit(r, t)
    BY RemoveRowsIsEdit
  <2>3. QED
    BY <1>4, <2>1, <2>2, EditIsIsolated
<1>8. ASSUME NEW u \in linked, NEW w \in linked
      PROVE  u = w
  BY <1>4 DEF NamesAreUnique
<1>9. \A u \in linked : table'[u].id = table[t].id
  BY <1>4, <1>5, <1>7
<1>10. ASSUME NEW u \in tablesOf'[r], NEW w \in tablesOf'[r],
              Folded[table'[u].id] = Folded[table'[w].id]
       PROVE  u = w
  BY <1>5, <1>6, <1>8, <1>9, <1>10 DEF NamesAreUnique
<1>11. \A x \in kept : row'[x] = row[x]
  BY <1>1, <1>2 DEF IInv, TypeOK
<1>12. \A x, y \in rowsOf'[v] : row'[x].id = row'[y].id => x = y
  BY <1>1, <1>2, <1>11 DEF NamesAreUnique
<1>13. QED
  BY <1>10, <1>12, RemoveRowsIsEdit, EditKeepsNames

\* A commit only locks: every table and row keeps its name, identity and content.
LEMMA CommitOnlyLocks ==
  ASSUME IInv, NEW b \in Branches, NEW h \in RevisionIds, NEW r \in RevisionIds, Commit(b, h, r)
  PROVE  /\ tablesOf'[NewId(revision)] = tablesOf[r]
         /\ \A q \in RevisionIds \ {NewId(revision)} : tablesOf'[q] = tablesOf[q]
         /\ rowsOf' = rowsOf
         /\ \A q \in RevisionIds : \A t \in tablesOf[q] :
              /\ table'[t].createdId = table[t].createdId /\ table'[t].id = table[t].id
              /\ \A x \in rowsOf[t] :
                   /\ row'[x].createdId = row[x].createdId /\ row'[x].id = row[x].id
                   /\ row'[x].data = row[x].data
<1> DEFINE locked == RowsToLock(h, r)
<1>1. PICK n \in RevisionIds : n = NewId(revision) /\ revision[n] = None
  BY NewRevision DEF Commit, IInv
<1>2. /\ tablesOf' = [tablesOf EXCEPT ![n] = tablesOf[r]]
      /\ row' = [x \in RowVersions |->
                   IF x \in locked THEN [row[x] EXCEPT !.readonly = TRUE] ELSE row[x]]
      /\ table' = [t \in TableVersions |->
                     IF t \in tablesOf[r] THEN [table[t] EXCEPT !.readonly = TRUE] ELSE table[t]]
      /\ rowsOf' = rowsOf
  BY <1>1 DEF Commit, LockRows, LockTables
<1> HIDE DEF locked
<1>3. \A q \in RevisionIds : \A t \in tablesOf[q] :
        /\ t \in TableVersions /\ table[t] \in TableRecord
        /\ \A x \in rowsOf[t] : x \in RowVersions /\ row[x] \in RowRecord
  BY DEF IInv, TypeOK, CommittedIsReadonly
<1>4. \A t \in TableVersions : table[t] \in TableRecord =>
        table'[t].createdId = table[t].createdId /\ table'[t].id = table[t].id
  BY <1>2 DEF TableRecord
<1>5. \A x \in RowVersions : row[x] \in RowRecord =>
        /\ row'[x].createdId = row[x].createdId /\ row'[x].id = row[x].id
        /\ row'[x].data = row[x].data
  BY <1>2 DEF RowRecord
<1>6. QED
  BY <1>1, <1>2, <1>3, <1>4, <1>5 DEF IInv, TypeOK

\* A removal of a table takes nothing of another.
LEMMA RemoveTableOnlyUnlinks ==
  ASSUME IInv, NEW r \in RevisionIds, NEW t \in tablesOf[r], RemoveTable(r, t)
  PROVE  /\ tablesOf'[r] = tablesOf[r] \ {t}
         /\ \A q \in RevisionIds : tablesOf'[q] \subseteq tablesOf[q]
         /\ \A q \in RevisionIds : tablesOf'[q] # tablesOf[q] =>
              q = r \/ (t \in tablesOf[q] /\ ~table[t].readonly)
         /\ \A q \in RevisionIds : \A u \in tablesOf'[q] :
              /\ table'[u] = table[u] /\ rowsOf'[u] = rowsOf[u]
              /\ \A x \in rowsOf[u] : row'[x] = row[x]
<1>1. CASE table[t].readonly
  <2>1. tablesOf' = [tablesOf EXCEPT ![r] = @ \ {t}] /\ UNCHANGED <<table, row, rowsOf>>
    BY <1>1 DEF RemoveTable
  <2>2. QED
    BY <2>1 DEF IInv, TypeOK
<1>2. CASE ~table[t].readonly
  <2> DEFINE gone == {x \in rowsOf[t] : \A u \in TableVersions \ {t} : x \notin rowsOf[u]}
  <2>1. /\ tablesOf' = [q \in RevisionIds |-> tablesOf[q] \ {t}]
        /\ table' = [table EXCEPT ![t] = None]
        /\ row' = [x \in RowVersions |-> IF x \in gone THEN None ELSE row[x]]
        /\ rowsOf' = [rowsOf EXCEPT ![t] = {}]
    BY <1>2 DEF RemoveTable
  <2>2. \A u \in TableVersions \ {t} : table'[u] = table[u] /\ rowsOf'[u] = rowsOf[u]
    BY <2>1 DEF IInv, TypeOK
  <2>3. \A u \in TableVersions \ {t} : \A x \in rowsOf[u] : row'[x] = row[x]
    BY <2>1 DEF IInv, TypeOK
  <2>4. \A q \in RevisionIds : tablesOf'[q] = tablesOf[q] \ {t} /\ tablesOf[q] \subseteq TableVersions
    BY <2>1 DEF IInv, TypeOK
  <2>5. ASSUME NEW q \in RevisionIds, NEW u \in tablesOf'[q]
        PROVE  u \in TableVersions \ {t}
    BY <2>4
  <2>6. /\ tablesOf'[r] = tablesOf[r] \ {t}
        /\ \A q \in RevisionIds : tablesOf'[q] \subseteq tablesOf[q]
        /\ \A q \in RevisionIds : tablesOf'[q] # tablesOf[q] =>
             q = r \/ (t \in tablesOf[q] /\ ~table[t].readonly)
    <3> HIDE DEF gone
    <3>1. QED
      BY <1>2, <2>4
  <2>7. \A q \in RevisionIds : \A u \in tablesOf'[q] :
          /\ table'[u] = table[u] /\ rowsOf'[u] = rowsOf[u]
          /\ \A x \in rowsOf[u] : row'[x] = row[x]
    BY <2>2, <2>3, <2>5
  <2>8. QED
    BY <2>6, <2>7
<1>3. QED
  BY <1>1, <1>2

\* The cleanup takes nothing that is linked.
LEMMA CleanupSparesLinked ==
  ASSUME IInv, DeleteOrphanTables \/ DeleteOrphanRows
  PROVE  /\ UNCHANGED <<revision, tablesOf>>
         /\ \A q \in RevisionIds : \A t \in tablesOf[q] :
              /\ table'[t] = table[t] /\ rowsOf'[t] = rowsOf[t]
              /\ \A x \in rowsOf[t] : row'[x] = row[x]
<1>1. CASE DeleteOrphanTables
  BY <1>1 DEF DeleteOrphanTables, IInv, TypeOK
<1>2. CASE DeleteOrphanRows
  BY <1>2 DEF DeleteOrphanRows, IInv, TypeOK
<1>3. QED
  BY <1>1, <1>2

\* Operations on whole revisions, and removals, bring no new name into one.
LEMMA OthersKeepNames ==
  ASSUME IInv, NamesAreUnique,
         \/ \E r \in RevisionIds : \E t \in tablesOf[r] : RemoveTable(r, t)
         \/ \E b \in Branches, h, r \in RevisionIds : Commit(b, h, r) \/ Revert(b, h, r)
         \/ \E source \in RevisionIds, b \in Branches : CreateBranch(source, b)
         \/ \E b \in Branches : DeleteBranch(b)
         \/ DeleteOrphanTables \/ DeleteOrphanRows
  PROVE  NamesAreUnique'
<1>1. SUFFICES ASSUME NEW q \in RevisionIds
               PROVE  NamesAreUniqueIn(q)'
  BY DEF NamesAreUnique, NamesAreUniqueIn
<1>2. ASSUME NEW r \in RevisionIds, NEW t \in tablesOf[r], RemoveTable(r, t)
      PROVE  NamesAreUniqueIn(q)'
  BY <1>2, RemoveTableOnlyUnlinks, NamesFromBefore
<1>3. ASSUME NEW b \in Branches, NEW h \in RevisionIds, NEW r \in RevisionIds, Commit(b, h, r)
      PROVE  NamesAreUniqueIn(q)'
  BY <1>3, CommitOnlyLocks, NamesFromBefore
<1>4. ASSUME NEW b \in Branches, NEW h \in RevisionIds, NEW r \in RevisionIds, Revert(b, h, r)
      PROVE  NamesAreUniqueIn(q)'
  <2>1. /\ tablesOf'[q] = tablesOf[q] \/ tablesOf'[q] = tablesOf[h]
        /\ UNCHANGED <<table, row, rowsOf>>
    BY <1>4 DEF Revert, IInv, TypeOK
  <2>2. QED
    BY <2>1, NamesFromBefore
<1>5. ASSUME NEW source \in RevisionIds, NEW b \in Branches, CreateBranch(source, b)
      PROVE  NamesAreUniqueIn(q)'
  <2>1. /\ tablesOf'[q] = tablesOf[q] \/ tablesOf'[q] = tablesOf[source]
        /\ UNCHANGED <<table, row, rowsOf>>
    BY <1>5 DEF CreateBranch, IInv, TypeOK
  <2>2. QED
    BY <2>1, NamesFromBefore
<1>6. ASSUME NEW b \in Branches, DeleteBranch(b)
      PROVE  NamesAreUniqueIn(q)'
  <2>1. tablesOf'[q] \subseteq tablesOf[q] /\ UNCHANGED <<table, row, rowsOf>>
    BY <1>6 DEF DeleteBranch
  <2>2. QED
    BY <2>1, NamesFromBefore
<1>7. ASSUME DeleteOrphanTables \/ DeleteOrphanRows
      PROVE  NamesAreUniqueIn(q)'
  BY <1>7, CleanupSparesLinked, NamesFromBefore
<1>8. QED
  BY <1>2, <1>3, <1>4, <1>5, <1>6, <1>7

\* Every operation keeps names unique.
LEMMA StepKeepsNames ==
  IInv /\ BInv /\ MutableIsUnshared /\ NamesAreUnique /\ Next => NamesAreUnique'
<1> SUFFICES ASSUME IInv, BInv, MutableIsUnshared, NamesAreUnique, Next
             PROVE  NamesAreUnique'
  OBVIOUS
<1>1. ASSUME NEW r \in RevisionIds, EditTables(r)
      PROVE  NamesAreUnique'
  BY <1>1, CreateTableKeepsNames, RenameTableKeepsNames, OthersKeepNames DEF EditTables
<1>2. ASSUME NEW r \in RevisionIds, EditRows(r)
      PROVE  NamesAreUnique'
  BY <1>2, CreateRowKeepsNames, UpdateRowsKeepsNames, RenameRowsKeepsNames,
     RemoveRowsKeepsNames DEF EditRows, BInv
<1>3. QED
  BY <1>1, <1>2, OthersKeepNames DEF Next

\* In every revision a name, in any case, belongs to one table, and in a table to
\* one row: also where a table is relinked by name, rows swap names in one
\* request, or a clone takes the place of what it was cloned from.
THEOREM NamesStayUnique == Spec => []NamesAreUnique
<1>1. Init => NamesAreUnique
  BY DEF Init, NamesAreUnique
<1>2. NamesAreUnique /\ UNCHANGED vars => NamesAreUnique'
  BY DEF vars, NamesAreUnique
<1>3. IInv /\ BInv /\ MutableIsUnshared /\ NamesAreUnique /\ [Next]_vars => NamesAreUnique'
  BY <1>2, StepKeepsNames
<1>4. QED
  BY <1>1, <1>3, InvariantHolds, BranchInvariantHolds, MutableStaysUnshared, PTL DEF Spec

-----------------------------------------------------------------------------
(* hasChanges. *)

\* hasChanges of this draft is what it should be with respect to this head.
ExactFor(d, h) ==
  /\ ~revision[d].hasChanges => tablesOf[d] = tablesOf[h]
  /\ /\ revision[d].hasChanges
     /\ \A t, u \in tablesOf[h] : table[t].createdId = table[u].createdId => t = u
     => tablesOf[d] # tablesOf[h]

\* The comparison's full outer join tells sets of versions apart, ...
LEMMA JoinFindsDifferences ==
  ASSUME NEW tables, NEW from, NEW to, ~TableSetsDiffer(tables, from, to)
  PROVE  from = to
BY DEF TableSetsDiffer

\* ... and takes none for different that has one version to a logical table.
LEMMA JoinFindsNoOther ==
  ASSUME NEW tables, NEW from,
         \A t, u \in from : tables[t].createdId = tables[u].createdId => t = u
  PROVE  ~TableSetsDiffer(tables, from, from)
BY DEF TableSetsDiffer

\* A branch whose head and draft keep their tables.
LEMMA StaysExact ==
  ASSUME IInv, HasChangesIsExact, NEW d \in RevisionIds, NEW h \in RevisionIds,
         IsDraft(d), IsHead(h), revision[d].branch = revision[h].branch,
         revision'[d].hasChanges = revision[d].hasChanges,
         tablesOf'[d] = tablesOf[d], tablesOf'[h] = tablesOf[h],
         \A t \in tablesOf[h] : table'[t].createdId = table[t].createdId
  PROVE  ExactFor(d, h)'
<1>1. d \in Live(revision) /\ h \in Live(revision)
  BY DEF IInv, TypeOK, Live, IsDraft, IsHead, IsLive
<1>2. QED
  BY <1>1 DEF HasChangesIsExact, ExactFor

\* The pairs of a head and a draft are what there is to show.
LEMMA ExactSuffices ==
  ASSUME IInv',
         \A d, h \in RevisionIds :
           IsDraft(d)' /\ IsHead(h)' /\ revision'[d].branch = revision'[h].branch => ExactFor(d, h)'
  PROVE  HasChangesIsExact'
<1>1. \A q \in Live(revision)' : q \in RevisionIds
  BY DEF IInv, TypeOK, Live
<1>2. QED
  BY <1>1 DEF HasChangesIsExact, ExactFor

\* An edit that other revisions do not see, and that either compares the draft
\* with the head or leaves a mutable table in it, which no head has.
LEMMA EditKeepsExact ==
  ASSUME IInv, IInv', BInv, HasChangesIsExact,
         NEW r \in RevisionIds, EditTables(r) \/ EditRows(r),
         \A q \in RevisionIds \ {r} :
           /\ tablesOf'[q] = tablesOf[q]
           /\ \A t \in tablesOf[q] : table'[t].createdId = table[t].createdId,
         \/ UpdateHasChanges(r)
         \/ MarkChanged(r) /\ \E v \in tablesOf'[r] : ~table'[v].readonly
  PROVE  HasChangesIsExact'
<1>1. /\ IsDraft(r)
      /\ \A q \in RevisionIds : SamePlace(q)
      /\ \A q \in RevisionIds \ {r} : revision'[q] = revision[q]
  BY EditStays
<1>2. SUFFICES ASSUME NEW d \in RevisionIds, NEW h \in RevisionIds,
                      IsDraft(d)', IsHead(h)', revision'[d].branch = revision'[h].branch
               PROVE  ExactFor(d, h)'
  BY ExactSuffices
<1>3. IsDraft(d) /\ IsHead(h) /\ revision[d].branch = revision[h].branch
  BY <1>1, <1>2 DEF SamePlace, IsDraft, IsHead
<1>4. h # r
  BY <1>1, <1>3 DEF IInv, HeadsAreCommitted
<1>5. CASE d # r
  BY <1>1, <1>3, <1>4, <1>5, StaysExact
<1>6. CASE d = r /\ UpdateHasChanges(r)
  <2>1. revision[r].parent = h
    BY <1>3, <1>6, DraftOnHead DEF BInv
  <2>2. TableSetsDiffer(table', tablesOf'[h], tablesOf'[r]) \in BOOLEAN
    BY DEF TableSetsDiffer
  <2>3. revision'[r].hasChanges = TableSetsDiffer(table', tablesOf'[h], tablesOf'[r])
    BY <1>1, <2>1, <2>2, MarkChangedStays, <1>6 DEF UpdateHasChanges
  <2>4. CASE ~revision'[r].hasChanges
    BY <1>6, <2>3, <2>4, JoinFindsDifferences DEF ExactFor
  <2>5. CASE revision'[r].hasChanges
    <3>1. ASSUME \A t, u \in tablesOf'[h] : table'[t].createdId = table'[u].createdId => t = u,
                 tablesOf'[r] = tablesOf'[h]
          PROVE  FALSE
      BY <2>3, <2>5, <3>1, JoinFindsNoOther
    <3>2. QED
      BY <1>6, <2>5, <3>1 DEF ExactFor
  <2>6. QED
    BY <2>4, <2>5
<1>7. CASE d = r /\ MarkChanged(r) /\ \E v \in tablesOf'[r] : ~table'[v].readonly
  <2>1. revision'[r].hasChanges
    BY <1>1, <1>7, MarkChangedStays DEF MarkChanged
  <2>2. Committed(h)'
    BY <1>2 DEF IInv, HeadsAreCommitted, Committed, IsHead, IsDraft
  <2>3. \A u \in tablesOf'[h] : table'[u].readonly
    BY <2>2 DEF IInv, CommittedIsReadonly
  <2>4. QED
    BY <1>7, <2>1, <2>3 DEF ExactFor
<1>8. QED
  BY <1>5, <1>6, <1>7

\* Every edit is one of these.
LEMMA EditsKeepExact ==
  ASSUME IInv, IInv', BInv, MutableIsUnshared, HasChangesIsExact,
         NEW r \in RevisionIds, EditTables(r) \/ EditRows(r)
  PROVE  HasChangesIsExact'
<1>1. ASSUME NEW n \in TableIds, CreateTable(r, n)
      PROVE  HasChangesIsExact'
  <2>1. NewId(table) \in TableVersions /\ table[NewId(table)] = None
    BY <1>1, NewTableVersion DEF CreateTable, IInv
  <2>2. /\ NewId(table) \in tablesOf'[r] /\ ~table'[NewId(table)].readonly
        /\ \A u \in TableVersions \ {NewId(table)} : table'[u] = table[u]
        /\ \A q \in RevisionIds \ {r} : tablesOf'[q] = tablesOf[q]
    BY <1>1, <2>1 DEF CreateTable, IInv, TypeOK
  <2>3. \A q \in RevisionIds : \A t \in tablesOf[q] : table'[t] = table[t]
    BY <2>1, <2>2 DEF IInv, TypeOK, CommittedIsReadonly
  <2>4. QED
    BY <1>1, <2>2, <2>3, EditKeepsExact DEF CreateTable
<1>2. ASSUME NEW t \in tablesOf[r], RemoveTable(r, t)
      PROVE  HasChangesIsExact'
  <2>1. \A q \in RevisionIds \ {r} : tablesOf'[q] = tablesOf[q]
    BY <1>2, RemoveTableOnlyUnlinks, UnsharedFacts
  <2>2. QED
    BY <1>2, <2>1, RemoveTableOnlyUnlinks, EditKeepsExact DEF RemoveTable
<1>3. ASSUME NEW t \in tablesOf[r], TableEdit(r, t),
             UpdateHasChanges(r) \/ (MarkChanged(r) /\ DraftTable(t) \in tablesOf'[r])
      PROVE  HasChangesIsExact'
  <2>1. \A q \in RevisionIds \ {r} :
           /\ tablesOf'[q] = tablesOf[q]
           /\ \A u \in tablesOf[q] : table'[u].createdId = table[u].createdId
    BY <1>3, EditIsIsolated
  <2>2. ~table'[DraftTable(t)].readonly
    BY <1>3 DEF TableEdit
  <2>3. QED
    BY <1>3, <2>1, <2>2, EditKeepsExact
<1>4. ASSUME NEW t \in tablesOf[r], NEW n \in TableIds, RenameTable(r, t, n)
      PROVE  HasChangesIsExact'
  BY <1>3, <1>4, RenameTableIsEdit DEF RenameTable, SaveTable, IInv, TypeOK
<1>5. ASSUME NEW t \in tablesOf[r], TableEdit(r, t),
             NEW name, NEW rows, SaveTable(r, t, name, rows), MarkChanged(r)
      PROVE  HasChangesIsExact'
  <2>1. DraftTable(t) \in tablesOf'[r]
    BY <1>5 DEF SaveTable, IInv, TypeOK
  <2>2. QED
    BY <1>3, <1>5, <2>1
<1>6. ASSUME EditRows(r)
      PROVE  HasChangesIsExact'
  <2>1. PICK t \in tablesOf[r] :
          \/ \E n \in RowIds, d \in Data : CreateRow(r, t, n, d)
          \/ \E S \in (SUBSET rowsOf[t]) \ {{}} :
               \/ \E d \in Data : UpdateRows(r, t, S, d)
               \/ \E name \in Injection(S, RowIds) : RenameRows(r, t, S, name)
               \/ RemoveRows(r, t, S)
    BY <1>6 DEF EditRows
  <2>2. TableEdit(r, t)
    BY <2>1, RowsOfOneTable
  <2>3. CASE \E n \in RowIds, d \in Data : CreateRow(r, t, n, d)
    BY <1>5, <2>2, <2>3 DEF CreateRow
  <2>4. CASE \E S \in SUBSET rowsOf[t] : \E d \in Data : UpdateRows(r, t, S, d)
    BY <1>5, <2>2, <2>4 DEF UpdateRows
  <2>5. CASE \E S \in SUBSET rowsOf[t] : \E name \in Injection(S, RowIds) : RenameRows(r, t, S, name)
    BY <1>5, <2>2, <2>5 DEF RenameRows
  <2>6. CASE \E S \in SUBSET rowsOf[t] : RemoveRows(r, t, S)
    BY <1>3, <2>2, <2>6 DEF RemoveRows
  <2>7. QED
    BY <2>1, <2>3, <2>4, <2>5, <2>6
<1>7. QED
  BY <1>1, <1>2, <1>4, <1>6 DEF EditTables

\* The next draft has the tables of the new head.
LEMMA CommitKeepsExact ==
  ASSUME IInv, IInv', BInv, BInv', HasChangesIsExact,
         NEW b \in Branches, NEW h \in RevisionIds, NEW r \in RevisionIds, Commit(b, h, r)
  PROVE  HasChangesIsExact'
<1>1. PICK n \in RevisionIds : n = NewId(revision) /\ revision[n] = None
  BY NewRevision DEF Commit, IInv
<1> DEFINE new == OpenNextDraft(b, r)
           oldHead == RetireHead(h)
           newHead == PromoteDraftToHead(r)
<1>2. /\ revision[h] \in RevisionRecord /\ revision[r] \in RevisionRecord
      /\ IsHead(h) /\ revision[h].branch = b /\ IsDraft(r) /\ revision[r].branch = b
      /\ h # r /\ n # h /\ n # r
  BY <1>1 DEF Commit, IInv, TypeOK, HeadsAreCommitted, IsHead, IsDraft, IsLive
<1>3. /\ new.isDraft /\ ~new.hasChanges /\ new.branch = b
      /\ ~oldHead.isDraft /\ ~oldHead.isHead
      /\ ~newHead.isDraft /\ newHead.isHead /\ newHead.branch = b
      /\ new \in RevisionRecord /\ newHead \in RevisionRecord
  BY <1>2 DEF RevisionRecord, OpenNextDraft, RetireHead, PromoteDraftToHead
<1>4. revision' = [revision EXCEPT ![h] = oldHead, ![r] = newHead, ![n] = new]
  BY <1>1 DEF Commit
<1> HIDE DEF new, oldHead, newHead
<1>5. /\ revision'[h] = oldHead /\ revision'[r] = newHead /\ revision'[n] = new
      /\ \A q \in RevisionIds \ {h, r, n} : revision'[q] = revision[q]
  BY <1>1, <1>2, <1>4 DEF IInv, TypeOK
<1>6. SUFFICES ASSUME NEW y \in RevisionIds, NEW x \in RevisionIds,
                      IsDraft(y)', IsHead(x)', revision'[y].branch = revision'[x].branch
               PROVE  ExactFor(y, x)'
  BY ExactSuffices
<1>7. CASE y = n
  <2>1. IsHead(r)' /\ revision'[x].branch = b /\ revision'[r].branch = b
    BY <1>3, <1>5, <1>6, <1>7, NoneAssumption DEF IsHead, IsLive
  <2>2. x = r
    <3>1. x \in RevisionsOf(b)' /\ r \in RevisionsOf(b)' /\ revision'[x].isHead /\ revision'[r].isHead
      BY <1>6, <2>1 DEF RevisionsOf, IsHead
    <3>2. QED
      BY <3>1 DEF BInv, DraftFollowsHead
  <2>3. tablesOf'[n] = tablesOf'[r]
    BY <1>1, <1>2, CommitOnlyLocks
  <2>4. QED
    BY <1>3, <1>5, <1>7, <2>2, <2>3 DEF ExactFor
<1>8. CASE y # n
  <2>1. y \notin {h, r, n} /\ revision'[y] = revision[y] /\ IsDraft(y)
    BY <1>3, <1>5, <1>6, <1>8 DEF IsDraft, IsLive
  <2>2. revision[y].branch # b
    BY <1>2, <2>1, DraftOnHead DEF BInv
  <2>3. x \notin {h, r, n} /\ revision'[x] = revision[x] /\ IsHead(x)
    BY <1>3, <1>5, <1>6, <2>1, <2>2 DEF IsHead, IsLive
  <2>4. QED
    BY <1>1, <1>6, <2>1, <2>3, CommitOnlyLocks, StaysExact
<1>9. QED
  BY <1>7, <1>8

\* The draft has the head's tables again.
LEMMA RevertKeepsExact ==
  ASSUME IInv, IInv', BInv, HasChangesIsExact,
         NEW b \in Branches, NEW h \in RevisionIds, NEW r \in RevisionIds, Revert(b, h, r)
  PROVE  HasChangesIsExact'
<1>1. /\ \A q \in RevisionIds : SamePlace(q)
      /\ \A q \in RevisionIds \ {r} : revision'[q] = revision[q]
      /\ ~revision'[r].hasChanges
  BY RevertStays
<1>2. /\ \A q \in RevisionIds \ {r} : tablesOf'[q] = tablesOf[q]
      /\ tablesOf'[r] = tablesOf[h] /\ table' = table
      /\ IsHead(h) /\ IsDraft(r) /\ revision[h].branch = revision[r].branch
  BY DEF Revert, IInv, TypeOK
<1>3. SUFFICES ASSUME NEW y \in RevisionIds, NEW x \in RevisionIds,
                      IsDraft(y)', IsHead(x)', revision'[y].branch = revision'[x].branch
               PROVE  ExactFor(y, x)'
  BY ExactSuffices
<1>4. IsDraft(y) /\ IsHead(x) /\ revision[y].branch = revision[x].branch
  BY <1>1, <1>3 DEF SamePlace, IsDraft, IsHead
<1>5. x # r /\ h # r
  BY <1>2, <1>4 DEF IInv, HeadsAreCommitted
<1>6. CASE y = r
  <2>1. x = h
    BY <1>2, <1>4, <1>6, DraftOnHead DEF BInv
  <2>2. QED
    BY <1>1, <1>2, <1>5, <1>6, <2>1 DEF ExactFor
<1>7. CASE y # r
  BY <1>1, <1>2, <1>4, <1>5, <1>7, StaysExact
<1>8. QED
  BY <1>6, <1>7

\* The branch's head and draft both have the source's tables.
LEMMA CreateBranchKeepsExact ==
  ASSUME IInv, IInv', HasChangesIsExact,
         NEW source \in RevisionIds, NEW b \in Branches, CreateBranch(source, b)
  PROVE  HasChangesIsExact'
<1>1. PICK h \in RevisionIds : h = NewId(revision) /\ revision[h] = None
  BY NewRevision DEF CreateBranch, IInv
<1>2. PICK d \in RevisionIds \ {h} :
        d = (CHOOSE k \in Unused(revision) \ {h} : TRUE) /\ revision[d] = None
  BY <1>1 DEF CreateBranch, Unused, Live, IInv, TypeOK
<1> DEFINE newHead == [branch |-> b, parent |-> source, isHead |-> TRUE, isDraft |-> FALSE,
                       isStart |-> TRUE, hasChanges |-> FALSE]
           newDraft == [branch |-> b, parent |-> h, isHead |-> FALSE, isDraft |-> TRUE,
                        isStart |-> FALSE, hasChanges |-> FALSE]
<1>3. /\ newHead.branch = b /\ ~newHead.isDraft
      /\ newDraft.branch = b /\ ~newDraft.isHead /\ ~newDraft.hasChanges
  OBVIOUS
<1>4. /\ revision' = [revision EXCEPT ![h] = newHead, ![d] = newDraft]
      /\ tablesOf' = [tablesOf EXCEPT ![h] = tablesOf[source], ![d] = tablesOf[source]]
      /\ table' = table
      /\ ~BranchExists(b)
  BY <1>1, <1>2 DEF CreateBranch
<1> HIDE DEF newHead, newDraft
<1>5. /\ revision'[h] = newHead /\ revision'[d] = newDraft
      /\ \A q \in RevisionIds \ {h, d} : revision'[q] = revision[q] /\ tablesOf'[q] = tablesOf[q]
      /\ tablesOf'[h] = tablesOf[source] /\ tablesOf'[d] = tablesOf[source]
  BY <1>1, <1>2, <1>4 DEF IInv, TypeOK
<1>6. \A q \in RevisionIds : IsLive(q) => revision[q].branch # b
  BY <1>4 DEF BranchExists, RevisionsOf
<1>7. SUFFICES ASSUME NEW y \in RevisionIds, NEW x \in RevisionIds,
                      IsDraft(y)', IsHead(x)', revision'[y].branch = revision'[x].branch
               PROVE  ExactFor(y, x)'
  BY ExactSuffices
<1>8. CASE y = d
  <2>1. x = h
    BY <1>2, <1>3, <1>5, <1>6, <1>7, <1>8 DEF IsHead, IsLive
  <2>2. QED
    BY <1>3, <1>5, <1>8, <2>1 DEF ExactFor
<1>9. CASE y # d
  <2>1. y \notin {h, d} /\ IsDraft(y)
    BY <1>3, <1>5, <1>7, <1>9 DEF IsDraft, IsLive
  <2>2. x \notin {h, d} /\ IsHead(x)
    BY <1>3, <1>5, <1>6, <1>7, <2>1 DEF IsHead, IsDraft, IsLive
  <2>3. QED
    BY <1>4, <1>5, <1>7, <2>1, <2>2, StaysExact
<1>10. QED
  BY <1>8, <1>9

\* Other branches are left alone.
LEMMA DeletionKeepsExact ==
  ASSUME IInv, IInv', BInv, HasChangesIsExact,
         DeleteOrphanTables \/ DeleteOrphanRows \/ \E b \in Branches : DeleteBranch(b)
  PROVE  HasChangesIsExact'
<1>1. SUFFICES ASSUME NEW y \in RevisionIds, NEW x \in RevisionIds,
                      IsDraft(y)', IsHead(x)', revision'[y].branch = revision'[x].branch
               PROVE  ExactFor(y, x)'
  BY ExactSuffices
<1>2. CASE DeleteOrphanTables \/ DeleteOrphanRows
  BY <1>1, <1>2, CleanupSparesLinked, StaysExact DEF IsDraft, IsHead, IsLive
<1>3. ASSUME NEW b \in Branches, DeleteBranch(b)
      PROVE  ExactFor(y, x)'
  <2>1. \A q \in RevisionIds : IsLive(q)' => revision'[q] = revision[q] /\ q \notin RevisionsOf(b)
    BY <1>3, DeleteBranchSpares DEF IsLive
  <2>2. \A q \in RevisionIds \ RevisionsOf(b) : tablesOf'[q] = tablesOf[q] /\ table' = table
    BY <1>3 DEF DeleteBranch
  <2>3. QED
    BY <1>1, <2>1, <2>2, StaysExact DEF IsDraft, IsHead, IsLive
<1>4. QED
  BY <1>2, <1>3

\* Every operation leaves hasChanges as it should be.
LEMMA StepKeepsExact ==
  IInv /\ BInv /\ MutableIsUnshared /\ HasChangesIsExact /\ Next => HasChangesIsExact'
<1> SUFFICES ASSUME IInv, BInv, MutableIsUnshared, HasChangesIsExact, Next
             PROVE  HasChangesIsExact'
  OBVIOUS
<1>1. IInv' /\ BInv'
  BY StepKeeps, StepShapes
<1>2. QED
  BY <1>1, EditsKeepExact, CommitKeepsExact, RevertKeepsExact, CreateBranchKeepsExact,
     DeletionKeepsExact DEF Next

\* hasChanges, which gates commit and revert, tells whether the draft's tables
\* differ from the head's, whatever sequence of edits, removals that undo them,
\* commits and reverts made them so.
THEOREM HasChangesStaysExact == Spec => []HasChangesIsExact
<1>1. Init => HasChangesIsExact
  BY DEF Init, HasChangesIsExact, Live, IsDraft, IsHead
<1>2. HasChangesIsExact /\ UNCHANGED vars => HasChangesIsExact'
  BY DEF vars, HasChangesIsExact, Live, IsDraft, IsHead, IsLive
<1>3. IInv /\ BInv /\ MutableIsUnshared /\ HasChangesIsExact /\ [Next]_vars => HasChangesIsExact'
  BY <1>2, StepKeepsExact
<1>4. QED
  BY <1>1, <1>3, InvariantHolds, BranchInvariantHolds, MutableStaysUnshared, PTL DEF Spec

-----------------------------------------------------------------------------
(* What the refinement mapping reads off a database. *)

\* What a revision says is a content.
LEMMA SnapshotIsContent ==
  ASSUME IInv, NEW q \in RevisionIds
  PROVE  Snapshot(q) \in Contents
<1>1. \A t \in tablesOf[q] :
        /\ t \in TableVersions /\ table[t] \in TableRecord
        /\ \A x \in rowsOf[t] : x \in RowVersions /\ row[x] \in RowRecord
  BY DEF IInv, TypeOK, CommittedIsReadonly
<1>2. \A t \in tablesOf[q] : \A x \in rowsOf[t] :
        RowSnapshot(x) \in [versionId : RowVersions, createdId : RowCreatedIds,
                            id : RowIds, data : Data]
  BY <1>1 DEF RowSnapshot, RowRecord
<1>3. \A t \in tablesOf[q] :
        TableSnapshot(t) \in
          [ versionId : TableVersions, createdId : TableCreatedIds, id : TableIds,
            rows : SUBSET [ versionId : RowVersions, createdId : RowCreatedIds,
                            id : RowIds, data : Data ] ]
  BY <1>1, <1>2 DEF TableSnapshot, TableRecord
<1>4. QED
  BY <1>3 DEF Snapshot, Contents

\* A revision whose tables and rows are left alone says what it said.
LEMMA SnapshotIsKept ==
  ASSUME NEW q, NEW p, tablesOf'[q] = tablesOf[p],
         \A t \in tablesOf[p] :
           /\ table'[t].createdId = table[t].createdId /\ table'[t].id = table[t].id
           /\ rowsOf'[t] = rowsOf[t]
           /\ \A x \in rowsOf[t] :
                /\ row'[x].createdId = row[x].createdId /\ row'[x].id = row[x].id
                /\ row'[x].data = row[x].data
  PROVE  Snapshot(q)' = Snapshot(p)
<1>1. ASSUME NEW t \in tablesOf[p]
      PROVE  TableSnapshot(t)' = TableSnapshot(t)
  <2>1. \A x \in rowsOf[t] : RowSnapshot(x)' = RowSnapshot(x)
    BY DEF RowSnapshot
  <2>2. {RowSnapshot(x) : x \in rowsOf[t]}' = {RowSnapshot(x) : x \in rowsOf[t]}
    BY <2>1
  <2>3. QED
    BY <2>2 DEF TableSnapshot
<1>2. QED
  BY <1>1 DEF Snapshot

\* The head and the draft that the mapping picks are a branch's only ones.
LEMMA HeadIs ==
  ASSUME IInv, DraftFollowsHead, NEW b \in Branches,
         NEW h \in RevisionIds, IsHead(h), revision[h].branch = b
  PROVE  HeadOf(b) = h /\ BranchExists(b)
<1>1. BranchExists(b)
  BY DEF BranchExists, RevisionsOf, IsHead
<1>2. \A q \in RevisionIds : IsHead(q) /\ revision[q].branch = b => q = h
  BY HeadAndDraft DEF IsHead
<1>3. QED
  BY <1>1, <1>2 DEF HeadOf

\* ... and so is the draft.
LEMMA DraftIs ==
  ASSUME IInv, DraftFollowsHead, NEW b \in Branches,
         NEW d \in RevisionIds, IsDraft(d), revision[d].branch = b
  PROVE  DraftOf(b) = d /\ BranchExists(b)
<1>1. BranchExists(b)
  BY DEF BranchExists, RevisionsOf, IsDraft
<1>2. \A q \in RevisionIds : IsDraft(q) /\ revision[q].branch = b => q = d
  BY DraftOnHead
<1>3. QED
  BY <1>1, <1>2 DEF DraftOf

\* The mapping, revision by revision and branch by branch.
Mapped(b, h, d) ==
  /\ h \in RevisionIds /\ IsHead(h) /\ revision[h].branch = b
  /\ d \in RevisionIds /\ IsDraft(d) /\ revision[d].branch = b
  /\ revision[d].parent = h
  /\ HeadsThere[b] = h /\ DraftsSaid[b] = Snapshot(d)

MappingIs ==
  /\ \A q \in RevisionIds :
       /\ Committed(q) => /\ CommitsSaid[q] # None
                          /\ CommitsSaid[q] = [branch |-> revision[q].branch,
                                               parent |-> revision[q].parent,
                                               content |-> Snapshot(q)]
       /\ ~Committed(q) => CommitsSaid[q] = None
  /\ \A b \in Branches :
       /\ BranchExists(b) => \E h, d \in RevisionIds : Mapped(b, h, d)
       /\ ~BranchExists(b) => HeadsThere[b] = None /\ DraftsSaid[b] = None
  /\ CommitsSaid = [q \in RevisionIds |-> CommitsSaid[q]]
  /\ HeadsThere = [b \in Branches |-> HeadsThere[b]]
  /\ DraftsSaid = [b \in Branches |-> DraftsSaid[b]]

\* The mapping is that: what a commit says is something, and a branch that exists
\* has a head and a draft to read.
LEMMA MappingFacts == IInv /\ BInv => MappingIs
<1> SUFFICES ASSUME IInv, BInv PROVE MappingIs
  OBVIOUS
<1>1. ASSUME NEW q \in RevisionIds, Committed(q)
      PROVE  [branch |-> revision[q].branch, parent |-> revision[q].parent,
              content |-> Snapshot(q)] # None
  <2>1. revision[q] \in RevisionRecord
    BY <1>1 DEF Committed, IsLive, IInv, TypeOK
  <2>2. revision[q].branch \in Branches /\ revision[q].parent \in RevisionIds \cup {None}
    BY <2>1 DEF RevisionRecord
  <2>3. QED
    BY <2>2, SnapshotIsContent, CommitAssumption
<1>2. ASSUME NEW b \in Branches, BranchExists(b)
      PROVE  \E h, d \in RevisionIds : Mapped(b, h, d)
  <2>1. PICK h, d \in RevisionIds : Shape(b, h, d)
    BY <1>2, ShapeOf DEF BInv, BranchExists, RevisionsOf
  <2>2. HeadOf(b) = h /\ DraftOf(b) = d
    BY <2>1, HeadIs, DraftIs DEF Shape, BInv
  <2>3. Mapped(b, h, d)
    BY <1>2, <2>1, <2>2 DEF Mapped, Shape, HeadsThere, DraftsSaid
  <2>4. QED
    BY <2>3
<1>3. QED
  BY <1>1, <1>2 DEF MappingIs, CommitsSaid, HeadsThere, DraftsSaid

\* The same, after a step.
LEMMA MappingFactsAfter == ASSUME IInv', BInv' PROVE MappingIs'
BY MappingFacts, PTL

\* The head and draft of a branch that a step leaves in place.
LEMMA MappedStays ==
  ASSUME IInv, IInv', BInv, BInv', NEW c \in Branches,
         NEW h \in RevisionIds, NEW d \in RevisionIds,
         Mapped(c, h, d), SamePlace(h), SamePlace(d)
  PROVE  HeadsThere'[c] = h /\ DraftsSaid'[c] = Snapshot(d)'
<1>1. /\ IsHead(h)' /\ revision'[h].branch = c
      /\ IsDraft(d)' /\ revision'[d].branch = c
  BY DEF Mapped, SamePlace, IsHead, IsDraft
<1>2. BranchExists(c)'
  BY <1>1 DEF BranchExists, RevisionsOf, IsHead
<1>3. PICK x, y \in RevisionIds : Mapped(c, x, y)'
  BY <1>2, MappingFactsAfter DEF MappingIs
<1>4. x = h /\ y = d
  <2>1. {x, h, y, d} \subseteq RevisionsOf(c)'
    BY <1>1, <1>3 DEF Mapped, RevisionsOf, IsHead, IsDraft
  <2>2. /\ revision'[x].isHead /\ revision'[h].isHead
        /\ revision'[y].isDraft /\ revision'[d].isDraft
    BY <1>1, <1>3 DEF Mapped, IsHead, IsDraft
  <2>3. QED
    BY <2>1, <2>2 DEF BInv, DraftFollowsHead
<1>5. QED
  BY <1>3, <1>4 DEF Mapped

-----------------------------------------------------------------------------
(* Every operation is one of BranchHistory's. *)

\* An edit, or a revert, whose writes no other revision sees.
LEMMA EditSimulates ==
  ASSUME IInv, IInv', BInv, BInv', \A q \in RevisionIds : SamePlace(q),
         NEW r \in RevisionIds, IsDraft(r),
         \A q \in RevisionIds \ {r} : IsLive(q) => KeepsRevision(q)
  PROVE  \E b \in Branches : History!Edit(b)
<1> DEFINE b == revision[r].branch
<1>1. b \in Branches /\ BranchExists(b)
  BY DraftOnHead DEF BInv, BranchExists, RevisionsOf, IsDraft
<1>2. \A q \in RevisionIds \ {r} : IsLive(q) => Snapshot(q)' = Snapshot(q)
  BY SnapshotIsKept DEF KeepsRevision
<1>3. MappingIs /\ MappingIs'
  BY MappingFacts, MappingFactsAfter
<1>4. HeadsThere[b] # None
  BY <1>1, <1>3, NoneAssumption DEF MappingIs, Mapped
<1>5. ASSUME NEW c \in Branches
      PROVE  HeadsThere'[c] = HeadsThere[c] /\ (c # b => DraftsSaid'[c] = DraftsSaid[c])
  <2>1. CASE BranchExists(c)
    <3>1. PICK h, d \in RevisionIds : Mapped(c, h, d)
      BY <1>3, <2>1 DEF MappingIs
    <3>2. HeadsThere'[c] = h /\ DraftsSaid'[c] = Snapshot(d)'
      BY <3>1, MappedStays
    <3>3. c # b => Snapshot(d)' = Snapshot(d)
      BY <1>2, <3>1 DEF Mapped, IsDraft
    <3>4. QED
      BY <3>1, <3>2, <3>3 DEF Mapped
  <2>2. CASE ~BranchExists(c)
    <3>1. ~BranchExists(c)'
      BY <2>2 DEF BranchExists, RevisionsOf, SamePlace
    <3>2. QED
      BY <1>3, <2>2, <3>1 DEF MappingIs
  <2>3. QED
    BY <2>1, <2>2
<1>6. ASSUME NEW q \in RevisionIds
      PROVE  CommitsSaid'[q] = CommitsSaid[q]
  <2>1. CASE Committed(q)
    <3>1. q # r /\ Committed(q)' /\ IsLive(q)
      BY <2>1 DEF Committed, SamePlace, IsDraft
    <3>2. Snapshot(q)' = Snapshot(q)
      BY <1>2, <3>1
    <3>3. QED
      BY <1>3, <2>1, <3>1, <3>2 DEF MappingIs, SamePlace
  <2>2. CASE ~Committed(q)
    <3>1. ~Committed(q)'
      BY <2>2 DEF Committed, SamePlace
    <3>2. QED
      BY <1>3, <2>2, <3>1 DEF MappingIs
  <2>3. QED
    BY <2>1, <2>2
<1>7. HeadsThere' = HeadsThere /\ CommitsSaid' = CommitsSaid /\ DOMAIN DraftsSaid' = Branches
  BY <1>3, <1>5, <1>6 DEF MappingIs
<1> HIDE DEF b
<1>8. History!Edit(b)
  BY <1>4, <1>5, <1>7 DEF History!Edit
<1>9. QED
  BY <1>1, <1>8

\* A cleanup changes nothing that can be seen.
LEMMA CleanupStutters ==
  ASSUME IInv, IInv', BInv, BInv', DeleteOrphanTables \/ DeleteOrphanRows
  PROVE  UNCHANGED History!vars
<1>1. revision' = revision /\ \A q \in RevisionIds : Snapshot(q)' = Snapshot(q)
  BY CleanupSparesLinked, SnapshotIsKept
<1>2. \A q \in RevisionIds : SamePlace(q) /\ Committed(q)' = Committed(q)
  BY <1>1 DEF SamePlace, Committed, IsLive
<1>3. MappingIs /\ MappingIs'
  BY MappingFacts, MappingFactsAfter
<1>4. CommitsSaid' = CommitsSaid
  BY <1>1, <1>2, <1>3 DEF MappingIs
<1>5. ASSUME NEW c \in Branches
      PROVE  HeadsThere'[c] = HeadsThere[c] /\ DraftsSaid'[c] = DraftsSaid[c]
  <2>1. CASE BranchExists(c)
    <3>1. PICK h, d \in RevisionIds : Mapped(c, h, d)
      BY <1>3, <2>1 DEF MappingIs
    <3>2. HeadsThere'[c] = h /\ DraftsSaid'[c] = Snapshot(d)'
      BY <1>2, <3>1, MappedStays
    <3>3. QED
      BY <1>1, <3>1, <3>2 DEF Mapped
  <2>2. CASE ~BranchExists(c)
    <3>1. ~BranchExists(c)'
      BY <1>1, <2>2 DEF BranchExists, RevisionsOf, IsLive
    <3>2. QED
      BY <1>3, <2>2, <3>1 DEF MappingIs
  <2>3. QED
    BY <2>1, <2>2
<1>6. HeadsThere' = HeadsThere /\ DraftsSaid' = DraftsSaid
  BY <1>3, <1>5 DEF MappingIs
<1>7. QED
  BY <1>4, <1>6 DEF History!vars

\* No edit and no revert is seen by another revision.
LEMMA EditsAreIsolated ==
  ASSUME IInv, MutableIsUnshared,
         NEW r \in RevisionIds, EditTables(r) \/ EditRows(r),
         NEW q \in RevisionIds \ {r}
  PROVE  KeepsRevision(q)
<1>1. ASSUME NEW n \in TableIds, CreateTable(r, n)
      PROVE  KeepsRevision(q)
  <2>1. NewId(table) \in TableVersions /\ table[NewId(table)] = None
    BY <1>1, NewTableVersion DEF CreateTable, IInv
  <2>2. /\ \A u \in TableVersions \ {NewId(table)} : table'[u] = table[u]
        /\ tablesOf'[q] = tablesOf[q] /\ rowsOf' = rowsOf /\ row' = row
    BY <1>1, <2>1 DEF CreateTable, IInv, TypeOK
  <2>3. \A t \in tablesOf[q] : table'[t] = table[t]
    BY <2>1, <2>2 DEF IInv, TypeOK, CommittedIsReadonly
  <2>4. QED
    BY <2>2, <2>3 DEF KeepsRevision
<1>2. ASSUME NEW t \in tablesOf[r], RemoveTable(r, t)
      PROVE  KeepsRevision(q)
  <2>1. tablesOf'[q] = tablesOf[q]
    BY <1>2, RemoveTableOnlyUnlinks, UnsharedFacts
  <2>2. QED
    BY <1>2, <2>1, RemoveTableOnlyUnlinks DEF KeepsRevision
<1>3. ASSUME NEW t \in tablesOf[r], TableEdit(r, t)
      PROVE  KeepsRevision(q)
  BY <1>3, EditIsIsolated DEF KeepsRevision
<1>4. QED
  BY <1>1, <1>2, <1>3, RenameTableIsEdit, EditRowsIsEdit DEF EditTables

\* Work on a draft is an edit of its branch's content.
LEMMA EditsImplement ==
  ASSUME IInv, IInv', BInv, BInv', MutableIsUnshared,
         NEW r \in RevisionIds, EditTables(r) \/ EditRows(r)
  PROVE  \E b \in Branches : History!Edit(b)
BY EditStays, EditsAreIsolated, EditSimulates

\* A revert is one, too: the draft has the head's content again.
LEMMA RevertImplements ==
  ASSUME IInv, IInv', BInv, BInv',
         NEW b \in Branches, NEW h \in RevisionIds, NEW r \in RevisionIds, Revert(b, h, r)
  PROVE  \E c \in Branches : History!Edit(c)
<1>1. IsDraft(r) /\ \A q \in RevisionIds \ {r} : KeepsRevision(q)
  BY DEF Revert, KeepsRevision, IInv, TypeOK
<1>2. QED
  BY <1>1, RevertStays, EditSimulates

\* Commit makes the draft a commit on the head, with the content the draft had;
\* locking its tables and rows changes nothing they say.
LEMMA CommitImplements ==
  ASSUME IInv, IInv', BInv, BInv',
         NEW b \in Branches, NEW h \in RevisionIds, NEW r \in RevisionIds, Commit(b, h, r)
  PROVE  History!Commit(b)
<1> DEFINE new == OpenNextDraft(b, r)
           oldHead == RetireHead(h)
           newHead == PromoteDraftToHead(r)
<1>1. PICK n \in RevisionIds : n = NewId(revision) /\ revision[n] = None
  BY NewRevision DEF Commit, IInv
<1>2. /\ revision[h] \in RevisionRecord /\ revision[r] \in RevisionRecord
      /\ IsHead(h) /\ revision[h].branch = b /\ IsDraft(r) /\ revision[r].branch = b
      /\ revision[r].parent = h /\ h # r /\ n # h /\ n # r
  BY <1>1, DraftOnHead DEF Commit, IInv, TypeOK, IsHead, IsDraft, IsLive, BInv
<1>3. /\ new \in RevisionRecord /\ new.isDraft /\ new.branch = b
      /\ oldHead \in RevisionRecord /\ ~oldHead.isDraft
      /\ oldHead.branch = b /\ oldHead.parent = revision[h].parent
      /\ newHead \in RevisionRecord /\ ~newHead.isDraft /\ newHead.isHead
      /\ newHead.branch = b /\ newHead.parent = h
  BY <1>2 DEF RevisionRecord, OpenNextDraft, RetireHead, PromoteDraftToHead
<1>4. revision' = [revision EXCEPT ![h] = oldHead, ![r] = newHead, ![n] = new]
  BY <1>1 DEF Commit
<1> HIDE DEF new, oldHead, newHead
<1>5. /\ revision'[h] = oldHead /\ revision'[r] = newHead /\ revision'[n] = new
      /\ \A q \in RevisionIds \ {h, r, n} : revision'[q] = revision[q]
  BY <1>1, <1>2, <1>4 DEF IInv, TypeOK
<1>6. oldHead # None /\ newHead # None /\ new # None
  BY <1>3, NoneAssumption
<1>7. /\ \A q \in RevisionIds \ {n} : Snapshot(q)' = Snapshot(q)
      /\ Snapshot(n)' = Snapshot(r)
  BY <1>1, CommitOnlyLocks, SnapshotIsKept
<1>8. MappingIs /\ MappingIs'
  BY MappingFacts, MappingFactsAfter
<1>9. PICK x, y \in RevisionIds : Mapped(b, x, y)
  BY <1>2, <1>8 DEF MappingIs, BranchExists, RevisionsOf, IsHead
<1>10. x = h /\ y = r
  BY <1>2, <1>9, DraftOnHead DEF Mapped, BInv
<1>11. HeadsThere'[b] = r /\ DraftsSaid'[b] = Snapshot(r)
  <2>1. BranchExists(b)' /\ r \in RevisionsOf(b)' /\ n \in RevisionsOf(b)'
    BY <1>3, <1>5, <1>6 DEF BranchExists, RevisionsOf, IsLive
  <2>2. PICK v, w \in RevisionIds : Mapped(b, v, w)'
    BY <1>8, <2>1 DEF MappingIs
  <2>3. v \in RevisionsOf(b)' /\ w \in RevisionsOf(b)'
    BY <2>2 DEF Mapped, RevisionsOf, IsHead, IsDraft
  <2>4. v = r /\ w = n
    BY <1>3, <1>5, <2>1, <2>2, <2>3 DEF Mapped, IsHead, IsDraft, BInv, DraftFollowsHead
  <2>5. QED
    BY <1>7, <2>2, <2>4 DEF Mapped
<1>12. ASSUME NEW c \in Branches, c # b
       PROVE  HeadsThere'[c] = HeadsThere[c] /\ DraftsSaid'[c] = DraftsSaid[c]
  <2>1. CASE BranchExists(c)
    <3>1. PICK v, w \in RevisionIds : Mapped(c, v, w)
      BY <1>8, <2>1 DEF MappingIs
    <3>2. v \notin {h, r, n} /\ w \notin {h, r, n}
      BY <1>1, <1>2, <1>12, <3>1 DEF Mapped, IsHead, IsDraft, IsLive
    <3>3. SamePlace(v) /\ SamePlace(w)
      BY <1>5, <3>2 DEF SamePlace, IsLive
    <3>4. QED
      BY <1>7, <3>1, <3>2, <3>3, MappedStays DEF Mapped
  <2>2. CASE ~BranchExists(c)
    <3>1. ~BranchExists(c)'
      BY <1>3, <1>5, <1>12, <2>2 DEF BranchExists, RevisionsOf, IsLive
    <3>2. QED
      BY <1>8, <2>2, <3>1 DEF MappingIs
  <2>3. QED
    BY <2>1, <2>2
<1>13. ASSUME NEW q \in RevisionIds, q # r
       PROVE  CommitsSaid'[q] = CommitsSaid[q]
  <2>1. CASE q = n
    <3>1. ~Committed(n) /\ ~Committed(n)'
      BY <1>1, <1>3, <1>5 DEF Committed, IsLive
    <3>2. QED
      BY <1>8, <2>1, <3>1 DEF MappingIs
  <2>2. CASE q = h
    <3>1. /\ Committed(h) /\ Committed(h)'
          /\ revision'[h].branch = revision[h].branch /\ revision'[h].parent = revision[h].parent
      BY <1>2, <1>3, <1>5, <1>6 DEF Committed, IsLive, IsHead, IsDraft, IInv, HeadsAreCommitted
    <3>2. QED
      BY <1>2, <1>7, <1>8, <2>2, <3>1 DEF MappingIs
  <2>3. CASE q \notin {n, h}
    <3>1. revision'[q] = revision[q] /\ Committed(q)' = Committed(q)
      BY <1>5, <1>13, <2>3 DEF Committed, IsLive
    <3>2. QED
      BY <1>7, <1>8, <2>3, <3>1 DEF MappingIs
  <2>4. QED
    BY <2>1, <2>2, <2>3
<1>14. /\ CommitsSaid[r] = None
       /\ CommitsSaid'[r] = [branch |-> b, parent |-> h, content |-> Snapshot(r)]
  <2>1. ~Committed(r) /\ Committed(r)'
    BY <1>2, <1>3, <1>5, <1>6 DEF Committed, IsDraft, IsLive
  <2>2. QED
    BY <1>1, <1>2, <1>3, <1>5, <1>7, <1>8, <2>1 DEF MappingIs
<1>15. HeadsThere[b] = h /\ h # None /\ DraftsSaid[b] = Snapshot(r)
  BY <1>9, <1>10, NoneAssumption DEF Mapped
<1>16. CommitsSaid' = [CommitsSaid EXCEPT ![r] =
                         [branch |-> b, parent |-> HeadsThere[b], content |-> DraftsSaid[b]]]
  BY <1>8, <1>13, <1>14, <1>15 DEF MappingIs
<1>17. HeadsThere' = [HeadsThere EXCEPT ![b] = r] /\ DraftsSaid' = DraftsSaid
  BY <1>8, <1>11, <1>12, <1>15 DEF MappingIs
<1>18. QED
  BY <1>14, <1>15, <1>16, <1>17 DEF History!Commit

\* A fork: a commit of the branch's own, and a draft, that share the source's
\* tables and so say what it says.
LEMMA CreateBranchImplements ==
  ASSUME IInv, IInv', BInv, BInv',
         NEW source \in RevisionIds, NEW b \in Branches, CreateBranch(source, b)
  PROVE  History!Fork(source, b)
<1>1. PICK h \in RevisionIds : h = NewId(revision) /\ revision[h] = None
  BY NewRevision DEF CreateBranch, IInv
<1>2. PICK d \in RevisionIds \ {h} :
        d = (CHOOSE k \in Unused(revision) \ {h} : TRUE) /\ revision[d] = None
  BY <1>1 DEF CreateBranch, Unused, Live, IInv, TypeOK
<1> DEFINE newHead == [branch |-> b, parent |-> source, isHead |-> TRUE, isDraft |-> FALSE,
                       isStart |-> TRUE, hasChanges |-> FALSE]
           newDraft == [branch |-> b, parent |-> h, isHead |-> FALSE, isDraft |-> TRUE,
                        isStart |-> FALSE, hasChanges |-> FALSE]
<1>3. /\ newHead \in RevisionRecord /\ newHead.isHead /\ ~newHead.isDraft
      /\ newHead.branch = b /\ newHead.parent = source
      /\ newDraft \in RevisionRecord /\ newDraft.isDraft /\ newDraft.branch = b
  BY DEF RevisionRecord
<1>4. /\ revision' = [revision EXCEPT ![h] = newHead, ![d] = newDraft]
      /\ tablesOf' = [tablesOf EXCEPT ![h] = tablesOf[source], ![d] = tablesOf[source]]
      /\ table' = table /\ row' = row /\ rowsOf' = rowsOf
      /\ Committed(source) /\ ~BranchExists(b)
  BY <1>1, <1>2 DEF CreateBranch
<1> HIDE DEF newHead, newDraft
<1>5. /\ revision'[h] = newHead /\ revision'[d] = newDraft
      /\ \A q \in RevisionIds \ {h, d} : revision'[q] = revision[q] /\ tablesOf'[q] = tablesOf[q]
      /\ tablesOf'[h] = tablesOf[source] /\ tablesOf'[d] = tablesOf[source]
  BY <1>1, <1>2, <1>4 DEF IInv, TypeOK
<1>6. newHead # None /\ newDraft # None
  BY <1>3, NoneAssumption
<1>7. /\ \A q \in RevisionIds \ {h, d} : Snapshot(q)' = Snapshot(q)
      /\ Snapshot(h)' = Snapshot(source) /\ Snapshot(d)' = Snapshot(source)
  BY <1>4, <1>5, SnapshotIsKept
<1>8. MappingIs /\ MappingIs'
  BY MappingFacts, MappingFactsAfter
<1>9. HeadsThere'[b] = h /\ DraftsSaid'[b] = Snapshot(source)
  <2>1. BranchExists(b)' /\ h \in RevisionsOf(b)' /\ d \in RevisionsOf(b)'
    BY <1>3, <1>5, <1>6 DEF BranchExists, RevisionsOf, IsLive
  <2>2. PICK v, w \in RevisionIds : Mapped(b, v, w)'
    BY <1>8, <2>1 DEF MappingIs
  <2>3. v \in RevisionsOf(b)' /\ w \in RevisionsOf(b)'
    BY <2>2 DEF Mapped, RevisionsOf, IsHead, IsDraft
  <2>4. v = h /\ w = d
    BY <1>3, <1>5, <2>1, <2>2, <2>3 DEF Mapped, IsHead, IsDraft, BInv, DraftFollowsHead
  <2>5. QED
    BY <1>7, <2>2, <2>4 DEF Mapped
<1>10. ASSUME NEW c \in Branches, c # b
       PROVE  HeadsThere'[c] = HeadsThere[c] /\ DraftsSaid'[c] = DraftsSaid[c]
  <2>1. CASE BranchExists(c)
    <3>1. PICK v, w \in RevisionIds : Mapped(c, v, w)
      BY <1>8, <2>1 DEF MappingIs
    <3>2. v \notin {h, d} /\ w \notin {h, d}
      BY <1>1, <1>2, <3>1 DEF Mapped, IsHead, IsDraft, IsLive
    <3>3. SamePlace(v) /\ SamePlace(w)
      BY <1>5, <3>2 DEF SamePlace, IsLive
    <3>4. QED
      BY <1>7, <3>1, <3>2, <3>3, MappedStays DEF Mapped
  <2>2. CASE ~BranchExists(c)
    <3>1. ~BranchExists(c)'
      BY <1>3, <1>5, <1>10, <2>2 DEF BranchExists, RevisionsOf, IsLive
    <3>2. QED
      BY <1>8, <2>2, <3>1 DEF MappingIs
  <2>3. QED
    BY <2>1, <2>2
<1>11. ASSUME NEW q \in RevisionIds, q # h
       PROVE  CommitsSaid'[q] = CommitsSaid[q]
  <2>1. CASE q = d
    <3>1. ~Committed(d) /\ ~Committed(d)'
      BY <1>2, <1>3, <1>5 DEF Committed, IsLive
    <3>2. QED
      BY <1>8, <2>1, <3>1 DEF MappingIs
  <2>2. CASE q # d
    <3>1. revision'[q] = revision[q] /\ Committed(q)' = Committed(q)
      BY <1>5, <1>11, <2>2 DEF Committed, IsLive
    <3>2. QED
      BY <1>7, <1>8, <1>11, <2>2, <3>1 DEF MappingIs
  <2>3. QED
    BY <2>1, <2>2
<1>12. /\ CommitsSaid[h] = None /\ CommitsSaid[source] # None
       /\ CommitsSaid[source].content = Snapshot(source)
       /\ CommitsSaid'[h] = [branch |-> b, parent |-> source, content |-> Snapshot(source)]
  <2>1. ~Committed(h) /\ Committed(h)'
    BY <1>1, <1>3, <1>5, <1>6 DEF Committed, IsLive
  <2>2. CommitsSaid[h] = None
    BY <1>8, <2>1 DEF MappingIs
  <2>3. CommitsSaid[source] # None /\ CommitsSaid[source].content = Snapshot(source)
    BY <1>4, <1>8 DEF MappingIs
  <2>4. CommitsSaid'[h] = [branch |-> newHead.branch, parent |-> newHead.parent,
                           content |-> Snapshot(source)]
    BY <1>5, <1>7, <1>8, <2>1 DEF MappingIs
  <2>5. QED
    BY <1>3, <2>2, <2>3, <2>4
<1>13. HeadsThere[b] = None
  BY <1>4, <1>8 DEF MappingIs
<1>14. CommitsSaid' = [CommitsSaid EXCEPT ![h] =
         [branch |-> b, parent |-> source, content |-> CommitsSaid[source].content]]
  BY <1>8, <1>11, <1>12 DEF MappingIs
<1>15. /\ HeadsThere' = [HeadsThere EXCEPT ![b] = h]
       /\ DraftsSaid' = [DraftsSaid EXCEPT ![b] = CommitsSaid[source].content]
  BY <1>8, <1>9, <1>10, <1>12 DEF MappingIs
<1>16. QED
  BY <1>12, <1>13, <1>14, <1>15 DEF History!Fork

\* A branch goes with its commits, and no other commit follows one of them.
LEMMA DeleteBranchImplements ==
  ASSUME IInv, IInv', BInv, BInv', NEW b \in Branches, DeleteBranch(b)
  PROVE  History!Drop(b)
<1> DEFINE own == {r \in RevisionIds : CommitsSaid[r] # None /\ CommitsSaid[r].branch = b}
<1>1. /\ \A q \in RevisionsOf(b) : revision'[q] = None
      /\ \A q \in RevisionIds \ RevisionsOf(b) :
           /\ revision'[q] = revision[q]
           /\ IsLive(q) => revision[q].parent \notin RevisionsOf(b)
  BY DeleteBranchSpares
<1>2. /\ \A q \in RevisionIds \ RevisionsOf(b) : tablesOf'[q] = tablesOf[q]
      /\ table' = table /\ row' = row /\ rowsOf' = rowsOf
      /\ BranchExists(b) /\ b # RootBranch
  BY DEF DeleteBranch
<1>3. \A q \in RevisionIds \ RevisionsOf(b) : Snapshot(q)' = Snapshot(q)
  BY <1>2, SnapshotIsKept
<1>4. MappingIs /\ MappingIs'
  BY MappingFacts, MappingFactsAfter
<1>5. own = {r \in RevisionsOf(b) : Committed(r)}
  BY <1>4 DEF MappingIs, RevisionsOf, Committed
<1>6. \A q \in RevisionIds \ own : CommitsSaid[q] # None => CommitsSaid[q].parent \notin own
  BY <1>1, <1>4, <1>5 DEF MappingIs, RevisionsOf, Committed
<1>7. ASSUME NEW q \in RevisionIds
      PROVE  CommitsSaid'[q] = IF q \in own THEN None ELSE CommitsSaid[q]
  <2>1. CASE q \in RevisionsOf(b)
    <3>1. ~Committed(q)'
      BY <1>1, <2>1 DEF Committed, IsLive
    <3>2. q \in own \/ ~Committed(q)
      BY <1>5, <2>1
    <3>3. QED
      BY <1>4, <3>1, <3>2 DEF MappingIs
  <2>2. CASE q \notin RevisionsOf(b)
    <3>1. revision'[q] = revision[q] /\ Committed(q)' = Committed(q) /\ q \notin own
      BY <1>1, <1>5, <2>2 DEF Committed, IsLive
    <3>2. QED
      BY <1>3, <1>4, <2>2, <3>1 DEF MappingIs
  <2>3. QED
    BY <2>1, <2>2
<1>8. HeadsThere[b] # None /\ HeadsThere'[b] = None /\ DraftsSaid'[b] = None
  <2>1. PICK x, y \in RevisionIds : Mapped(b, x, y)
    BY <1>2, <1>4 DEF MappingIs
  <2>2. ~BranchExists(b)'
    BY <1>1 DEF BranchExists, RevisionsOf, IsLive
  <2>3. QED
    BY <1>4, <2>1, <2>2, NoneAssumption DEF MappingIs, Mapped
<1>9. ASSUME NEW c \in Branches, c # b
      PROVE  HeadsThere'[c] = HeadsThere[c] /\ DraftsSaid'[c] = DraftsSaid[c]
  <2>1. CASE BranchExists(c)
    <3>1. PICK v, w \in RevisionIds : Mapped(c, v, w)
      BY <1>4, <2>1 DEF MappingIs
    <3>2. v \notin RevisionsOf(b) /\ w \notin RevisionsOf(b)
      BY <1>9, <3>1 DEF Mapped, RevisionsOf
    <3>3. SamePlace(v) /\ SamePlace(w)
      BY <1>1, <3>2 DEF SamePlace, IsLive
    <3>4. QED
      BY <1>3, <3>1, <3>2, <3>3, MappedStays DEF Mapped
  <2>2. CASE ~BranchExists(c)
    <3>1. ~BranchExists(c)'
      BY <1>1, <2>2 DEF BranchExists, RevisionsOf, IsLive
    <3>2. QED
      BY <1>4, <2>2, <3>1 DEF MappingIs
  <2>3. QED
    BY <2>1, <2>2
<1> HIDE DEF own
<1>10. CommitsSaid' = [r \in RevisionIds |-> IF r \in own THEN None ELSE CommitsSaid[r]]
  BY <1>4, <1>7 DEF MappingIs
<1>11. /\ HeadsThere' = [HeadsThere EXCEPT ![b] = None]
       /\ DraftsSaid' = [DraftsSaid EXCEPT ![b] = None]
  BY <1>4, <1>8, <1>9 DEF MappingIs
<1>12. QED
  BY <1>2, <1>6, <1>8, <1>10, <1>11 DEF History!Drop, own

-----------------------------------------------------------------------------

\* A project starts with one commit that says nothing, and a draft of it.
LEMMA InitImplements == Init => History!Init
<1> SUFFICES ASSUME Init PROVE History!Init
  OBVIOUS
<1>1. IInv /\ BInv
  BY InitEstablishes, InitShapes
<1>2. MappingIs
  BY <1>1, MappingFacts
<1>3. \A q \in RevisionIds : Snapshot(q) = {}
  BY DEF Init, Snapshot
<1>4. /\ Committed(RootHead) /\ revision[RootHead].branch = RootBranch
      /\ revision[RootHead].parent = None /\ revision[RootHead].isHead
      /\ \A q \in RevisionIds : IsLive(q) => revision[q].branch = RootBranch
      /\ \A q \in RevisionIds \ {RootHead} : ~Committed(q) /\ ~IsHead(q)
  <2>1. /\ [branch |-> RootBranch, parent |-> None, isHead |-> TRUE, isDraft |-> FALSE,
            isStart |-> TRUE, hasChanges |-> FALSE] \in RevisionRecord
    BY RootAssumption DEF RevisionRecord
  <2>2. QED
    BY <2>1, RootAssumption, NoneAssumption DEF Init, IsLive, IsHead, Committed
<1>5. CommitsSaid = [r \in RevisionIds |->
        IF r = RootHead THEN [branch |-> RootBranch, parent |-> None, content |-> {}] ELSE None]
  BY <1>2, <1>3, <1>4 DEF MappingIs
<1>6. ASSUME NEW b \in Branches
      PROVE  /\ HeadsThere[b] = IF b = RootBranch THEN RootHead ELSE None
             /\ DraftsSaid[b] = IF b = RootBranch THEN {} ELSE None
  <2>1. CASE b = RootBranch
    <3>1. BranchExists(b)
      BY <1>4, <2>1, RootAssumption DEF BranchExists, RevisionsOf, Committed
    <3>2. PICK h, d \in RevisionIds : Mapped(b, h, d)
      BY <1>2, <3>1 DEF MappingIs
    <3>3. QED
      BY <1>3, <1>4, <2>1, <3>2 DEF Mapped
  <2>2. CASE b # RootBranch
    <3>1. ~BranchExists(b)
      BY <1>4, <2>2 DEF BranchExists, RevisionsOf
    <3>2. QED
      BY <1>2, <2>2, <3>1 DEF MappingIs
  <2>3. QED
    BY <2>1, <2>2
<1>7. /\ HeadsThere = [b \in Branches |-> IF b = RootBranch THEN RootHead ELSE None]
      /\ DraftsSaid = [b \in Branches |-> IF b = RootBranch THEN {} ELSE None]
  BY <1>2, <1>6 DEF MappingIs
<1>8. QED
  BY <1>5, <1>7 DEF History!Init

\* Every operation is one of BranchHistory's, or changes nothing it can see.
LEMMA StepImplements ==
  ASSUME IInv, IInv', BInv, BInv', MutableIsUnshared, [Next]_vars
  PROVE  [History!Next]_History!vars
<1>1. CASE UNCHANGED vars
  <2>1. \A q \in RevisionIds : Snapshot(q)' = Snapshot(q)
    BY <1>1, SnapshotIsKept DEF vars
  <2>2. QED
    BY <1>1 DEF vars, History!vars, CommitsSaid, HeadsThere, DraftsSaid, HeadOf, DraftOf,
       Snapshot, TableSnapshot, RowSnapshot, Committed, BranchExists, RevisionsOf,
       IsLive, IsHead, IsDraft
<1>2. ASSUME NEW r \in RevisionIds, EditTables(r) \/ EditRows(r)
      PROVE  History!Next
  BY <1>2, EditsImplement DEF History!Next
<1>3. ASSUME NEW b \in Branches, NEW h \in RevisionIds, NEW r \in RevisionIds
      PROVE  (Commit(b, h, r) => History!Next) /\ (Revert(b, h, r) => History!Next)
  BY CommitImplements, RevertImplements DEF History!Next
<1>4. ASSUME NEW source \in RevisionIds, NEW b \in Branches, CreateBranch(source, b)
      PROVE  History!Next
  BY <1>4, CreateBranchImplements DEF History!Next
<1>5. ASSUME NEW b \in Branches, DeleteBranch(b)
      PROVE  History!Next
  BY <1>5, DeleteBranchImplements DEF History!Next
<1>6. CASE DeleteOrphanTables \/ DeleteOrphanRows
  BY <1>6, CleanupStutters
<1>7. QED
  BY <1>1, <1>2, <1>3, <1>4, <1>5, <1>6 DEF Next

\* Copy-on-write is not observable.  Whatever versions a project's revisions
\* share, and in whatever order branches are forked, edited, committed, reverted,
\* deleted and cleaned up after, the store does what BranchHistory does, where
\* every commit keeps a copy of its own.
THEOREM StoreImplementsHistory == Spec => ImplementsBranchHistory
<1>1. IInv /\ IInv' /\ BInv /\ BInv' /\ MutableIsUnshared /\ [Next]_vars
        => [History!Next]_History!vars
  BY StepImplements
<1>2. QED
  BY <1>1, InitImplements, InvariantHolds, BranchInvariantHolds, MutableStaysUnshared, PTL
     DEF Spec, ImplementsBranchHistory, History!Spec
=============================================================================

-------------------------- MODULE TargetVersioning --------------------------
(***************************************************************************)
(* The versioning core with partial commits and reverts, at the level of   *)
(* versions.                                                               *)
(*                                                                         *)
(* A partial operation applies some of the differences between the head h  *)
(* and the draft r of a branch: a commit brings them into the next head, a *)
(* revert takes them out of the draft.  Of each table the assembly         *)
(* (partial-changes/assembly) decides whether a version of either side has *)
(* what is wanted and can be linked, or a version has to be mixed from     *)
(* both; the writer (draft-revision-commit-to-target,                      *)
(* draft-revision-revert-to-target, AssembledVersionWriter) links, copies  *)
(* and edits versions, and locks what becomes part of the head.            *)
(*                                                                         *)
(* Which differences need each other is the subject of PartialChanges;     *)
(* here any are applied together that leave one table and one row to a     *)
(* name.  Tables have no schemas, so structures differ in names only.      *)
(***************************************************************************)
EXTENDS Versioning

ASSUME VersionAssumption == None \notin TableVersions \cup RowVersions

VARIABLE applied  \* the request the last step carried out, None after any other

targetVars == <<vars, applied>>

Operations == {"commit", "revert"}
BaseSide(operation) == IF operation = "commit" THEN "head" ELSE "draft"
Opposite(side) == IF side = "head" THEN "draft" ELSE "head"

\* What versions say: a state of the relations, and the tables and rows in it.
Stored == [table |-> table, row |-> row, rowsOf |-> rowsOf]

RowContent(x) == [createdId |-> x.createdId, id |-> x.id, data |-> x.data]
TableContent(db, t) ==
  [createdId |-> db.table[t].createdId, id |-> db.table[t].id,
   rows |-> {RowContent(db.row[x]) : x \in db.rowsOf[t]}]
Content(r) == {TableContent(Stored, t) : t \in tablesOf[r]}

-----------------------------------------------------------------------------
(* Head and draft, side by side. *)

\* Of two versions of one logical table the reader keeps the last it gets, in
\* no particular order; what it makes of such a revision is left out.
HasTablesOnce(r) ==
  \A t, u \in tablesOf[r] : table[t].createdId = table[u].createdId => t = u

VersionIn(r, c) ==
  IF \E t \in tablesOf[r] : table[t].createdId = c
  THEN CHOOSE t \in tablesOf[r] : table[t].createdId = c ELSE None

RowIn(t, x) ==
  IF t # None /\ \E v \in rowsOf[t] : row[v].createdId = x
  THEN CHOOSE v \in rowsOf[t] : row[v].createdId = x ELSE None

TablePair(head, draft) ==
  [ head |-> head, draft |-> draft,
    rows |-> [x \in RowCreatedIds |-> [head |-> RowIn(head, x), draft |-> RowIn(draft, x)]] ]
Pairs(h, r) == [c \in TableCreatedIds |-> TablePair(VersionIn(h, c), VersionIn(r, c))]

OnBothSides(pair) == pair.head # None /\ pair.draft # None
OnOneSide(pair) == (pair.head = None) # (pair.draft = None)
OnlySide(pair) == IF pair.head = None THEN pair.draft ELSE pair.head

\* A difference: of a table's structure, or of a row's existence, id or data.
Part(of, c, x) == [of |-> of, table |-> c, row |-> x]

RowParts(pair, c, x) ==
  LET rows == pair.rows[x]
  IN  IF OnOneSide(rows) THEN {Part("existence", c, x)}
      ELSE IF ~OnBothSides(rows) THEN {}
      ELSE {p \in {Part("id", c, x)} : row[rows.head].id # row[rows.draft].id}
             \cup {p \in {Part("data", c, x)} : row[rows.head].data # row[rows.draft].data}

TableParts(pair, c) ==
  IF OnOneSide(pair) THEN {Part("structure", c, None)}
  ELSE IF ~OnBothSides(pair) \/ pair.head = pair.draft THEN {}
  ELSE {p \in {Part("structure", c, None)} : table[pair.head].id # table[pair.draft].id}
         \cup UNION {RowParts(pair, c, x) : x \in RowCreatedIds}

Parts(pairs) == UNION {TableParts(pairs[c], c) : c \in TableCreatedIds}

\* A table or row that replaces another one under its id is one unit with it.
Recreates(pairs, p, q) ==
  \/ /\ p.of = "structure" /\ q.of = "structure"
     /\ OnOneSide(pairs[p.table]) /\ OnOneSide(pairs[q.table])
     /\ table[OnlySide(pairs[p.table])].id = table[OnlySide(pairs[q.table])].id
  \/ /\ p.of = "existence" /\ q.of = "existence" /\ p.table = q.table
     /\ row[OnlySide(pairs[p.table].rows[p.row])].id =
          row[OnlySide(pairs[q.table].rows[q.row])].id

-----------------------------------------------------------------------------
(* What a request asks for: the target. *)

SideTakenBy(q, part) ==
  IF part \in q.parts THEN Opposite(BaseSide(q.operation)) ELSE BaseSide(q.operation)

StructureSide(q, c) == SideTakenBy(q, Part("structure", c, None))
StructureVersion(q, c) == q.pairs[c][StructureSide(q, c)]

\* The versions of a row on the side whose structure is taken, and on the other.
OwnRow(q, c, x) == q.pairs[c].rows[x][StructureSide(q, c)]
OtherRow(q, c, x) == q.pairs[c].rows[x][Opposite(StructureSide(q, c))]

\* A row as the target has it, part by part; in a set, that is empty without it.
TargetRow(q, c, x) ==
  LET rows == q.pairs[c].rows[x]
      from(part) == row[rows[SideTakenBy(q, Part(part, c, x))]]
  IN  IF rows[SideTakenBy(q, Part("existence", c, x))] = None THEN {}
      ELSE IF OnBothSides(rows)
        THEN {[createdId |-> x, id |-> from("id").id, data |-> from("data").data]}
      ELSE {RowContent(from("existence"))}

TargetTable(q, c) ==
  IF OnBothSides(q.pairs[c])
  THEN [createdId |-> c, id |-> table[StructureVersion(q, c)].id,
        rows |-> UNION {TargetRow(q, c, x) : x \in RowCreatedIds}]
  ELSE TableContent(Stored, StructureVersion(q, c))

Target(q) == {TargetTable(q, c) : c \in {k \in TableCreatedIds : StructureVersion(q, k) # None}}

\* The collision checks: one table to a name, one row to a name.
HasNoCollisions(target) ==
  /\ \A s, t \in target : s.id = t.id => s = t
  /\ \A t \in target : \A x, y \in t.rows : x.id = y.id => x = y

-----------------------------------------------------------------------------
(* What the assembly plans for a table. *)

TakesOther(q, part) == SideTakenBy(q, part) # StructureSide(q, part.table)

\* What becomes of a changed row.  One that moves into the other structure, or
\* takes all that differs, collapses into the version it then equals.
RowOutcome(q, c, x) ==
  LET parts == RowParts(q.pairs[c], c, x)
      taken == {p \in parts : TakesOther(q, p)}
  IN  IF taken = {} THEN IF OwnRow(q, c, x) = None THEN "absent" ELSE "structureSide"
      ELSE IF taken # parts THEN "merge"
      ELSE IF OtherRow(q, c, x) = None THEN "absent" ELSE "otherSide"

\* Which version the table goes on with, or a mixture.
TableOutcome(q, c, becomes) ==
  LET parts == TableParts(q.pairs[c], c)
  IN  IF parts = {} THEN IF q.wholeDraft THEN "other" ELSE "base"
      ELSE IF \A x \in DOMAIN becomes :
                \/ becomes[x] = "structureSide"
                \/ becomes[x] = "absent" /\ OwnRow(q, c, x) = None
        THEN "base"
      ELSE IF \A p \in parts : p.of # "structure" /\ TakesOther(q, p) THEN "other"
      ELSE "mixed"

EditsDraftInPlace(q, c) ==
  /\ q.operation = "revert" /\ StructureSide(q, c) = "draft"
  /\ ~table[q.pairs[c].draft].readonly

\* Mutated: a row that another version replaces keeps its link.
RemovedAbsent(q, c, becomes) ==
  {OwnRow(q, c, x) : x \in {k \in DOMAIN becomes : becomes[k] = "absent"}}
    \ {None}

Removed(q, c, becomes) ==
  {OwnRow(q, c, x) : x \in {k \in DOMAIN becomes : becomes[k] # "structureSide"}}
    \ {None}

\* What is done about a table: a version that is linked, or one that is mixed
\* out of this version's links, some of the other side's, and new rows.
TablePlan(q, c) ==
  LET changed == {x \in RowCreatedIds : RowParts(q.pairs[c], c, x) # {}}
      becomes == [x \in changed |-> RowOutcome(q, c, x)]
      becoming(outcome) == {x \in changed : becomes[x] = outcome}
      outcome == IF OnBothSides(q.pairs[c]) THEN TableOutcome(q, c, becomes) ELSE "base"
  IN  [ mixed |-> outcome = "mixed",
        version |-> IF outcome = "other" THEN q.pairs[c][Opposite(StructureSide(q, c))]
                    ELSE StructureVersion(q, c),
        inPlace |-> outcome = "mixed" /\ EditsDraftInPlace(q, c),
        removed |-> Removed(q, c, becomes),
        added |-> {OtherRow(q, c, x) : x \in becoming("otherSide")},
        newRows |-> UNION {TargetRow(q, c, x) : x \in becoming("merge")},
        relink |-> OnBothSides(q.pairs[c]) /\ TableParts(q.pairs[c], c) \subseteq q.parts ]

\* What was read, and what is on one side only.
Plan(q) == [c \in q.readToo \cup {p.table : p \in q.parts} |-> TablePlan(q, c)]

-----------------------------------------------------------------------------
(* Writing. *)

CopiedTables(plan) == {c \in DOMAIN plan : plan[c].mixed /\ ~plan[c].inPlace}
NewRows(plan) == UNION {plan[c].newRows : c \in {k \in DOMAIN plan : plan[k].mixed}}

\* The version of each table of the plan once it is written.
WrittenVersions(plan, tableId) ==
  [c \in DOMAIN plan |-> IF c \in DOMAIN tableId THEN tableId[c] ELSE plan[c].version]

\* The relations after the writes, versions of a head being written readonly.
Written(plan, tableId, rowId, readonly) ==
  LET version == WrittenVersions(plan, tableId)
      copied(t) == plan[CHOOSE c \in DOMAIN tableId : tableId[c] = t].version
      mixing(t) == {c \in DOMAIN plan : plan[c].mixed /\ version[c] = t}
      newRow(x) == CHOOSE k \in DOMAIN rowId : rowId[k] = x
      mixture(p) == (rowsOf[p.version] \ p.removed) \cup p.added \cup {rowId[k] : k \in p.newRows}
  IN  [ table |-> [t \in TableVersions |->
                     IF t \in Range(tableId)
                     THEN [table[copied(t)] EXCEPT !.readonly = readonly] ELSE table[t]],
        row |-> [x \in RowVersions |->
                   IF x \in Range(rowId)
                   THEN [createdId |-> newRow(x).createdId, id |-> newRow(x).id,
                         readonly |-> readonly, data |-> newRow(x).data]
                   ELSE row[x]],
        rowsOf |-> [t \in TableVersions |->
                      IF mixing(t) = {} THEN rowsOf[t]
                      ELSE UNION {mixture(plan[c]) : c \in mixing(t)}] ]

\* DraftFollowsHead: with every difference applied, a version that says the
\* same as the head's gives way to it.
VersionToLink(db, p, version, headVersion) ==
  IF /\ p.relink /\ version # None /\ headVersion # None
     /\ TableContent(db, version) = TableContent(db, headVersion)
  THEN headVersion ELSE version

\* relinkedTablesOf: the version of each of these logical tables gives way to
\* another, or to none.
Relinked(tables, replaced, link) == (tables \ Range(replaced)) \cup (Range(link) \ {None})

-----------------------------------------------------------------------------
(* The two operations. *)

\* Mutated: rows that come with a linked version stay mutable.
NoRowsToLock(db, pairs, version) == {}

\* Rows of the versions that are new in the head, if the head's version of the
\* table did not have them.
RowsToLockFor(db, pairs, version) ==
  UNION {db.rowsOf[version[c]] \ (IF pairs[c].head = None THEN {} ELSE rowsOf[pairs[c].head]) :
           c \in {k \in DOMAIN version : version[k] \notin {None, pairs[k].head}}}

CommitToTarget(q, plan, db, version) ==
  LET next == NewId(revision)
      headOf == [c \in DOMAIN plan |-> q.pairs[c].head]
      draftOf == [c \in DOMAIN plan |-> q.pairs[c].draft]
      nextDraft == [c \in DOMAIN plan |->
                      VersionToLink(db, plan[c], q.pairs[c].draft, version[c])]
      lockedRows == RowsToLockFor(db, q.pairs, version)
      lockedTables == {version[c] : c \in DOMAIN plan} \ Range(headOf)
  IN  /\ q.operation = "commit"
      /\ table' = [t \in TableVersions |->
                     IF t \in lockedTables THEN [db.table[t] EXCEPT !.readonly = TRUE]
                     ELSE db.table[t]]
      /\ row' = [x \in RowVersions |->
                   IF x \in lockedRows THEN [db.row[x] EXCEPT !.readonly = TRUE] ELSE db.row[x]]
      /\ rowsOf' = db.rowsOf
      /\ tablesOf' = [tablesOf EXCEPT ![q.draft] = Relinked(tablesOf[q.head], headOf, version),
                                      ![next] = Relinked(tablesOf[q.draft], draftOf, nextDraft)]
      /\ revision' =
           [revision EXCEPT
              ![q.head] = RetireHead(q.head), ![q.draft] = PromoteDraftToHead(q.draft),
              ![next] = [OpenNextDraft(q.branch, q.draft) EXCEPT !.hasChanges =
                           TableSetsDiffer(table', tablesOf'[q.draft], tablesOf'[next])]]

RevertToTarget(q, plan, db, version) ==
  LET draftOf == [c \in DOMAIN plan |-> q.pairs[c].draft]
      kept == [c \in DOMAIN plan |-> VersionToLink(db, plan[c], version[c], q.pairs[c].head)]
  IN  /\ q.operation = "revert"
      /\ table' = db.table /\ row' = db.row /\ rowsOf' = db.rowsOf
      /\ tablesOf' = [tablesOf EXCEPT ![q.draft] = Relinked(@, draftOf, kept)]
      /\ UpdateHasChanges(q.draft)

\* What a request comes to, once what it needs is added: some of the
\* differences, none without the rest of its unit, and the tables it reads -
\* those it names, and others connected to them.  (To read a table none of whose
\* differences is applied matters only if it has none.)  The whole draft is all
\* differences, and every table.
Requests(b, h, r) ==
  LET pairs == Pairs(h, r)
      all == Parts(pairs)
      choices == {S \in (SUBSET all) \ {{}} :
                    \A p \in S, s \in all : Recreates(pairs, p, s) => s \in S}
      rewritten == {c \in TableCreatedIds :
                      /\ OnBothSides(pairs[c]) /\ pairs[c].head # pairs[c].draft
                      /\ TableParts(pairs[c], c) = {}}
      operations == {o \in Operations : o = "commit" => Unused(revision) # {}}
  IN  {q \in [branch : {b}, head : {h}, draft : {r}, pairs : {pairs}, operation : operations,
              parts : choices, readToo : SUBSET rewritten, wholeDraft : BOOLEAN] :
         /\ q.wholeDraft => q.parts = all /\ q.readToo = rewritten
         /\ HasNoCollisions(Target(q))}

ApplyChanges(b, h, r) ==
  /\ IsHead(h) /\ IsDraft(r)
  /\ revision[h].branch = b /\ revision[r].branch = b
  /\ HasTablesOnce(h) /\ HasTablesOnce(r)
  /\ \E q \in Requests(b, h, r) :
       LET plan == Plan(q)
           tableIds == Injection(CopiedTables(plan), Unused(table))
           rowIds == Injection(NewRows(plan), Unused(row))
           tableId == CHOOSE f \in tableIds : TRUE
           rowId == CHOOSE f \in rowIds : TRUE
           version == WrittenVersions(plan, tableId)
           db == Written(plan, tableId, rowId, q.operation = "commit")
       IN  /\ tableIds # {} /\ rowIds # {}
           /\ \/ CommitToTarget(q, plan, db, version)
              \/ RevertToTarget(q, plan, db, version)
           /\ applied' = q

-----------------------------------------------------------------------------

TargetInit == Init /\ applied = None

TargetNext ==
  \/ Next /\ applied' = None
  \/ \E b \in Branches, h, r \in RevisionIds : ApplyChanges(b, h, r)

TargetSpec == TargetInit /\ [][TargetNext]_targetVars
-----------------------------------------------------------------------------
(* Properties. *)

\* However a partial operation comes by its versions - linked, copied, mixed,
\* edited in place -, what they say is what was asked for: the new head, or the
\* reverted draft, is the base with exactly the applied parts of the other
\* side, and a commit leaves the next draft saying what the draft said.  With
\* every difference of every table applied, the draft has no changes.
OperationsReachTheirTarget ==
  [][LET base == Content(applied'.draft)
     IN  applied' # None =>
           /\ Content(applied.draft)' = Target(applied')
           /\ applied'.operation = "commit" => Content(DraftOf(applied.branch))' = base
           /\ applied'.wholeDraft => ~(revision[DraftOf(applied.branch)].hasChanges)']_targetVars
=============================================================================

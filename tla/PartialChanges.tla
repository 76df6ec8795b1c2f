--------------------------- MODULE PartialChanges ---------------------------
(***************************************************************************)
(* Committing or reverting a part of the draft.                            *)
(*                                                                         *)
(* src/src/features/partial-changes divides the difference between the     *)
(* draft and the head into units (catalogue), lets a client select some    *)
(* of them, adds the units the selection cannot do without (closure),      *)
(* assembles the content the choice describes (assembly) and writes it: a  *)
(* commit gives it to a new head and leaves the content of the draft, a    *)
(* revert gives it to the draft.                                           *)
(*                                                                         *)
(* A snapshot s is what one plan reads: the content of both sides and what *)
(* the draft recorded about its schemas.  A plan p is a snapshot, an       *)
(* operation and the units applied so far.                                 *)
(*                                                                         *)
(* The checks of the schema ledger are the subject of module SchemaLedger; *)
(* here they would only add units to a choice or refuse it.  Views, shared *)
(* schemas, and the columns meta, publishedAt and schemaHash are left out, *)
(* and every changed table is read.                                        *)
(***************************************************************************)
EXTENDS DraftContent, TLC

VARIABLE applied  \* the units the last step applied, {} after any other step

vars == <<contentVars, applied>>

Operations == {"commit", "revert"}
Opposite(side) == IF side = "head" THEN "draft" ELSE "head"
BaseSide(operation) == IF operation = "commit" THEN "head" ELSE "draft"

Snapshot == [head |-> head, draft |-> draft, recorded |-> recorded]

(***************************************************************************)
(* The catalogue: the units of a snapshot.                                 *)
(***************************************************************************)
UnitKinds == {"structure", "rowCreate", "rowDelete", "rowReplace", "rowRename",
              "fieldVal", "fieldRef"}
UnitRecord == [kind : UnitKinds, tables : SUBSET Tables, rows : SUBSET Rows]
Unit(kind, tables, rows) == [kind |-> kind, tables |-> tables, rows |-> rows]

(* A revision is finite, so the closure of a selection ends.               *)
ASSUME UnitAssumption ==
    /\ IsFiniteSet(Tables) /\ IsFiniteSet(Rows)
    /\ None \notin UnitRecord

OnBothSides(s) == TablesOf(s.head) \cap TablesOf(s.draft)
OnOneSide(s) == (TablesOf(s.head) \cup TablesOf(s.draft)) \ OnBothSides(s)

OneSidedId(s, t) == IF s.draft.tables[t] # None THEN s.draft.tables[t].id
                                                ELSE s.head.tables[t].id

(* A table created under the public id of a removed one shares its unit.   *)
StructureUnit(s, t) ==
    Unit("structure",
         IF t \in OnOneSide(s)
           THEN {u \in OnOneSide(s) : OneSidedId(s, u) = OneSidedId(s, t)}
           ELSE {t},
         {})

(* A foreign-key field is compared by the identity of the table it refers  *)
(* to: a schema rewritten by a rename keeps the same field.                *)
Identity(c, id) == IF TableNamed(c, id) = {} THEN None
                                             ELSE CHOOSE t \in TableNamed(c, id) : TRUE

ReferenceChanged(s, t) ==
    /\ t \in OnBothSides(s)
    /\ \/ "reference" \in s.recorded[t]
       \/ Identity(s.head, s.head.tables[t].ref) # Identity(s.draft, s.draft.tables[t].ref)

StructureDiffersInSchema(s, t) ==
    t \in OnOneSide(s) \/ s.head.tables[t] # s.draft.tables[t]

StructureDiffers(s, t) ==
    \/ t \in OnOneSide(s)
    \/ /\ t \in OnBothSides(s)
       /\ \/ s.recorded[t] # {}
          \/ s.head.tables[t] # s.draft.tables[t]
          \/ ReferenceChanged(s, t)

OneSidedRow(s, r) == (s.head.rows[r] = None) # (s.draft.rows[r] = None)

TableOf(s, r) == IF s.head.rows[r] # None THEN s.head.rows[r].table
                                          ELSE s.draft.rows[r].table

(* The rows a plan loads: those of a table on both sides that differ in    *)
(* existence, in their id, or in a field no structure unit owns.           *)
Loaded(s, t) ==
    IF t \notin OnBothSides(s) THEN {}
    ELSE {r \in RowsOf(s.head, t) \cup RowsOf(s.draft, t) :
            \/ OneSidedRow(s, r)
            \/ s.head.rows[r].id # s.draft.rows[r].id
            \/ s.head.rows[r].val # s.draft.rows[r].val
            \/ s.head.rows[r].ref # s.draft.rows[r].ref /\ ~ReferenceChanged(s, t)}

(* A row created under the id of a deleted one shares its unit.            *)
ExistenceUnit(s, r) ==
    LET t == TableOf(s, r)
        one == IF s.head.rows[r] # None THEN "head" ELSE "draft"
        replaced == {o \in RowsOf(s[Opposite(one)], t) :
                       OneSidedRow(s, o) /\ s[Opposite(one)].rows[o].id = s[one].rows[r].id}
    IN IF replaced # {} THEN Unit("rowReplace", {t}, {r} \cup replaced)
       ELSE Unit(IF one = "head" THEN "rowDelete" ELSE "rowCreate", {t}, {r})

RenameUnit(s, r) == Unit("rowRename", {TableOf(s, r)}, {r})
ValueUnit(s, r) == Unit("fieldVal", {TableOf(s, r)}, {r})
ReferenceUnit(s, r) ==
    IF ReferenceChanged(s, TableOf(s, r)) THEN StructureUnit(s, TableOf(s, r))
                                          ELSE Unit("fieldRef", {TableOf(s, r)}, {r})

(* The unit that gives a row its id, if it differs.                        *)
IdUnit(s, r) == IF OneSidedRow(s, r) THEN ExistenceUnit(s, r) ELSE RenameUnit(s, r)

RowUnits(s, r) ==
    IF OneSidedRow(s, r) THEN {ExistenceUnit(s, r)}
    ELSE LET h == s.head.rows[r]  d == s.draft.rows[r]
         IN {u \in {RenameUnit(s, r)} : h.id # d.id}
              \cup {u \in {ValueUnit(s, r)} : h.val # d.val}
              \cup {u \in {ReferenceUnit(s, r)} : h.ref # d.ref}

Units(s) ==
    {StructureUnit(s, t) : t \in {u \in Tables : StructureDiffers(s, u)}}
      \cup UNION {RowUnits(s, r) : r \in UNION {Loaded(s, t) : t \in Tables}}

(***************************************************************************)
(* The target of a choice.                                                 *)
(***************************************************************************)
Plan(s, operation, units) ==
    [snapshot |-> s, base |-> BaseSide(operation), applied |-> units]

SideTakenBy(p, unit) == IF unit \in p.applied THEN Opposite(p.base) ELSE p.base
StructureSideOfTable(p, t) == SideTakenBy(p, Unit("structure", {t}, {}))
StructureSide(p, t) == SideTakenBy(p, StructureUnit(p.snapshot, t))

MovedRowAsItIs(p, t, row) == row

(* A row that exists on the side whose structure is not taken is moved     *)
(* into the other structure: a field that changed gets its default.        *)
MovedRow(p, t, row) ==
    LET s == p.snapshot
    IN [row EXCEPT !.ref =
          IF s[StructureSide(p, t)].tables[t].ref = None THEN None
          ELSE IF ReferenceChanged(s, t) THEN Blank ELSE row.ref]

(* Each part of a row on both sides comes from the side its unit takes.    *)
MergedRow(p, t, r) ==
    LET s == p.snapshot
        part(unit) == s[SideTakenBy(p, unit)].rows[r]
    IN [table |-> t, id |-> part(RenameUnit(s, r)).id,
        val |-> part(ValueUnit(s, r)).val, ref |-> part(ReferenceUnit(s, r)).ref]

LoadedRow(p, t, r) ==
    LET unit == ExistenceUnit(p.snapshot, r)
        existing == p.snapshot[SideTakenBy(p, unit)].rows[r]
    IN IF ~OneSidedRow(p.snapshot, r) THEN MergedRow(p, t, r)
       ELSE IF existing = None \/ SideTakenBy(p, unit) = StructureSide(p, t)
         THEN existing
         ELSE MovedRow(p, t, existing)

(* Rows that are not loaded come with the version of their table.          *)
Target(p) ==
    LET s == p.snapshot
        loaded == UNION {Loaded(s, t) : t \in Tables}
        exist == {r \in Rows : s.head.rows[r] # None \/ s.draft.rows[r] # None}
    IN [tables |-> [t \in Tables |->
                      IF StructureDiffers(s, t) THEN s[StructureSide(p, t)].tables[t]
                                                ELSE s[p.base].tables[t]],
        rows |-> [r \in Rows |->
                    IF r \in loaded THEN LoadedRow(p, TableOf(s, r), r)
                    ELSE IF r \in exist THEN s[StructureSide(p, TableOf(s, r))].rows[r]
                    ELSE None]]

(***************************************************************************)
(* The checks of a target c.  Each finding is the unit it requires, or     *)
(* None: a blocker no unit can lift.                                       *)
(***************************************************************************)
Orelse(unit, units, otherwise) == IF unit \in units THEN unit ELSE otherwise

(* The table a schema of the target refers to: the one its own side means, *)
(* if that is the one that holds the id in the target.                     *)
TableMeantBy(p, c, t) == Identity(p.snapshot[StructureSide(p, t)], c.tables[t].ref)
ReferencedTable(p, c, t) ==
    IF Identity(c, c.tables[t].ref) = TableMeantBy(p, c, t)
      THEN TableMeantBy(p, c, t) ELSE None

TableIdCollisions(p, c, open) ==
    {Orelse(StructureUnit(p.snapshot, t), open, None) :
       t \in {u \in TablesOf(c) :
                /\ TableNamed(c, c.tables[u].id) # {u}
                /\ p.snapshot[p.base].tables[u] # None
                /\ p.snapshot[p.base].tables[u].id = c.tables[u].id
                /\ StructureUnit(p.snapshot, u) \notin p.applied}}

TableReferences(p, c, open) ==
    {Orelse(StructureUnit(p.snapshot, t), open,
            Orelse(StructureUnit(p.snapshot, TableMeantBy(p, c, t)), open, None)) :
       t \in {u \in TablesOf(c) : c.tables[u].ref # None /\ ReferencedTable(p, c, u) = None}}

RowIdCollisions(p, c, open) ==
    {Orelse(IdUnit(p.snapshot, r), open, None) :
       r \in {q \in Rows :
                /\ c.rows[q] # None
                /\ \E o \in RowsOf(c, c.rows[q].table) \ {q} : c.rows[o].id = c.rows[q].id
                /\ p.snapshot[p.base].rows[q] # None
                /\ p.snapshot[p.base].rows[q].id = c.rows[q].id
                /\ IdUnit(p.snapshot, q) \notin p.applied}}

(* The unit that brings a row with this id from the other side.            *)
ProviderOf(p, t, id) ==
    LET s == p.snapshot
        providers == {r \in Loaded(s, t) :
                        /\ s[Opposite(p.base)].rows[r] # None
                        /\ s[Opposite(p.base)].rows[r].id = id
                        /\ s[p.base].rows[r] # None => s[p.base].rows[r].id # id}
    IN IF providers = {} THEN None
       ELSE IdUnit(s, CHOOSE r \in providers : TRUE)

Unresolved(p, c) ==
    {r \in Rows :
       /\ c.rows[r] # None /\ c.rows[r].ref # None
       /\ ReferencedTable(p, c, c.rows[r].table) # None
       /\ \A o \in RowsOf(c, ReferencedTable(p, c, c.rows[r].table)) :
            c.rows[o].id # c.rows[r].ref}

(* A loaded row: take its structure, if the field changed; or its own      *)
(* unit, if the other side no longer holds the reference; or bring the     *)
(* referenced row.                                                         *)
RestoredReference(p, c, r, open) ==
    LET s == p.snapshot
        t == c.rows[r].table
        id == c.rows[r].ref
        covering == IF OneSidedRow(s, r) THEN ExistenceUnit(s, r) ELSE ReferenceUnit(s, r)
        brought == {o \in covering.rows \cup {r} :
                      /\ s[Opposite(p.base)].rows[o] # None
                      /\ s[Opposite(p.base)].rows[o].ref = id}
    IN IF ReferenceChanged(s, t) /\ StructureUnit(s, t) \in open THEN StructureUnit(s, t)
       ELSE IF covering \in open /\ brought = {} THEN covering
       ELSE ProviderOf(p, ReferencedTable(p, c, t), id)

(* A row that is not loaded refers to an id its target loses, or came with *)
(* a table or a foreign-key field of the other side.  Every field of a     *)
(* table on one side counts as changed.                                    *)
UnchangedReferenceOfField(p, c, r, open) ==
    IF ReferenceChanged(p.snapshot, c.rows[r].table)
      THEN Orelse(StructureUnit(p.snapshot, c.rows[r].table), open, None)
      ELSE ProviderOf(p, ReferencedTable(p, c, c.rows[r].table), c.rows[r].ref)

UnchangedReference(p, c, r, open) ==
    LET s == p.snapshot
        t == c.rows[r].table
    IN IF (t \in OnOneSide(s) \/ ReferenceChanged(s, t)) /\ StructureUnit(s, t) \in open
         THEN StructureUnit(s, t)
       ELSE ProviderOf(p, ReferencedTable(p, c, t), c.rows[r].ref)

BroughtWithItsTable(p, t) ==
    StructureSide(p, t) # p.base /\ p.snapshot[p.base].tables[t] = None

BroughtWholesale(p, t) ==
    /\ StructureSide(p, t) # p.base
    /\ p.snapshot[p.base].tables[t] = None \/ ReferenceChanged(p.snapshot, t)

LosesId(p, t, id) ==
    \E r \in Loaded(p.snapshot, t) :
      p.snapshot[p.base].rows[r] # None /\ p.snapshot[p.base].rows[r].id = id

IsLoaded(p, c, r) == r \in Loaded(p.snapshot, c.rows[r].table)

(* The references of loaded rows.                                          *)
DanglingRowReferences(p, c, open) ==
    {RestoredReference(p, c, r, open) : r \in {q \in Unresolved(p, c) : IsLoaded(p, c, q)}}

(* Rows nobody loaded that refer to an id the target loses.                *)
UnchangedReferrersOfLostIds(p, c, open) ==
    {UnchangedReference(p, c, r, open) :
       r \in {q \in Unresolved(p, c) :
                /\ ~IsLoaded(p, c, q)
                /\ LosesId(p, ReferencedTable(p, c, c.rows[q].table), c.rows[q].ref)}}

(* Rows nobody loaded that come with a foreign-key field of the other side. *)
WholesaleRowReferences(p, c, open) ==
    {UnchangedReference(p, c, r, open) :
       r \in {q \in Unresolved(p, c) :
                ~IsLoaded(p, c, q) /\ BroughtWholesale(p, c.rows[q].table)}}

FindingsOf(p, c, open) ==
    TableIdCollisions(p, c, open) \cup TableReferences(p, c, open)
      \cup RowIdCollisions(p, c, open) \cup DanglingRowReferences(p, c, open)
      \cup UnchangedReferrersOfLostIds(p, c, open) \cup WholesaleRowReferences(p, c, open)

(* Bound to c, the target is worked out once for all checks.               *)
Findings(p) ==
    UNION {FindingsOf(p, c, Units(p.snapshot) \ p.applied) : c \in {Target(p)}}

(* The closure: required units are added until nothing new is required; a  *)
(* finding that is left then is a blocker.                                 *)
Closure(findings, selected) ==
    LET close[units \in DOMAIN findings] ==
          LET required == findings[units] \ (units \cup {None})
          IN IF required = {} THEN units ELSE close[units \cup required]
    IN close[selected]

Closed(s, operation, units) ==
    [units |-> units, blocked |-> Findings(Plan(s, operation, units)) # {}]

Close(s, operation, selected) ==
    Closed(s, operation,
           Closure([units \in SUBSET Units(s) |-> Findings(Plan(s, operation, units))],
                   selected))

(* What a fingerprint covers: the operation, the revisions and what the    *)
(* applied units bring.  The head's content stands for its id, and the     *)
(* content of rows and tables for their texts and digests.                 *)
CoveredByText(s, u) ==
    [unit |-> u,
     tables |-> {<<t, s.draft.tables[t], s.recorded[t]>> :
                   t \in {v \in u.tables : u.kind = "structure"}},
     rows |-> {<<r, s.draft.rows[r]>> : r \in u.rows}]

Covered(s, u) ==
    [unit |-> u,
     tables |-> {<<t, s.draft.tables[t], s.recorded[t],
                   {<<r, s.draft.rows[r]>> : r \in RowsOf(s.draft, t)}>> :
                   t \in {v \in u.tables : u.kind = "structure"}},
     rows |-> {<<r, s.draft.rows[r]>> : r \in u.rows}]

Fingerprint(p) ==
    [base |-> p.base,
     revision |-> p.snapshot.head,
     covered |-> {Covered(p.snapshot, u) : u \in p.applied}]

(***************************************************************************)
(* Applying a selection: the operation plans on what it reads, and writes  *)
(* when something is applied and nothing blocks.  A request that excludes  *)
(* units, or does not accept required ones, is refused unless its own      *)
(* selection is closed, so it applies what selecting that set applies.     *)
(***************************************************************************)
Applicable(plan) == plan.units # {} /\ ~plan.blocked

(* What the draft recorded about a schema goes with its structure unit.    *)
RecordedAfter(units) ==
    [t \in Tables |-> IF StructureUnit(Snapshot, t) \in units THEN {} ELSE recorded[t]]

Write(operation, units, target) ==
    /\ target = Target(Plan(Snapshot, operation, units))
    /\ recorded' = RecordedAfter(units)
    /\ UNCHANGED edits

Apply(operation, plan, target) ==
    /\ Applicable(plan)
    /\ Write(operation, plan.units, target)
    /\ applied' = plan.units

CommitDraftChanges(selected) ==
    Apply("commit", Close(Snapshot, "commit", selected), head') /\ UNCHANGED draft
RevertDraftChanges(selected) ==
    Apply("revert", Close(Snapshot, "revert", selected), draft') /\ UNCHANGED head

Init == ContentInit /\ applied = {}

Next ==
    \/ (EditDraft \/ CreateRevision \/ RevertChanges) /\ applied' = {}
    \/ \E selected \in SUBSET Units(Snapshot) :
         CommitDraftChanges(selected) \/ RevertDraftChanges(selected)

Spec == Init /\ [][Next]_vars

(***************************************************************************)
(* What partial operations promise about the content, with no word of how  *)
(* their units are chosen: native changes, and at any time some units of   *)
(* the difference, moved together into a target without findings.          *)
(***************************************************************************)
MoveUnits(operation, units) ==
    /\ Findings(Plan(Snapshot, operation, units)) = {}
    /\ CASE operation = "commit" -> Write(operation, units, head') /\ UNCHANGED draft
         [] operation = "revert" -> Write(operation, units, draft') /\ UNCHANGED head

ContentNext ==
    \/ EditDraft \/ CreateRevision \/ RevertChanges
    \/ \E operation \in Operations, units \in SUBSET Units(Snapshot) : MoveUnits(operation, units)

ContentSpec == ContentInit /\ [][ContentNext]_contentVars

(***************************************************************************)
(* Properties.                                                             *)
(***************************************************************************)
(* Whatever is selected, the head that is published and the draft that is  *)
(* left keep unique ids, no schema without its table and no reference      *)
(* without its row.                                                        *)
RevisionsHoldTogether == HoldsTogether(head) /\ HoldsTogether(draft)

(* Every difference between the draft and the head belongs to a unit, so   *)
(* nothing is left behind that cannot be selected.                         *)
EveryDifferenceHasAUnit == Units(Snapshot) = {} <=> ~HasChanges

(* An operation settles the units it applied and no others: what is left   *)
(* of the difference is exactly the remaining units, so a draft can be     *)
(* published or reverted piece by piece.                                   *)
AppliedUnitsAreSettled ==
    [][applied' # {} => Units(Snapshot') = Units(Snapshot) \ applied']_vars

(* An edit made after a preview either changes the fingerprint of the      *)
(* previewed commit, which is refused as stale, or leaves the head that    *)
(* commit publishes as it was, or leaves it nothing it may publish.        *)
FingerprintPinsTheHead ==
    [][UNCHANGED head =>
         \A units \in SUBSET (Units(Snapshot) \cap Units(Snapshot')) :
           LET before == Plan(Snapshot, "commit", units)
               after == Plan(Snapshot', "commit", units)
           IN Fingerprint(before) = Fingerprint(after) =>
                Target(before) = Target(after) \/ Findings(before) # {} \/ Findings(after) # {}]_vars

WithoutDefaults(c) == \A r \in Rows : c.rows[r] # None => c.rows[r].ref # Blank

(* When no reference is a default, the closure always finds a way: every   *)
(* single unit can be committed, and reverted, with what it requires.      *)
EveryUnitCanBeApplied ==
    WithoutDefaults(head) /\ WithoutDefaults(draft) =>
      \A unit \in Units(Snapshot), operation \in Operations :
        ~Close(Snapshot, operation, {unit}).blocked
=============================================================================

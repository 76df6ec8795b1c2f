---------------------------- MODULE SchemaLedger ----------------------------
(***************************************************************************)
(* The ledger of schema migrations beside the content of a branch.         *)
(*                                                                         *)
(* Every native change of a table appends a migration to the draft's       *)
(* ledger; replaying a ledger gives the schemas of its revision, and a     *)
(* replica applies the migrations of a newer head after those it has.      *)
(* A partial commit or revert also divides the ledger: a migration goes    *)
(* with the unit it belongs to, the closure keeps every migration with the *)
(* tables it means, and what stays in the draft after a commit is          *)
(* renumbered to follow the new head.                                      *)
(*                                                                         *)
(* Extends PartialChanges with tables only.  A snapshot s has both ledgers *)
(* besides the content.  The ids of migrations are numbers here: times in  *)
(* the code, each after the greatest id of the ledger.  Migrations that a  *)
(* replica imports, and ledgers that already fail to reproduce their       *)
(* schemas (which the checks then leave out), do not occur: the native     *)
(* operations produce neither, as LedgersReproduceSchemas shows.           *)
(***************************************************************************)
EXTENDS PartialChanges, Sequences
INSTANCE LedgerReplay

CONSTANT InitialLedger  \* the migrations of the initial content

VARIABLES
    headLedger,   \* migrations of the head
    draftLedger   \* migrations of the draft

Migrations ==
    [id : Nat \ {0}, op : {"init", "update", "rename", "remove"},
     table : TableIds, to : TableIds \cup {None}]

IdsOf(ledger) == {m.id : m \in ledger}

(* A ledger is kept in rows, each under the id of its migration.           *)
IsLedger(ledger) ==
    /\ ledger \subseteq Migrations /\ IsFiniteSet(ledger)
    /\ \A m, n \in ledger : m.id = n.id => m = n

ASSUME LedgerAssumption == IsLedger(InitialLedger)

ledgerVars == <<vars, headLedger, draftLedger>>

LedgerSnapshot ==
    [content |-> Snapshot, headLedger |-> headLedger, draftLedger |-> draftLedger]

LastId(ledger) ==
    CHOOSE last \in IdsOf(ledger) \cup {0} : \A id \in IdsOf(ledger) : id <= last

(* The migrations of a ledger are read in the order of their ids.          *)
Rank(ledger, m) == Cardinality({n \in ledger : n.id <= m.id})
InOrder(ledger) ==
    [i \in 1..Cardinality(ledger) |-> CHOOSE m \in ledger : Rank(ledger, m) = i]

(* The part of the draft's ledger that the head does not have.             *)
Pending(s) == s.draftLedger \ s.headLedger

(***************************************************************************)
(* Which unit a pending migration belongs to.                              *)
(***************************************************************************)
StartingSlots(c) ==
    {NewSlot(None, id, id, FALSE) : id \in {c.tables[t].id : t \in TablesOf(c)}}

PendingSlots(s) ==
    {slot \in Trace(StartingSlots(s.content.head), InOrder(Pending(s))) : slot.steps # {}}

(* A table created and removed again inside the draft.                     *)
TransientSlots(s) ==
    {slot \in PendingSlots(s) : ~slot.broken /\ slot.start = None /\ slot.name = None}

(* The table a slot belongs to, in a set; none when the slot is broken,    *)
(* transient, or ends under an id the draft does not have.                 *)
TableOfSlot(s, slot) ==
    IF slot.broken THEN {}
    ELSE IF slot.start # None THEN TableNamed(s.content.head, slot.start)
    ELSE TableNamed(s.content.draft, slot.name)

SlotsOfUnit(s, unit) ==
    {slot \in PendingSlots(s) : TableOfSlot(s, slot) \cap unit.tables # {}}

StructureUnits(s) == {u \in Units(s.content) : u.kind = "structure"}

(* Transient tables that shared an id belong together.                     *)
IsClosedUnderSharing(group, slots) ==
    \A x \in group, y \in slots : x.names \cap y.names # {} => y \in group
GroupOf(slots, x) ==
    {y \in slots : \A group \in SUBSET slots :
       x \in group /\ IsClosedUnderSharing(group, slots) => y \in group}

NamesOf(slots) == UNION {slot.names : slot \in slots}
HeldByTables(s, unit) ==
    UNION {{c.tables[t].id : t \in unit.tables \cap TablesOf(c)} :
             c \in {s.content.head, s.content.draft}}

HeldBy(s, unit) ==
    HeldByTables(s, unit) \cup NamesOf(SlotsOfUnit(s, unit))

AddressById(opening) == opening.id
AddressOf(opening) == opening.table

(* The unit of a transient table: the one of a table that had an id in     *)
(* common, or its own, addressed by the first id of its group.             *)
TransientUnit(s, slot) ==
    LET group == GroupOf(TransientSlots(s), slot)
        joined == {u \in StructureUnits(s) : HeldBy(s, u) \cap NamesOf(group) # {}}
        openings == {m \in s.draftLedger : \E o \in group : o.lineage = m.id}
        first == {m \in openings : \A n \in openings : m.id <= n.id}
    IN IF joined # {} THEN CHOOSE u \in joined : TRUE
       ELSE Unit("transient", {}, {AddressOf(m) : m \in first})

UnitsOfTables(s, slot) ==
    {u \in StructureUnits(s) : TableOfSlot(s, slot) \cap u.tables # {}}

UnitsOfSlot(s, slot) ==
    IF slot \in TransientSlots(s) THEN {TransientUnit(s, slot)}
                                ELSE UnitsOfTables(s, slot)

(* Pairs of a pending migration and the unit it belongs to.                *)
Owners(s) ==
    UNION {(slot.steps \cap IdsOf(Pending(s))) \X UnitsOfSlot(s, slot) :
             slot \in PendingSlots(s)}

UnitsWithLedger(s) ==
    Units(s.content) \cup {TransientUnit(s, slot) : slot \in TransientSlots(s)}

(* A transient unit moves migrations only.                                 *)
OfContent(units) == {unit \in units : unit.kind # "transient"}

(* What every plan on a snapshot reads: the owners of the pending          *)
(* migrations, and which tables the draft's ledger means.                  *)
Source(s) ==
    LET ledger == InOrder(s.draftLedger)
    IN [snapshot |-> s, owners |-> Owners(s), ledger |-> ledger, timeline |-> Timeline(ledger)]

LedgerPlan(source, operation, units) ==
    [source |-> source, applied |-> units,
     content |-> Plan(source.snapshot.content, operation, OfContent(units))]

OwnersOf(p, id) == {pair[2] : pair \in {o \in p.source.owners : o[1] = id}}
Moved(p) == {pair[1] : pair \in {o \in p.source.owners : o[2] \in p.applied}}

(***************************************************************************)
(* The ledgers a plan writes.                                              *)
(***************************************************************************)
SideOfMigration(p, m) ==
    IF m.id \in Moved(p) THEN Opposite(p.content.base) ELSE p.content.base

TargetLedger(p) ==
    {m \in p.source.snapshot.headLedger : SideOfMigration(p, m) = "head"}
      \cup {m \in p.source.snapshot.draftLedger : SideOfMigration(p, m) = "draft"}

(* What stays in the draft after a commit.                                 *)
Remaining(p) == p.source.snapshot.draftLedger \ TargetLedger(p)

UnderTheirIds(ledger, last) == ledger
RenumberedFrom(ledger, last) ==
    {[m EXCEPT !.id = last + Rank(ledger, m) - 1] : m \in ledger}

(* It is renumbered when a migration of it would not follow the target.    *)
Renumbered(ledger, last) ==
    IF \A m \in ledger : m.id > last THEN ledger
    ELSE {[m EXCEPT !.id = last + Rank(ledger, m)] : m \in ledger}

(***************************************************************************)
(* The checks of a plan's ledgers: each against the tables of the revision *)
(* it is for, the remaining draft's under the ids it had.                  *)
(***************************************************************************)
Role(ledger, c) == [ledger |-> ledger, content |-> c]
TargetRole(p) == {Role(InOrder(TargetLedger(p)), Target(p.content))}
ResultingRoles(p) ==
    LET ledger == InOrder(TargetLedger(p))
        target == Role(ledger, Target(p.content))
    IN IF p.content.base = "draft" THEN {target}
       ELSE {target, Role(ledger \o InOrder(Remaining(p)), p.content.snapshot.draft)}

(* A slot that cannot be replayed, or ends as a table its revision does    *)
(* not have, or has with another schema.                                   *)
IsInconsistent(slot, c) ==
    \/ slot.failed
    \/ /\ ~slot.broken /\ slot.name # None
       /\ \A t \in TableNamed(c, slot.name) : c.tables[t].ref # slot.ref

Reproduces(ledger, c) == \A slot \in Replay(ledger) : ~IsInconsistent(slot, c)

(* The table ids through which a migration of a resulting ledger depends   *)
(* on others: it reads another table than in the draft's ledger, or takes  *)
(* an id that was free there and is held here.                             *)
MeantBy(p, m, id) ==
    LineageHolding(p.source.timeline[PositionOf(p.source.ledger, m.id)], id)

ReadIds(p, timeline, i, m) ==
    {id \in ReadBy(timeline[i], m) :
       MeantBy(p, m, id) \notin {None, LineageHolding(timeline[i], id)}}

TakenIds(p, timeline, i, m) ==
    {id \in TakenBy(m) : MeantBy(p, m, id) = None /\ LineageHolding(timeline[i], id) # None}

DependentIds(p, timeline, i, m) ==
    ReadIds(p, timeline, i, m) \cup TakenIds(p, timeline, i, m)

(* A dependent migration requires its own unit, or the unit that last      *)
(* changed, in the draft's ledger, which table held the id.                *)
RequiredBy(p, m, id) ==
    LET ledger == p.source.ledger
        providers == LastChangeBefore(ledger, p.source.timeline, PositionOf(ledger, m.id), id)
        own == OwnersOf(p, m.id)
    IN IF own = {} \/ own \cap p.applied = {} THEN own
       ELSE UNION {OwnersOf(p, provider.id) : provider \in providers}

RoleFindings(p, role) ==
    LET timeline == Timeline(role.ledger)
        slots == timeline[Len(role.ledger) + 1]
        reported == UNION {slot.steps : slot \in {o \in slots : IsInconsistent(o, role.content)}}
    IN UNION {UNION {RequiredBy(p, role.ledger[i], id) :
                       id \in DependentIds(p, timeline, i, role.ledger[i])} :
                i \in {j \in DOMAIN role.ledger : role.ledger[j].id \in reported}}

LedgerFindings(p) ==
    IF Moved(p) = {} THEN {}
    ELSE UNION {RoleFindings(p, role) : role \in ResultingRoles(p)}

(* The closure over schemas and ledgers.                                   *)
AllFindings(p) == Findings(p.content) \cup LedgerFindings(p)
ClosureWithLedger(source, operation, selected) ==
    Closure([units \in SUBSET UnitsWithLedger(source.snapshot) |->
               AllFindings(LedgerPlan(source, operation, units))],
            selected)

(* The validation of its result: each ledger reproduces its revision.      *)
IsConsistent(p) == \A role \in ResultingRoles(p) : Reproduces(role.ledger, role.content)

Validated(p) ==
    [units |-> p.applied,
     blocked |-> AllFindings(p) # {} \/ ~IsConsistent(p),
     target |-> p]

PlanFrom(source, operation, selected) ==
    Validated(LedgerPlan(source, operation, ClosureWithLedger(source, operation, selected)))

CloseWithLedger(s, operation, selected) == PlanFrom(Source(s), operation, selected)

(***************************************************************************)
(* Native changes of tables, each with its migration.  Renaming a table    *)
(* also rewrites the schemas that refer to it, without a migration.        *)
(***************************************************************************)
Record(op, table, to) ==
    /\ draftLedger' = draftLedger \cup {Migration(LastId(draftLedger) + 1, op, table, to)}
    /\ applied' = {}
    /\ UNCHANGED headLedger

InitTable(t, id, ref) == CreateTable(t, id, ref) /\ Record("init", id, ref)
MoveTable(t, id) == RenameTable(t, id) /\ Record("rename", draft.tables[t].id, id)
DropTable(t) == RemoveTable(t) /\ Record("remove", draft.tables[t].id, None)
ChangeTable(t, ref) == UpdateTable(t, ref) /\ Record("update", draft.tables[t].id, ref)

PublishDraft ==
    /\ CreateRevision
    /\ headLedger' = draftLedger
    /\ applied' = {}
    /\ UNCHANGED draftLedger

DiscardDraft ==
    /\ RevertChanges
    /\ draftLedger' = headLedger
    /\ applied' = {}
    /\ UNCHANGED headLedger

WritePlanned(operation, plan, target) ==
    /\ Applicable(plan)
    /\ Write(operation, OfContent(plan.units), target)
    /\ applied' = plan.units

CommitPlanned(plan) ==
    LET published == TargetLedger(plan.target)
    IN /\ WritePlanned("commit", plan, head')
       /\ headLedger' = published
       /\ draftLedger' = published \cup Renumbered(Remaining(plan.target), LastId(published))
       /\ UNCHANGED draft

RevertPlanned(plan) ==
    /\ WritePlanned("revert", plan, draft')
    /\ draftLedger' = TargetLedger(plan.target)
    /\ UNCHANGED <<head, headLedger>>

CommitUnits(selected) == CommitPlanned(CloseWithLedger(LedgerSnapshot, "commit", selected))
RevertUnits(selected) == RevertPlanned(CloseWithLedger(LedgerSnapshot, "revert", selected))

(* The tables a branch starts with were created natively and published.    *)
LedgerInit ==
    /\ Init
    /\ headLedger = InitialLedger
    /\ draftLedger = InitialLedger

LedgerNext ==
    \/ \E t \in Tables, id \in TableIds :
         \/ MoveTable(t, id)
         \/ \E ref \in TableIds \cup {None} : InitTable(t, id, ref)
    \/ \E t \in Tables : DropTable(t)
    \/ \E t \in Tables, ref \in TableIds \cup {None} : ChangeTable(t, ref)
    \/ PublishDraft \/ DiscardDraft
    \/ \E selected \in SUBSET UnitsWithLedger(LedgerSnapshot) :
         CommitUnits(selected) \/ RevertUnits(selected)

LedgerSpec == LedgerInit /\ [][LedgerNext]_ledgerVars

(***************************************************************************)
(* Properties.                                                             *)
(***************************************************************************)
(* An id names one migration of a ledger; the draft keeps every migration  *)
(* of the head, and those it adds come after all of them.                  *)
Continues(longer, ledger) ==
    /\ ledger \subseteq longer
    /\ \A m \in longer \ ledger, n \in ledger : n.id < m.id

LedgerTypeOK ==
    /\ TypeOK
    /\ IsLedger(headLedger) /\ IsLedger(draftLedger)
    /\ Continues(draftLedger, headLedger)

(* Replaying the ledger of a revision from nothing fails at no migration   *)
(* and ends with exactly its tables and their schemas, also when parts of  *)
(* the draft were committed or reverted in between.                        *)
ReplaysExactly(ledger, c) ==
    LET slots == Replay(InOrder(ledger))
    IN /\ \A slot \in slots : ~slot.failed /\ ~slot.broken
       /\ {[id |-> slot.name, ref |-> slot.ref] : slot \in {o \in slots : o.name # None}}
            = {c.tables[t] : t \in TablesOf(c)}

LedgersReproduceSchemas ==
    ReplaysExactly(headLedger, head) /\ ReplaysExactly(draftLedger, draft)

(* A head's ledger is continued and never rewritten: a replica that has    *)
(* applied it can apply what the next head adds.                           *)
HeadLedgerOnlyGrows == [][Continues(headLedger', headLedger)]_ledgerVars

(* Every pending migration belongs to one unit a client can select.        *)
EveryMigrationHasAUnit ==
    LET s == LedgerSnapshot
        owners == Owners(s)
    IN \A id \in IdsOf(Pending(s)) :
         \E unit \in UnitsWithLedger(s) : {o \in owners : o[1] = id} = {<<id, unit>>}

(* Whatever unit is selected, the closure finds what it needs: neither the *)
(* checks nor the validation of the ledgers refuse it.                     *)
EveryUnitCanBeMoved ==
    LET s == LedgerSnapshot
    IN \A unit \in UnitsWithLedger(s), operation \in Operations :
         ~CloseWithLedger(s, operation, {unit}).blocked

(* An operation settles exactly the units it applied, the tables that came *)
(* and went inside the draft included.                                     *)
MovedUnitsAreSettled ==
    [][applied' # {} =>
         UnitsWithLedger(LedgerSnapshot') = UnitsWithLedger(LedgerSnapshot) \ applied']_ledgerVars
=============================================================================

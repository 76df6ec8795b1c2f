------------------------- MODULE SchemaLedgerProofs -------------------------
(***************************************************************************)
(* What a replica relies on: the ledger of a head is continued by the next *)
(* head's, whatever parts of the draft were committed or reverted in       *)
(* between and however the rest was renumbered.  And the ledger takes      *)
(* nothing from what partial operations promise about the content: the     *)
(* module implements ContentSpec of PartialChanges.                        *)
(*                                                                         *)
(* What a ledger replays to is a long recursion, so the unit a migration   *)
(* belongs to, and what the checks of a ledger report, are arbitrary here: *)
(* the proofs need only that an owner is a unit, and that pending          *)
(* migrations are the only ones that have one.                             *)
(***************************************************************************)
EXTENDS SchemaLedger, PartialChangesProofs

-----------------------------------------------------------------------------
(* Ledgers and their ids. *)

\* A finite set of numbers has a greatest one.
LEMMA GreatestNumber ==
  ASSUME NEW S, \A n \in S : n \in Nat, IsFiniteSet(S), S # {}
  PROVE  \E n \in S : \A k \in S : k <= n
<1> DEFINE above == [n \in S |-> {k \in S : k > n}]
           count == [n \in S |-> Cardinality(above[n])]
<1>1. \A n \in S : IsFiniteSet(above[n]) /\ count[n] \in Nat
  <2> TAKE n \in S
  <2>1. above[n] \in SUBSET S
    OBVIOUS
  <2>2. IsFiniteSet(above[n])
    BY <2>1, FS_Subset
  <2> QED
    BY <2>2, FS_CardinalityType
<1>2. \A n, k \in S : n < k => count[k] < count[n]
  <2> SUFFICES ASSUME NEW n \in S, NEW k \in S, n < k
               PROVE  count[k] < count[n]
    OBVIOUS
  <2>0. n < k
    OBVIOUS
  <2>1. above[k] \in SUBSET above[n] /\ k \in above[n] \ above[k]
    <3>1. /\ \A m : m \in above[n] <=> m \in S /\ n < m
          /\ \A m : m \in above[k] <=> m \in S /\ k < m
      OBVIOUS
    <3>2. n \in Nat /\ k \in Nat /\ \A m \in S : m \in Nat
      OBVIOUS
    <3> HIDE DEF above
    <3>3. ASSUME NEW m \in above[k]
          PROVE  m \in above[n]
      <4>1. m \in S /\ k < m
        BY <3>1
      <4>2. n < m
        BY <2>0, <3>2, <4>1
      <4> QED
        BY <3>1, <4>1, <4>2
    <3>4. k \in above[n] /\ k \notin above[k]
      BY <2>0, <3>1, <3>2
    <3> QED
      BY <3>3, <3>4
  <2>2. IsFiniteSet(above[n]) /\ count[n] \in Nat /\ count[k] \in Nat
    BY <1>1
  <2> QED
    BY <2>1, <2>2, FS_Subset
<1> HIDE DEF above, count
<1>3. PICK n \in S : \A k \in S : count[n] <= count[k]
  <2> DEFINE counts == {count[n] : n \in S}
  <2>1. counts \in SUBSET Nat /\ counts # {}
    BY <1>1
  <2>2. PICK least \in counts : \A other \in counts : least <= other
    BY <2>1, LeastNumber
  <2> QED
    BY <2>2
<1>4. \A k \in S : k <= n
  <2> SUFFICES ASSUME NEW k \in S, n < k
               PROVE  FALSE
    OBVIOUS
  <2> QED
    BY <1>1, <1>2, <1>3
<1> QED
  BY <1>4

\* The ids of a ledger are positive numbers, and finitely many.
LEMMA IdsAre ==
  ASSUME NEW ledger, IsLedger(ledger)
  PROVE  /\ \A id \in IdsOf(ledger) : id \in Nat \ {0}
         /\ IsFiniteSet(IdsOf(ledger))
         /\ \A m \in ledger : m \in Migrations /\ m.id \in IdsOf(ledger) /\ m.id \in Nat \ {0}
<1> DEFINE id == [m \in ledger |-> m.id]
           ids == {id[m] : m \in ledger}
<1>1. \A m \in ledger : m \in Migrations /\ m.id \in Nat \ {0}
  BY DEF IsLedger, Migrations
<1>2. IdsOf(ledger) = ids
  BY DEF IdsOf
<1>3. IsFiniteSet(ids)
  <2>1. IsFiniteSet(ledger) /\ id = [m \in ledger |-> id[m]]
    BY DEF IsLedger
  <2> HIDE DEF id
  <2> QED
    BY <2>1, ValuesAreFinite
<1> QED
  BY <1>1, <1>2, <1>3 DEF IdsOf

\* No id of a ledger is greater than its last.
LEMMA LastIdIs ==
  ASSUME NEW ledger, IsLedger(ledger)
  PROVE  LastId(ledger) \in Nat /\ \A m \in ledger : m.id <= LastId(ledger)
<1> DEFINE ids == IdsOf(ledger)
           IsLast(last) == \A id \in ids : id <= last
<1>1. /\ \A id \in ids : id \in Nat \ {0}
      /\ IsFiniteSet(ids) /\ \A m \in ledger : m.id \in ids
  BY IdsAre
<1> HIDE DEF ids
<1>2. \E last \in ids \cup {0} : IsLast(last)
  <2>1. IsFiniteSet(ids \cup {0}) /\ \A id \in ids \cup {0} : id \in Nat
    BY <1>1, FS_AddElement
  <2>2. \E last \in ids \cup {0} : \A id \in ids \cup {0} : id <= last
    BY <2>1, GreatestNumber
  <2> QED
    BY <2>2
<1>3. LastId(ledger) = CHOOSE last \in ids \cup {0} : IsLast(last)
  BY DEF LastId, ids
<1> HIDE DEF IsLast
<1>4. LastId(ledger) \in ids \cup {0} /\ IsLast(LastId(ledger))
  BY <1>2, <1>3
<1>5. LastId(ledger) \in Nat
  BY <1>1, <1>4
<1>6. \A m \in ledger : m.id <= LastId(ledger)
  <2>1. \A id \in ids : id <= LastId(ledger)
    BY <1>4 DEF IsLast
  <2>2. \A m \in ledger : m.id \in ids
    BY <1>1
  <2> QED
    BY <2>1, <2>2
<1> QED
  BY <1>5, <1>6

\* A part of a ledger is a ledger.
LEMMA PartOfLedger ==
  ASSUME NEW ledger, IsLedger(ledger), NEW part \in SUBSET ledger
  PROVE  IsLedger(part)
<1>1. IsFiniteSet(part)
  BY FS_Subset DEF IsLedger
<1> QED
  BY <1>1 DEF IsLedger

\* Two ledgers, one after the other, are a ledger.
LEMMA LedgersJoin ==
  ASSUME NEW first, NEW second, IsLedger(first), IsLedger(second),
         \A m \in first, n \in second : m.id < n.id
  PROVE  IsLedger(first \cup second) /\ Continues(first \cup second, first)
<1>1. IsFiniteSet(first \cup second)
  BY FS_Union DEF IsLedger
<1>2. \A m \in first \cup second : m.id \in Nat
  BY IdsAre
<1>3. \A m, n \in first \cup second : m.id = n.id => m = n
  BY <1>2 DEF IsLedger
<1> QED
  BY <1>1, <1>3 DEF IsLedger, Continues

\* Ranks increase with ids.
LEMMA RanksIncrease ==
  ASSUME NEW ledger, IsLedger(ledger)
  PROVE  /\ \A m \in ledger : Rank(ledger, m) \in Nat \ {0}
         /\ \A m, n \in ledger : m.id < n.id => Rank(ledger, m) < Rank(ledger, n)
<1> DEFINE upTo == [m \in ledger |-> {n \in ledger : n.id <= m.id}]
           rank == [m \in ledger |-> Cardinality(upTo[m])]
<1>1. \A m \in ledger : Rank(ledger, m) = rank[m]
  BY DEF Rank
<1>2. \A m \in ledger : m.id \in Nat
  BY IdsAre
<1>3. \A m \in ledger : /\ upTo[m] \in SUBSET ledger /\ m \in upTo[m]
                        /\ IsFiniteSet(upTo[m]) /\ rank[m] \in Nat \ {0}
  <2> TAKE m \in ledger
  <2>1. upTo[m] \in SUBSET ledger /\ m \in upTo[m]
    BY <1>2
  <2>2. IsFiniteSet(upTo[m])
    BY <2>1, FS_Subset DEF IsLedger
  <2>3. rank[m] \in Nat /\ rank[m] # 0
    BY <2>1, <2>2, FS_CardinalityType, FS_EmptySet
  <2> QED
    BY <2>1, <2>2, <2>3
<1>4. \A m, n \in ledger : m.id < n.id => rank[m] < rank[n]
  <2> SUFFICES ASSUME NEW m \in ledger, NEW n \in ledger, m.id < n.id
               PROVE  rank[m] < rank[n]
    OBVIOUS
  <2>1. upTo[m] \in SUBSET upTo[n] /\ upTo[m] # upTo[n]
    BY <1>2, <1>3
  <2>2. IsFiniteSet(upTo[n]) /\ rank[m] \in Nat /\ rank[n] \in Nat
    BY <1>3
  <2> QED
    BY <2>1, <2>2, FS_Subset
<1> HIDE DEF upTo, rank
<1> QED
  BY <1>1, <1>3, <1>4

\* What is renumbered is a ledger, and all of it follows the id it was given.
LEMMA RenumberedFollows ==
  ASSUME NEW ledger, IsLedger(ledger), NEW last \in Nat
  PROVE  IsLedger(Renumbered(ledger, last)) /\ \A m \in Renumbered(ledger, last) : last < m.id
<1>1. CASE \A m \in ledger : m.id > last
  BY <1>1, IdsAre DEF Renumbered
<1>2. CASE ~\A m \in ledger : m.id > last
  <2> DEFINE rank == [m \in ledger |-> Rank(ledger, m)]
             moved == [m \in ledger |-> [m EXCEPT !.id = last + rank[m]]]
             after == {moved[m] : m \in ledger}
  <2>1. Renumbered(ledger, last) = after
    BY <1>2 DEF Renumbered
  <2>2. /\ \A m \in ledger : rank[m] \in Nat \ {0}
        /\ \A m, n \in ledger : m.id < n.id => rank[m] < rank[n]
    BY RanksIncrease
  <2> HIDE DEF rank
  <2>3. \A m \in ledger : m \in Migrations /\ m.id \in Nat
    BY IdsAre
  <2>4. \A m \in ledger : /\ moved[m] \in Migrations
                          /\ moved[m].id = last + rank[m] /\ last < moved[m].id
    BY <2>2, <2>3 DEF Migrations
  <2>5. \A m, n \in ledger : moved[m].id = moved[n].id => m = n
    <3> SUFFICES ASSUME NEW m \in ledger, NEW n \in ledger, moved[m].id = moved[n].id
                 PROVE  m = n
      OBVIOUS
    <3>1. rank[m] = rank[n]
      BY <2>2, <2>4
    <3>2. ~(m.id < n.id) /\ ~(n.id < m.id)
      BY <2>2, <3>1
    <3>3. m.id = n.id
      BY <2>3, <3>2
    <3> QED
      BY <3>3 DEF IsLedger
  <2>6. IsFiniteSet(after)
    <3>1. IsFiniteSet(ledger) /\ moved = [m \in ledger |-> moved[m]]
      BY DEF IsLedger
    <3> HIDE DEF moved
    <3> QED
      BY <3>1, ValuesAreFinite
  <2> HIDE DEF moved
  <2>7. IsLedger(after) /\ \A m \in after : last < m.id
    BY <2>4, <2>5, <2>6 DEF IsLedger
  <2> QED
    BY <2>1, <2>7
<1> QED
  BY <1>1, <1>2

-----------------------------------------------------------------------------
(* The plans of a snapshot. *)

\* Only a pending migration has an owner, and an owner is a unit.
LEMMA OwnersAre ==
  ASSUME NEW s, NEW owner \in Owners(s)
  PROVE  /\ owner[1] \in IdsOf(Pending(s))
         /\ owner[2] \in UnitsWithLedger(s)
<1>1. PICK slot \in PendingSlots(s) :
        owner \in (slot.steps \cap IdsOf(Pending(s))) \X UnitsOfSlot(s, slot)
  BY DEF Owners
<1>2. owner[1] \in IdsOf(Pending(s)) /\ owner[2] \in UnitsOfSlot(s, slot)
  BY <1>1
<1>3. CASE slot \in TransientSlots(s)
  BY <1>2, <1>3 DEF UnitsOfSlot, UnitsWithLedger
<1>4. CASE slot \notin TransientSlots(s)
  BY <1>2, <1>4 DEF UnitsOfSlot, UnitsOfTables, StructureUnits, UnitsWithLedger
<1> QED
  BY <1>2, <1>3, <1>4

\* What a plan is made of.
LEMMA LedgerPlanIs ==
  ASSUME NEW s, NEW operation, NEW units
  PROVE  LET p == LedgerPlan(Source(s), operation, units)
         IN  /\ p.source.snapshot = s /\ p.source.owners = Owners(s) /\ p.applied = units
             /\ p.content = Plan(s.content, operation, OfContent(units))
             /\ p.content.snapshot = s.content /\ p.content.base = BaseSide(operation)
             /\ p.content.base \in Sides
BY DEF LedgerPlan, Source, Plan, BaseSide, Sides

\* Every finding is a unit, or a blocker.
LEMMA AllFindingsAreUnits ==
  ASSUME NEW s, s.content \in GoodSnapshots, NEW operation, NEW units
  PROVE  AllFindings(LedgerPlan(Source(s), operation, units)) \subseteq UnitsWithLedger(s) \cup {None}
<1> DEFINE p == LedgerPlan(Source(s), operation, units)
           U == UnitsWithLedger(s)
<1>1. /\ p.source.owners = Owners(s) /\ p.content.snapshot = s.content
      /\ p.content.base \in Sides
  BY LedgerPlanIs
<1> HIDE DEF p, U
<1>2. Findings(p.content) \subseteq U \cup {None}
  <2>1. IsPlan(p.content)
    BY <1>1 DEF IsPlan
  <2>2. Findings(p.content) \subseteq Units(s.content) \cup {None}
    BY <1>1, <2>1, FindingsAreUnits
  <2> QED
    BY <2>2 DEF U, UnitsWithLedger
<1>3. \A id : OwnersOf(p, id) \subseteq U
  BY <1>1, OwnersAre DEF OwnersOf, U
<1>4. \A m, id : RequiredBy(p, m, id) \subseteq U
  <2> TAKE m, id
  <2> DEFINE ledger == p.source.ledger
             providers == LastChangeBefore(ledger, p.source.timeline, PositionOf(ledger, m.id), id)
             own == OwnersOf(p, m.id)
  <2>1. RequiredBy(p, m, id) = IF own = {} \/ own \cap p.applied = {} THEN own
                               ELSE UNION {OwnersOf(p, provider.id) : provider \in providers}
    BY DEF RequiredBy
  <2> HIDE DEF providers
  <2>2. UNION {OwnersOf(p, provider.id) : provider \in providers} \subseteq U
    BY <1>3
  <2> QED
    BY <1>3, <2>1, <2>2
<1>5. \A role : RoleFindings(p, role) \subseteq U
  <2> TAKE role
  <2> SUFFICES ASSUME NEW unit \in RoleFindings(p, role)
               PROVE  unit \in U
    OBVIOUS
  <2>1. PICK i : unit \in UNION {RequiredBy(p, role.ledger[i], id) :
                                   id \in DependentIds(p, Timeline(role.ledger), i, role.ledger[i])}
    BY Zenon DEF RoleFindings
  <2> QED
    BY <1>4, <2>1
<1>6. LedgerFindings(p) \subseteq U
  BY <1>5 DEF LedgerFindings
<1> QED
  BY <1>2, <1>6 DEF AllFindings, p, U

\* There are finitely many units, transient ones included.
LEMMA UnitsWithLedgerAreFinite ==
  ASSUME NEW s, s.content \in GoodSnapshots, IsFiniteSet(s.draftLedger)
  PROVE  IsFiniteSet(UnitsWithLedger(s))
<1> DEFINE addresses == [m \in s.draftLedger |-> AddressOf(m)]
           A == {addresses[m] : m \in s.draftLedger}
           D == SUBSET A
           unit == [ids \in D |-> Unit("transient", {}, ids)]
           T == {unit[ids] : ids \in D}
<1>1. IsFiniteSet(A)
  <2>1. addresses = [m \in s.draftLedger |-> addresses[m]]
    OBVIOUS
  <2> HIDE DEF addresses
  <2> QED
    BY <2>1, ValuesAreFinite
<1>2. IsFiniteSet(D)
  BY <1>1, FS_SUBSET
<1>3. \A openings \in SUBSET s.draftLedger : {AddressOf(m) : m \in openings} \in D
  OBVIOUS
<1>4. \A ids \in D : Unit("transient", {}, ids) \in T
  OBVIOUS
<1>5. unit = [ids \in D |-> unit[ids]]
  OBVIOUS
<1> HIDE DEF addresses, A, D, unit
<1>6. IsFiniteSet(T)
  BY <1>2, <1>5, ValuesAreFinite
<1> HIDE DEF T
<1>7. UnitsWithLedger(s) \subseteq Units(s.content) \cup T
  <2> SUFFICES ASSUME NEW slot \in TransientSlots(s)
               PROVE  TransientUnit(s, slot) \in Units(s.content) \cup T
    BY DEF UnitsWithLedger
  <2> DEFINE group == GroupOf(TransientSlots(s), slot)
             joined == {u \in StructureUnits(s) : HeldBy(s, u) \cap NamesOf(group) # {}}
             openings == {m \in s.draftLedger : \E o \in group : o.lineage = m.id}
             first == {m \in openings : \A n \in openings : m.id <= n.id}
  <2>1. TransientUnit(s, slot) =
          IF joined # {} THEN CHOOSE u \in joined : TRUE
          ELSE Unit("transient", {}, {AddressOf(m) : m \in first})
    BY DEF TransientUnit
  <2>2. joined \subseteq Units(s.content)
    BY DEF StructureUnits
  <2>3. first \in SUBSET s.draftLedger
    OBVIOUS
  <2> HIDE DEF joined, first
  <2>4. Unit("transient", {}, {AddressOf(m) : m \in first}) \in T
    BY <1>3, <1>4, <2>3
  <2> QED
    BY <2>1, <2>2, <2>4
<1>8. IsFiniteSet(Units(s.content))
  BY UnitsAreFinite
<1>9. IsFiniteSet(Units(s.content) \cup T)
  BY <1>6, <1>8, FS_Union
<1> QED
  BY <1>7, <1>9, FS_Subset

\* So the closure of a selection is made of units.
LEMMA ClosureWithLedgerIs ==
  ASSUME NEW s, s.content \in GoodSnapshots, IsFiniteSet(s.draftLedger),
         NEW operation, NEW selected \in SUBSET UnitsWithLedger(s)
  PROVE  ClosureWithLedger(Source(s), operation, selected) \in SUBSET UnitsWithLedger(s)
<1> DEFINE U == UnitsWithLedger(s)
           f == [units \in SUBSET U |-> AllFindings(LedgerPlan(Source(s), operation, units))]
<1>1. ClosureWithLedger(Source(s), operation, selected) = Closure(f, selected)
  BY DEF ClosureWithLedger, Source
<1>2. \A units : AllFindings(LedgerPlan(Source(s), operation, units)) \subseteq U \cup {None}
  BY AllFindingsAreUnits
<1>3. IsFiniteSet(U)
  BY UnitsWithLedgerAreFinite
<1>4. selected \in SUBSET U
  OBVIOUS
<1> HIDE DEF U
<1>5. f \in [SUBSET U -> SUBSET (U \cup {None})]
  BY <1>2
<1> HIDE DEF f
<1>6. Closure(f, selected) \in SUBSET U
  BY <1>3, <1>4, <1>5, ClosureEnds
<1> QED
  BY <1>1, <1>6 DEF U

\* What remains of units that are not transient changes the content.
LEMMA OfContentAreUnits ==
  ASSUME NEW s, NEW units \in SUBSET UnitsWithLedger(s)
  PROVE  OfContent(units) \in SUBSET Units(s.content)
<1> SUFFICES ASSUME NEW u \in units, u.kind # "transient", u \notin Units(s.content)
             PROVE  FALSE
  BY DEF OfContent
<1>1. PICK slot \in TransientSlots(s) : u = TransientUnit(s, slot)
  BY DEF UnitsWithLedger
<1> DEFINE group == GroupOf(TransientSlots(s), slot)
           joined == {v \in StructureUnits(s) : HeldBy(s, v) \cap NamesOf(group) # {}}
           openings == {m \in s.draftLedger : \E o \in group : o.lineage = m.id}
           first == {m \in openings : \A n \in openings : m.id <= n.id}
<1>2. u = IF joined # {} THEN CHOOSE v \in joined : TRUE
          ELSE Unit("transient", {}, {AddressOf(m) : m \in first})
  BY <1>1 DEF TransientUnit
<1>3. joined \subseteq Units(s.content)
  BY DEF StructureUnits
<1> HIDE DEF joined, first
<1>4. u = Unit("transient", {}, {AddressOf(m) : m \in first})
  BY <1>2, <1>3
<1> QED
  BY <1>4 DEF Unit

-----------------------------------------------------------------------------
(* The ledgers an operation writes. *)

\* The target of a plan keeps the published migrations and takes no other than the
\* draft's.
LEMMA TargetLedgerIs ==
  ASSUME NEW s, IsLedger(s.draftLedger), s.headLedger \subseteq s.draftLedger,
         NEW operation, NEW units
  PROVE  LET target == TargetLedger(LedgerPlan(Source(s), operation, units))
         IN  s.headLedger \subseteq target /\ target \subseteq s.draftLedger
<1> DEFINE p == LedgerPlan(Source(s), operation, units)
<1>1. /\ p.source.snapshot = s /\ p.source.owners = Owners(s) /\ p.content.base \in Sides
  BY LedgerPlanIs
<1> HIDE DEF p
<1>2. \A m \in s.headLedger : m.id \notin Moved(p)
  <2> SUFFICES ASSUME NEW m \in s.headLedger, m.id \in Moved(p)
               PROVE  FALSE
    OBVIOUS
  <2>1. PICK owner \in Owners(s) : m.id = owner[1]
    BY <1>1 DEF Moved
  <2>2. m.id \in IdsOf(Pending(s))
    BY <2>1, OwnersAre
  <2>3. PICK n \in s.draftLedger : n \notin s.headLedger /\ n.id = m.id
    BY <2>2 DEF IdsOf, Pending
  <2> QED
    BY <2>3 DEF IsLedger
<1>3. \A m \in s.headLedger : SideOfMigration(p, m) = p.content.base
  BY <1>2 DEF SideOfMigration
<1>4. TargetLedger(p) = {m \in s.headLedger : SideOfMigration(p, m) = "head"}
                          \cup {m \in s.draftLedger : SideOfMigration(p, m) = "draft"}
  BY <1>1 DEF TargetLedger
<1> QED
  BY <1>1, <1>3, <1>4 DEF Sides, p

\* What a commit publishes continues the head, and what it leaves continues that.
LEMMA CommittedLedgers ==
  ASSUME NEW ledger, IsLedger(ledger), NEW published, Continues(ledger, published),
         NEW target, published \subseteq target, target \subseteq ledger
  PROVE  LET left == target \cup Renumbered(ledger \ target, LastId(target))
         IN  /\ IsLedger(target) /\ Continues(target, published)
             /\ IsLedger(left) /\ Continues(left, target)
<1> DEFINE last == LastId(target)
           rest == Renumbered(ledger \ target, last)
<1>1. IsLedger(target) /\ IsLedger(ledger \ target)
  BY PartOfLedger
<1>2. Continues(target, published)
  BY DEF Continues
<1>3. last \in Nat /\ \A m \in target : m.id <= last
  BY <1>1, LastIdIs
<1> HIDE DEF last
<1>4. IsLedger(rest) /\ \A m \in rest : last < m.id
  BY <1>1, <1>3, RenumberedFollows
<1> HIDE DEF rest
<1>5. \A m \in target, n \in rest : m.id < n.id
  <2> TAKE m \in target, n \in rest
  <2>1. m.id \in Nat /\ n.id \in Nat
    BY <1>1, <1>4, IdsAre
  <2> QED
    BY <1>3, <1>4, <2>1
<1>6. IsLedger(target \cup rest) /\ Continues(target \cup rest, target)
  BY <1>1, <1>4, <1>5, LedgersJoin
<1> QED
  BY <1>1, <1>2, <1>6 DEF last, rest

\* A native change adds a migration that follows all there are.
LEMMA RecordedLedger ==
  ASSUME NEW ledger, IsLedger(ledger), NEW published, Continues(ledger, published),
         NEW op \in {"init", "update", "rename", "remove"},
         NEW named \in TableIds, NEW to \in TableIds \cup {None}
  PROVE  LET after == ledger \cup {Migration(LastId(ledger) + 1, op, named, to)}
         IN  IsLedger(after) /\ Continues(after, published)
<1> DEFINE last == LastId(ledger)
           m == Migration(last + 1, op, named, to)
<1>1. last \in Nat /\ \A n \in ledger : n.id <= last
  BY LastIdIs
<1> HIDE DEF last
<1>2. m \in Migrations /\ m.id = last + 1
  BY <1>1 DEF Migration, Migrations
<1> HIDE DEF m
<1>3. \A n \in ledger : n.id \in Nat /\ n.id < m.id
  <2> TAKE n \in ledger
  <2>1. n.id \in Nat
    BY IdsAre
  <2> QED
    BY <1>1, <1>2, <2>1
<1>4. IsLedger({m})
  <2>1. IsFiniteSet({m})
    BY FS_Singleton
  <2> QED
    BY <1>2, <2>1 DEF IsLedger
<1>5. IsLedger(ledger \cup {m})
  BY <1>3, <1>4, LedgersJoin
<1>6. Continues(ledger \cup {m}, published)
  BY <1>3 DEF Continues
<1> QED
  BY <1>5, <1>6 DEF last, m

-----------------------------------------------------------------------------
(* The steps. *)

\* The inductive invariant.
LedgerInv ==
  /\ IInv
  /\ IsLedger(headLedger) /\ IsLedger(draftLedger)
  /\ Continues(draftLedger, headLedger)

\* What a step promises: the invariant again, a step of the content, a head ledger that
\* is only continued, and units that are settled.
StepIsSound ==
  /\ LedgerInv'
  /\ ContentNext \/ UNCHANGED contentVars
  /\ Continues(headLedger', headLedger)
  /\ applied' # {} => Units(Snapshot') = Units(Snapshot) \ applied'

\* A ledger continues itself.
LEMMA ContinuesItself ==
  ASSUME NEW ledger
  PROVE  Continues(ledger, ledger)
BY DEF Continues

\* A native change of a table.
LEMMA RecordIsSound ==
  ASSUME LedgerInv, EditDraft,
         NEW op \in {"init", "update", "rename", "remove"},
         NEW named \in TableIds, NEW to \in TableIds \cup {None}, Record(op, named, to)
  PROVE  StepIsSound
<1>1. headLedger' = headLedger /\ applied' = {}
      /\ draftLedger' = draftLedger \cup {Migration(LastId(draftLedger) + 1, op, named, to)}
  BY DEF Record
<1>2. IsLedger(draftLedger') /\ Continues(draftLedger', headLedger)
  BY <1>1, RecordedLedger DEF LedgerInv
<1>3. IInv'
  BY EditDraftKeeps DEF LedgerInv
<1> QED
  BY <1>1, <1>2, <1>3, ContinuesItself DEF LedgerInv, StepIsSound, ContentNext

LEMMA NativeChangesAreSound ==
  ASSUME LedgerInv, NEW t \in Tables, NEW id \in TableIds, NEW ref \in TableIds \cup {None},
         InitTable(t, id, ref) \/ MoveTable(t, id) \/ DropTable(t) \/ ChangeTable(t, ref)
  PROVE  StepIsSound
<1>1. t \in TablesOf(draft) => draft.tables[t].id \in TableIds
  BY IInvIs, ContentIs DEF LedgerInv
<1>2. CASE InitTable(t, id, ref)
  <2>1. EditDraft /\ Record("init", id, ref)
    BY <1>2 DEF InitTable, EditDraft
  <2> QED
    BY <2>1, RecordIsSound
<1>3. CASE MoveTable(t, id)
  <2>1. EditDraft /\ Record("rename", draft.tables[t].id, id) /\ t \in TablesOf(draft)
    BY <1>3 DEF MoveTable, EditDraft, RenameTable
  <2> QED
    BY <1>1, <2>1, RecordIsSound
<1>4. CASE DropTable(t)
  <2>1. EditDraft /\ Record("remove", draft.tables[t].id, None) /\ t \in TablesOf(draft)
    BY <1>4 DEF DropTable, EditDraft, RemoveTable
  <2> QED
    BY <1>1, <2>1, RecordIsSound
<1>5. CASE ChangeTable(t, ref)
  <2>1. EditDraft /\ Record("update", draft.tables[t].id, ref) /\ t \in TablesOf(draft)
    BY <1>5 DEF ChangeTable, EditDraft, UpdateTable
  <2> QED
    BY <1>1, <2>1, RecordIsSound
<1> QED
  BY <1>2, <1>3, <1>4, <1>5

\* A commit and a revert of everything.
LEMMA WholesaleIsSound ==
  ASSUME LedgerInv, PublishDraft \/ DiscardDraft
  PROVE  StepIsSound
<1>1. CASE PublishDraft
  <2>1. CreateRevision /\ headLedger' = draftLedger /\ draftLedger' = draftLedger /\ applied' = {}
    BY <1>1 DEF PublishDraft
  <2>2. IInv'
    BY <2>1, CreateRevisionKeeps DEF LedgerInv
  <2> QED
    BY <2>1, <2>2, ContinuesItself DEF LedgerInv, StepIsSound, ContentNext
<1>2. CASE DiscardDraft
  <2>1. RevertChanges /\ headLedger' = headLedger /\ draftLedger' = headLedger /\ applied' = {}
    BY <1>2 DEF DiscardDraft
  <2>2. IInv'
    BY <2>1, RevertChangesKeeps DEF LedgerInv
  <2> QED
    BY <2>1, <2>2, ContinuesItself DEF LedgerInv, StepIsSound, ContentNext
<1> QED
  BY <1>1, <1>2

\* What a planned operation applies are units; their target has no findings, and it is
\* what is written.
LEMMA PlannedUnits ==
  ASSUME LedgerInv, NEW operation \in Operations,
         NEW selected \in SUBSET UnitsWithLedger(LedgerSnapshot),
         NEW plan, plan = CloseWithLedger(LedgerSnapshot, operation, selected), ~plan.blocked
  PROVE  LET units == OfContent(plan.units)
         IN  /\ plan.target = LedgerPlan(Source(LedgerSnapshot), operation, plan.units)
             /\ Findings(Plan(Snapshot, operation, units)) = {}
             /\ units \in SUBSET Units(Snapshot)
             /\ Units(Snapshot) \ plan.units = Units(Snapshot) \ units
<1> DEFINE s == LedgerSnapshot
           closure == ClosureWithLedger(Source(s), operation, selected)
           p == LedgerPlan(Source(s), operation, closure)
<1>1. /\ s.content = Snapshot /\ s.content \in GoodSnapshots
      /\ s.draftLedger = draftLedger /\ IsFiniteSet(s.draftLedger)
  BY DEF LedgerInv, IInv, IsLedger, LedgerSnapshot
<1>2. closure \in SUBSET UnitsWithLedger(s)
  BY <1>1, ClosureWithLedgerIs
<1>3. plan = Validated(p)
  BY DEF CloseWithLedger, PlanFrom
<1> HIDE DEF closure
<1>4. p.applied = closure /\ p.content = Plan(s.content, operation, OfContent(closure))
  BY LedgerPlanIs
<1> HIDE DEF p
<1>5. /\ plan.units = p.applied /\ plan.target = p
      /\ plan.blocked = (AllFindings(p) # {} \/ ~IsConsistent(p))
  BY <1>3 DEF Validated
<1>6. Findings(p.content) = {}
  BY <1>5 DEF AllFindings
<1> HIDE DEF s
<1>7. OfContent(closure) \in SUBSET Units(Snapshot)
  BY <1>1, <1>2, OfContentAreUnits
<1>8. \A u \in Units(Snapshot) : u.kind # "transient"
  <2> TAKE u \in Units(Snapshot)
  <2>1. u \in UnitRecord
    BY <1>1, UnitsAreTyped
  <2> QED
    BY <2>1 DEF UnitRecord, UnitKinds
<1>9. Units(Snapshot) \ closure = Units(Snapshot) \ OfContent(closure)
  BY <1>8 DEF OfContent
<1> QED
  BY <1>1, <1>4, <1>5, <1>6, <1>7, <1>9 DEF p, s

\* A partial commit or revert.
LEMMA PlannedIsSound ==
  ASSUME LedgerInv, NEW selected \in SUBSET UnitsWithLedger(LedgerSnapshot),
         CommitUnits(selected) \/ RevertUnits(selected)
  PROVE  StepIsSound
<1>1. ASSUME NEW operation \in Operations, NEW units \in SUBSET Units(Snapshot),
             MoveUnits(operation, units), applied' # {} =>
               Units(Snapshot) \ applied' = Units(Snapshot) \ units
      PROVE  /\ IInv' /\ ContentNext
             /\ applied' # {} => Units(Snapshot') = Units(Snapshot) \ applied'
  <2>1. IInv' /\ ContentNext
    BY <1>1, StepKeeps DEF LedgerInv, ContentNext
  <2>2. LET p == Plan(Snapshot, operation, units)
        IN  IsClear(p) /\ Snapshot' = After(p)
    BY <1>1, MoveIs DEF LedgerInv
  <2>3. Units(Snapshot') = Units(Snapshot) \ units
    BY <2>2, UnitsAfter DEF Plan
  <2> QED
    BY <1>1, <2>1, <2>3
<1>2. /\ IsLedger(headLedger) /\ IsLedger(draftLedger) /\ Continues(draftLedger, headLedger)
      /\ LedgerSnapshot.headLedger = headLedger /\ LedgerSnapshot.draftLedger = draftLedger
      /\ headLedger \subseteq draftLedger
  BY DEF LedgerInv, LedgerSnapshot, Continues
<1>3. ASSUME CommitUnits(selected)
      PROVE  StepIsSound
  <2> DEFINE plan == CloseWithLedger(LedgerSnapshot, "commit", selected)
             units == OfContent(plan.units)
             published == TargetLedger(plan.target)
  <2>1. /\ CommitPlanned(plan) /\ "commit" \in Operations
        /\ plan = CloseWithLedger(LedgerSnapshot, "commit", selected)
    BY <1>3 DEF CommitUnits, Operations
  <2> HIDE DEF plan
  <2>2. /\ ~plan.blocked /\ Write("commit", units, head') /\ applied' = plan.units
        /\ headLedger' = published /\ draft' = draft
        /\ draftLedger' = published \cup Renumbered(draftLedger \ published, LastId(published))
             \/ plan.target # LedgerPlan(Source(LedgerSnapshot), "commit", plan.units)
    <3>1. /\ WritePlanned("commit", plan, head') /\ headLedger' = published /\ draft' = draft
          /\ draftLedger' = published \cup Renumbered(Remaining(plan.target), LastId(published))
      BY <2>1 DEF CommitPlanned
    <3>2. plan.target = LedgerPlan(Source(LedgerSnapshot), "commit", plan.units)
            => Remaining(plan.target) = draftLedger \ published
      BY <1>2, LedgerPlanIs DEF Remaining
    <3> HIDE DEF published
    <3> QED
      BY <3>1, <3>2 DEF WritePlanned, Applicable
  <2>3. /\ plan.target = LedgerPlan(Source(LedgerSnapshot), "commit", plan.units)
        /\ Findings(Plan(Snapshot, "commit", units)) = {} /\ units \in SUBSET Units(Snapshot)
        /\ Units(Snapshot) \ plan.units = Units(Snapshot) \ units
    BY <2>1, <2>2, PlannedUnits
  <2>4. headLedger \subseteq published /\ published \subseteq draftLedger
    BY <1>2, <2>3, TargetLedgerIs
  <2> HIDE DEF units, published
  <2>5. MoveUnits("commit", units)
    BY <2>2, <2>3 DEF MoveUnits
  <2>6. /\ IInv' /\ ContentNext
        /\ applied' # {} => Units(Snapshot') = Units(Snapshot) \ applied'
    BY <1>1, <2>1, <2>2, <2>3, <2>5
  <2>7. /\ IsLedger(headLedger') /\ Continues(headLedger', headLedger)
        /\ IsLedger(draftLedger') /\ Continues(draftLedger', headLedger')
    BY <1>2, <2>2, <2>3, <2>4, CommittedLedgers
  <2> QED
    BY <2>6, <2>7 DEF StepIsSound, LedgerInv
<1>4. ASSUME RevertUnits(selected)
      PROVE  StepIsSound
  <2> DEFINE plan == CloseWithLedger(LedgerSnapshot, "revert", selected)
             units == OfContent(plan.units)
             kept == TargetLedger(plan.target)
  <2>1. /\ RevertPlanned(plan) /\ "revert" \in Operations
        /\ plan = CloseWithLedger(LedgerSnapshot, "revert", selected)
    BY <1>4 DEF RevertUnits, Operations
  <2> HIDE DEF plan
  <2>2. /\ ~plan.blocked /\ Write("revert", units, draft') /\ applied' = plan.units
        /\ headLedger' = headLedger /\ draftLedger' = kept /\ head' = head
    BY <2>1 DEF RevertPlanned, WritePlanned, Applicable
  <2>3. /\ plan.target = LedgerPlan(Source(LedgerSnapshot), "revert", plan.units)
        /\ Findings(Plan(Snapshot, "revert", units)) = {} /\ units \in SUBSET Units(Snapshot)
        /\ Units(Snapshot) \ plan.units = Units(Snapshot) \ units
    BY <2>1, <2>2, PlannedUnits
  <2>4. headLedger \subseteq kept /\ kept \in SUBSET draftLedger
    BY <1>2, <2>3, TargetLedgerIs
  <2> HIDE DEF units, kept
  <2>5. MoveUnits("revert", units)
    BY <2>2, <2>3 DEF MoveUnits
  <2>6. /\ IInv' /\ ContentNext
        /\ applied' # {} => Units(Snapshot') = Units(Snapshot) \ applied'
    BY <1>1, <2>1, <2>2, <2>3, <2>5
  <2>7. IsLedger(kept) /\ Continues(kept, headLedger)
    BY <1>2, <2>4, PartOfLedger DEF Continues
  <2> QED
    BY <1>2, <2>2, <2>6, <2>7, ContinuesItself DEF StepIsSound, LedgerInv
<1> QED
  BY <1>3, <1>4

\* Every step is sound.
LEMMA LedgerStep ==
  ASSUME LedgerInv, [LedgerNext]_ledgerVars
  PROVE  /\ LedgerInv' /\ [ContentNext]_contentVars
         /\ StepIsSound \/ UNCHANGED ledgerVars
<1>1. CASE LedgerNext
  <2>1. ASSUME PublishDraft \/ DiscardDraft
        PROVE  StepIsSound
    BY <2>1, WholesaleIsSound
  <2>2. ASSUME NEW selected \in SUBSET UnitsWithLedger(LedgerSnapshot),
               CommitUnits(selected) \/ RevertUnits(selected)
        PROVE  StepIsSound
    BY <2>2, PlannedIsSound
  <2>3. ASSUME NEW t \in Tables, NEW id \in TableIds, NEW ref \in TableIds \cup {None},
               InitTable(t, id, ref) \/ MoveTable(t, id) \/ DropTable(t) \/ ChangeTable(t, ref)
        PROVE  StepIsSound
    BY <2>3, NativeChangesAreSound
  <2>4. ASSUME NEW t \in Tables, NEW id \in TableIds, MoveTable(t, id)
        PROVE  StepIsSound
    BY <2>3, <2>4
  <2>5. ASSUME NEW t \in Tables, DropTable(t)
        PROVE  StepIsSound
    <3>1. draft.tables[t].id \in TableIds
      BY <2>5, IInvIs, ContentIs DEF LedgerInv, DropTable, RemoveTable
    <3> QED
      BY <2>3, <2>5, <3>1
  <2>6. ASSUME NEW t \in Tables, NEW ref \in TableIds \cup {None}, ChangeTable(t, ref)
        PROVE  StepIsSound
    <3>1. draft.tables[t].id \in TableIds
      BY <2>6, IInvIs, ContentIs DEF LedgerInv, ChangeTable, UpdateTable
    <3> QED
      BY <2>3, <2>6, <3>1
  <2>7. StepIsSound
    BY <1>1, <2>1, <2>2, <2>3, <2>4, <2>5, <2>6 DEF LedgerNext
  <2> QED
    BY <2>7 DEF StepIsSound
<1>2. CASE UNCHANGED ledgerVars
  <2>1. /\ UNCHANGED contentVars /\ headLedger' = headLedger /\ draftLedger' = draftLedger
    BY <1>2 DEF ledgerVars, vars
  <2>2. IInv'
    BY <2>1, StepKeeps DEF LedgerInv
  <2> QED
    BY <1>2, <2>1, <2>2 DEF LedgerInv
<1> QED
  BY <1>1, <1>2

-----------------------------------------------------------------------------
(* The theorems. *)

\* The invariant is inductive.
THEOREM LedgerInductive ==
  LedgerSpec => []LedgerInv
<1>1. LedgerInit => LedgerInv
  BY LedgerAssumption, InitIsGood, ContinuesItself DEF LedgerInit, Init, LedgerInv
<1> QED
  BY <1>1, LedgerStep, PTL DEF LedgerSpec

\* A migration has an id of its own in the ledger of each side; the draft keeps every
\* migration of the head, and those it adds come after all of them: also when a partial
\* commit took some of them over and the rest was renumbered.
THEOREM LedgersAreTyped ==
  LedgerSpec => []LedgerTypeOK
<1>1. LedgerInv => LedgerTypeOK
  BY IInvIs DEF LedgerInv, LedgerTypeOK, TypeOK
<1> QED
  BY <1>1, LedgerInductive, PTL

\* The ledger of a head is continued by the next head's and never rewritten: a replica
\* that has applied it can apply what the next head adds.
THEOREM HeadLedgersContinue ==
  LedgerSpec => HeadLedgerOnlyGrows
<1>1. LedgerInv /\ [LedgerNext]_ledgerVars => [Continues(headLedger', headLedger)]_ledgerVars
  BY LedgerStep DEF StepIsSound
<1> QED
  BY <1>1, LedgerInductive, PTL DEF LedgerSpec, HeadLedgerOnlyGrows

\* Whatever unit each migration is given to, and whatever the checks of the ledgers add
\* or refuse, partial operations keep their promises about the content.
THEOREM LedgerImplementsContent ==
  LedgerSpec => ContentSpec
<1>1. LedgerInit => ContentInit
  BY DEF LedgerInit, Init
<1>2. LedgerInv /\ [LedgerNext]_ledgerVars => [ContentNext]_contentVars
  BY LedgerStep
<1> QED
  BY <1>1, <1>2, LedgerInductive, PTL DEF LedgerSpec, ContentSpec

\* So, beside a ledger too: ids stay unique, no schema is without its table and no
\* reference without its row, and every difference belongs to a unit.
THEOREM LedgerHoldsTogether ==
  LedgerSpec => [](RevisionsHoldTogether /\ EveryDifferenceHasAUnit)
BY LedgerImplementsContent, ContentHoldsTogether, PTL

\* And an operation settles exactly those units of the content it applied, however many
\* the checks of the ledgers added.
THEOREM LedgerSettlesUnits ==
  LedgerSpec => AppliedUnitsAreSettled
<1>1. LedgerInv /\ [LedgerNext]_ledgerVars
        => [applied' # {} => Units(Snapshot') = Units(Snapshot) \ applied']_vars
  BY LedgerStep DEF StepIsSound, ledgerVars
<1> QED
  BY <1>1, LedgerInductive, PTL DEF LedgerSpec, AppliedUnitsAreSettled
=============================================================================

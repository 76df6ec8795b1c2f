------------------------ MODULE PartialChangesProofs ------------------------
(***************************************************************************)
(* Whatever part of a draft is committed or reverted, the head and the     *)
(* draft hold together; the operation settles the units it applied and no  *)
(* others; and a commit publishes the head its fingerprint was taken of.   *)
(* These proofs are about any set of units whose target has no findings:   *)
(* the closure applies no other, whatever it adds to a selection.          *)
(*                                                                         *)
(* The last part is about the closure itself: it ends, and, where no       *)
(* reference is a default, in such a set.                                  *)
(***************************************************************************)
EXTENDS PartialChanges, FiniteSetTheorems, TLAPS

Sides == {"head", "draft"}
Snapshots == [head : Content, draft : Content, recorded : [Tables -> SUBSET Recording]]

Exists(s, r) == s.head.rows[r] # None \/ s.draft.rows[r] # None

\* A row stays in its table.
RowsStay(s) ==
  \A r \in Rows : s.head.rows[r] # None /\ s.draft.rows[r] # None =>
                    s.head.rows[r].table = s.draft.rows[r].table

\* Only the schema of a table that both sides have has a history to record.
OnlyHistoriesAreRecorded(s) ==
  \A t \in Tables : s.recorded[t] # {} => t \in OnBothSides(s)

GoodSnapshots ==
  {s \in Snapshots :
     /\ Conforms(s.head) /\ Conforms(s.draft)
     /\ HoldsTogether(s.head) /\ HoldsTogether(s.draft)
     /\ RowsStay(s) /\ OnlyHistoriesAreRecorded(s)}

\* The inductive invariant.
IInv == edits \in 0..MaxEdits /\ Snapshot \in GoodSnapshots

IsPlan(p) == p.snapshot \in GoodSnapshots /\ p.base \in Sides

-----------------------------------------------------------------------------
(* What a side, a table and a row of a snapshot are. *)

\* An absent table, row or reference is no other; a default is no row's id.
LEMMA Absent ==
  /\ \A t \in Tables : t # None
  /\ \A id \in TableIds : id # None
  /\ \A id \in RowIds : id # None /\ id # Blank
  /\ None # Blank
  /\ \A rec \in TableRecord : rec # None
  /\ \A rec \in RowRecord : rec # None
BY ContentAssumption DEF ContentAssumption

\* The fields of a table and of a row.
LEMMA ContentIs ==
  ASSUME NEW c \in Content
  PROVE  /\ \A t \in Tables : t \in TablesOf(c) <=> c.tables[t] # None
         /\ \A t \in TablesOf(c) :
              /\ t \in Tables
              /\ c.tables[t] \in TableRecord
              /\ c.tables[t].id \in TableIds
              /\ c.tables[t].ref \in TableIds \cup {None}
              /\ c.tables[t] = [id |-> c.tables[t].id, ref |-> c.tables[t].ref]
         /\ \A r \in Rows : c.rows[r] # None =>
              /\ c.rows[r] \in RowRecord
              /\ c.rows[r].table \in Tables
              /\ c.rows[r].id \in RowIds
              /\ c.rows[r].val \in Values
              /\ c.rows[r].ref \in RowIds \cup {Blank, None}
              /\ c.rows[r] = [table |-> c.rows[r].table, id |-> c.rows[r].id,
                              val |-> c.rows[r].val, ref |-> c.rows[r].ref]
BY DEF Content, TablesOf, TableRecord, RowRecord

\* A record of tables and rows is a content.
LEMMA IsContent ==
  ASSUME NEW c, c = [tables |-> c.tables, rows |-> c.rows],
         c.tables \in [Tables -> TableRecord \cup {None}],
         c.rows \in [Rows -> RowRecord \cup {None}]
  PROVE  c \in Content
BY DEF Content

\* The two sides of a snapshot.
LEMMA SideIs ==
  ASSUME NEW s \in Snapshots, NEW B \in Sides
  PROVE  /\ Opposite(B) \in Sides /\ Opposite(B) # B /\ Opposite(Opposite(B)) = B
         /\ \A side \in Sides : side = B \/ side = Opposite(B)
         /\ s[B] \in Content
         /\ s["head"] = s.head /\ s["draft"] = s.draft
BY DEF Snapshots, Sides, Opposite

\* What a good snapshot's sides have in common with each other.
LEMMA GoodSide ==
  ASSUME NEW s \in GoodSnapshots, NEW B \in Sides
  PROVE  /\ s \in Snapshots /\ s[B] \in Content
         /\ Conforms(s[B]) /\ HoldsTogether(s[B])
         /\ \A r \in Rows : s[B].rows[r] # None /\ s[Opposite(B)].rows[r] # None =>
                              s[B].rows[r].table = s[Opposite(B)].rows[r].table
         /\ \A t \in Tables : s.recorded[t] # {} => t \in OnBothSides(s)
<1>1. s \in Snapshots
  BY DEF GoodSnapshots
<1>2. CASE B = "head"
  BY <1>1, <1>2, SideIs DEF GoodSnapshots, RowsStay, OnlyHistoriesAreRecorded, Opposite
<1>3. CASE B = "draft"
  BY <1>1, <1>3, SideIs DEF GoodSnapshots, RowsStay, OnlyHistoriesAreRecorded, Opposite
<1> QED
  BY <1>2, <1>3 DEF Sides

\* What holding together means for two tables, two rows and a reference.
LEMMA WhatHolds ==
  ASSUME NEW c \in Content, HoldsTogether(c)
  PROVE  /\ \A t, u \in TablesOf(c) : c.tables[t].id = c.tables[u].id => t = u
         /\ \A t \in TablesOf(c) : c.tables[t].ref # None =>
              \E u \in TablesOf(c) : c.tables[u].id = c.tables[t].ref
         /\ \A r \in Rows : c.rows[r] # None => c.rows[r].table \in TablesOf(c)
         /\ \A r, o \in Rows :
              /\ c.rows[r] # None /\ c.rows[o] # None
              /\ c.rows[r].table = c.rows[o].table /\ c.rows[r].id = c.rows[o].id
              => r = o
         /\ \A r \in Rows : c.rows[r] # None /\ c.rows[r].ref # Blank =>
              Admits(c, c.rows[r].table, c.rows[r].ref)
BY DEF HoldsTogether, TableNamed, RowsOf

\* The same facts, put together.
LEMMA HoldsIf ==
  ASSUME NEW c \in Content,
         \A t, u \in TablesOf(c) : c.tables[t].id = c.tables[u].id => t = u,
         \A t \in TablesOf(c) : c.tables[t].ref # None =>
              \E u \in TablesOf(c) : c.tables[u].id = c.tables[t].ref,
         \A r \in Rows : c.rows[r] # None => c.rows[r].table \in TablesOf(c),
         \A r, o \in Rows :
              /\ c.rows[r] # None /\ c.rows[o] # None
              /\ c.rows[r].table = c.rows[o].table /\ c.rows[r].id = c.rows[o].id
              => r = o,
         \A r \in Rows : c.rows[r] # None /\ c.rows[r].ref # Blank =>
              Admits(c, c.rows[r].table, c.rows[r].ref)
  PROVE  HoldsTogether(c)
<1>1. \A t \in TablesOf(c) : TableNamed(c, c.tables[t].id) = {t}
  BY DEF TableNamed
<1>2. \A t \in TablesOf(c) : c.tables[t].ref # None => TableNamed(c, c.tables[t].ref) # {}
  BY DEF TableNamed
<1>3. \A r \in Rows : c.rows[r] # None =>
        \A o \in RowsOf(c, c.rows[r].table) \ {r} : c.rows[o].id # c.rows[r].id
  BY DEF RowsOf
<1> QED
  BY <1>1, <1>2, <1>3 DEF HoldsTogether

\* The table an id means: the one that has it, if any.
LEMMA IdentityIs ==
  ASSUME NEW c \in Content, NEW id
  PROVE  /\ Identity(c, id) # None =>
              /\ Identity(c, id) \in TablesOf(c) /\ Identity(c, id) \in Tables
              /\ c.tables[Identity(c, id)].id = id
         /\ Identity(c, id) = None <=> \A t \in TablesOf(c) : c.tables[t].id # id
         /\ Identity(c, None) = None
<1>1. Identity(c, None) = None
  <2>1. TableNamed(c, None) = {}
    BY ContentIs, Absent DEF TableNamed
  <2> QED
    BY <2>1 DEF Identity
<1>2. CASE TableNamed(c, id) = {}
  BY <1>1, <1>2 DEF Identity, TableNamed
<1>3. CASE TableNamed(c, id) # {}
  <2>1. Identity(c, id) \in TableNamed(c, id)
    BY <1>3 DEF Identity
  <2>2. Identity(c, id) \in Tables /\ Identity(c, id) # None
    BY <2>1, Absent DEF TableNamed, TablesOf
  <2> QED
    BY <1>1, <2>1, <2>2 DEF TableNamed
<1> QED
  BY <1>2, <1>3

\* In a content that holds together a table is the meaning of its own id, and a
\* schema with a foreign key means a table.
LEMMA MeantTable ==
  ASSUME NEW c \in Content, HoldsTogether(c)
  PROVE  /\ \A t \in TablesOf(c) : Identity(c, c.tables[t].id) = t
         /\ \A t \in TablesOf(c) : Identity(c, c.tables[t].ref) = None <=> c.tables[t].ref = None
<1>1. \A t \in TablesOf(c) : Identity(c, c.tables[t].id) = t
  <2> TAKE t \in TablesOf(c)
  <2>1. TableNamed(c, c.tables[t].id) = {t}
    BY DEF HoldsTogether
  <2> QED
    BY <2>1 DEF Identity
<1>2. \A t \in TablesOf(c) : Identity(c, c.tables[t].ref) = None <=> c.tables[t].ref = None
  <2> TAKE t \in TablesOf(c)
  <2>1. CASE c.tables[t].ref = None
    BY <2>1, IdentityIs
  <2>2. CASE c.tables[t].ref # None
    BY <2>2, IdentityIs, WhatHolds
  <2> QED
    BY <2>1, <2>2
<1> QED
  BY <1>1, <1>2

\* A stored reference other than a default: the row it names.
LEMMA AdmitsMeans ==
  ASSUME NEW c \in Content, HoldsTogether(c), NEW t \in TablesOf(c), NEW ref
  PROVE  Admits(c, t, ref) <=>
           IF c.tables[t].ref = None THEN ref = None
           ELSE \E r \in Rows : /\ c.rows[r] # None
                                /\ c.rows[r].table = Identity(c, c.tables[t].ref)
                                /\ c.rows[r].id = ref
<1>1. CASE c.tables[t].ref = None
  BY <1>1 DEF Admits
<1>2. CASE c.tables[t].ref # None
  <2> DEFINE m == Identity(c, c.tables[t].ref)
  <2>1. m \in TablesOf(c) /\ c.tables[m].id = c.tables[t].ref
    BY <1>2, IdentityIs, MeantTable
  <2>2. TableNamed(c, c.tables[t].ref) = {m}
    BY <2>1 DEF HoldsTogether
  <2> QED
    BY <1>2, <2>2 DEF Admits, RowsOf
<1> QED
  BY <1>1, <1>2

-----------------------------------------------------------------------------
(* The catalogue does not depend on which side is called the base. *)

\* The tables on both sides, and on one.
LEMMA TablesBySide ==
  ASSUME NEW s \in GoodSnapshots, NEW B \in Sides
  PROVE  /\ OnBothSides(s) = TablesOf(s[B]) \cap TablesOf(s[Opposite(B)])
         /\ \A t : t \in OnOneSide(s) <=>
              t \in Tables /\ (t \in TablesOf(s[B])) # (t \in TablesOf(s[Opposite(B)]))
         /\ \A t \in OnOneSide(s) : t \in TablesOf(s[B]) => OneSidedId(s, t) = s[B].tables[t].id
<1>1. s["head"] = s.head /\ s["draft"] = s.draft
  BY GoodSide, SideIs
<1>2. CASE B = "head"
  BY <1>1, <1>2 DEF OnBothSides, OnOneSide, OneSidedId, Opposite, TablesOf
<1>3. CASE B = "draft"
  BY <1>1, <1>3 DEF OnBothSides, OnOneSide, OneSidedId, Opposite, TablesOf
<1> QED
  BY <1>2, <1>3 DEF Sides

\* What makes a structure unit.
LEMMA StructureBySide ==
  ASSUME NEW s \in GoodSnapshots, NEW B \in Sides, NEW t \in Tables
  PROVE  LET b == s[B].tables[t]
             o == s[Opposite(B)].tables[t]
         IN  /\ ReferenceChanged(s, t) <=>
                  /\ t \in OnBothSides(s)
                  /\ \/ "reference" \in s.recorded[t]
                     \/ Identity(s[B], b.ref) # Identity(s[Opposite(B)], o.ref)
             /\ StructureDiffers(s, t) <=>
                  \/ t \in OnOneSide(s)
                  \/ /\ t \in OnBothSides(s)
                     /\ s.recorded[t] # {} \/ b # o \/ ReferenceChanged(s, t)
<1>1. s["head"] = s.head /\ s["draft"] = s.draft
  BY GoodSide, SideIs
<1>2. CASE B = "head"
  BY <1>1, <1>2 DEF ReferenceChanged, StructureDiffers, Opposite
<1>3. CASE B = "draft"
  BY <1>1, <1>3 DEF ReferenceChanged, StructureDiffers, Opposite
<1> QED
  BY <1>2, <1>3 DEF Sides

\* The rows on one side, and the table of a row.
LEMMA RowsBySide ==
  ASSUME NEW s \in GoodSnapshots, NEW B \in Sides, NEW r \in Rows
  PROVE  LET b == s[B].rows[r]
             o == s[Opposite(B)].rows[r]
         IN  /\ OneSidedRow(s, r) <=> (b = None) # (o = None)
             /\ Exists(s, r) <=> b # None \/ o # None
             /\ b # None => /\ TableOf(s, r) = b.table
                            /\ TableOf(s, r) \in TablesOf(s[B])
             /\ Exists(s, r) => TableOf(s, r) \in Tables
<1>1. s["head"] = s.head /\ s["draft"] = s.draft
  BY GoodSide, SideIs
<1>2. \A side \in Sides : /\ s[side] \in Content
                          /\ s[side].rows[r] # None => s[side].rows[r].table \in TablesOf(s[side])
  BY GoodSide, WhatHolds
<1>3. \A side \in Sides : TablesOf(s[side]) \subseteq Tables
  BY DEF TablesOf
<1>4. /\ s.head.rows[r] # None => TableOf(s, r) = s.head.rows[r].table
      /\ s.draft.rows[r] # None => TableOf(s, r) = s.draft.rows[r].table
  BY <1>1, GoodSide DEF TableOf, GoodSnapshots, RowsStay
<1>5. CASE B = "head"
  BY <1>1, <1>2, <1>3, <1>4, <1>5 DEF OneSidedRow, Exists, Opposite, Sides
<1>6. CASE B = "draft"
  BY <1>1, <1>2, <1>3, <1>4, <1>6 DEF OneSidedRow, Exists, Opposite, Sides
<1> QED
  BY <1>5, <1>6 DEF Sides

\* The rows of a table on one side.
LEMMA RowsOfSide ==
  ASSUME NEW s \in GoodSnapshots, NEW B \in Sides, NEW t
  PROVE  RowsOf(s[B], t) = {r \in Rows : s[B].rows[r] # None /\ TableOf(s, r) = t}
BY RowsBySide DEF RowsOf

\* The rows a plan loads.
LEMMA LoadedBySide ==
  ASSUME NEW s \in GoodSnapshots, NEW B \in Sides, NEW r, NEW t
  PROVE  LET b == s[B].rows[r]
             o == s[Opposite(B)].rows[r]
         IN  r \in Loaded(s, t) <=>
               /\ r \in Rows /\ Exists(s, r) /\ t = TableOf(s, r) /\ t \in OnBothSides(s)
               /\ \/ OneSidedRow(s, r)
                  \/ b.id # o.id
                  \/ b.val # o.val
                  \/ b.ref # o.ref /\ ~ReferenceChanged(s, t)
<1>1. s["head"] = s.head /\ s["draft"] = s.draft
  BY GoodSide, SideIs
<1>2. r \in RowsOf(s.head, t) \cup RowsOf(s.draft, t) <=>
        r \in Rows /\ Exists(s, r) /\ t = TableOf(s, r)
  <2>1. "head" \in Sides /\ "draft" \in Sides
    BY DEF Sides
  <2> QED
    BY <1>1, <2>1, RowsOfSide DEF Exists
<1>3. CASE B = "head"
  BY <1>1, <1>2, <1>3 DEF Loaded, Opposite
<1>4. CASE B = "draft"
  BY <1>1, <1>2, <1>4 DEF Loaded, Opposite
<1> QED
  BY <1>3, <1>4 DEF Sides

-----------------------------------------------------------------------------
(* The target takes each table, and each part of a row, from one side. *)

\* A unit is taken from one of the sides.
LEMMA SideTaken ==
  ASSUME NEW p, IsPlan(p), NEW unit
  PROVE  /\ SideTakenBy(p, unit) \in Sides
         /\ unit \in p.applied => SideTakenBy(p, unit) = Opposite(p.base)
         /\ unit \notin p.applied => SideTakenBy(p, unit) = p.base
BY SideIs DEF IsPlan, SideTakenBy, GoodSnapshots

\* A table comes from the side its structure unit takes.
LEMMA TargetTables ==
  ASSUME NEW p, IsPlan(p)
  PROVE  /\ \A t \in Tables : /\ StructureSide(p, t) \in Sides
                              /\ Target(p).tables[t] = p.snapshot[StructureSide(p, t)].tables[t]
         /\ Target(p).tables \in [Tables -> TableRecord \cup {None}]
<1> DEFINE s == p.snapshot
<1>1. s \in GoodSnapshots /\ p.base \in Sides
  BY DEF IsPlan
<1>2. \A side \in Sides : s[side].tables \in [Tables -> TableRecord \cup {None}]
  BY <1>1, GoodSide DEF Content
<1>3. Target(p).tables = [t \in Tables |->
                            IF StructureDiffers(s, t) THEN s[StructureSide(p, t)].tables[t]
                                                      ELSE s[p.base].tables[t]]
  BY DEF Target
<1>4. \A t \in Tables : StructureSide(p, t) \in Sides
  BY SideTaken DEF StructureSide
<1>5. ASSUME NEW t \in Tables
      PROVE  Target(p).tables[t] = s[StructureSide(p, t)].tables[t]
  <2>1. CASE StructureDiffers(s, t)
    BY <1>3, <2>1
  <2>2. CASE ~StructureDiffers(s, t)
    <3>1. s[p.base].tables[t] = s[Opposite(p.base)].tables[t]
      BY <1>1, <2>2, StructureBySide, TablesBySide, GoodSide DEF TablesOf
    <3> QED
      BY <1>1, <1>3, <1>4, <2>2, <3>1, GoodSide, SideIs
  <2> QED
    BY <2>1, <2>2
<1> QED
  BY <1>1, <1>2, <1>3, <1>4, <1>5

\* A row that is not loaded is the same on both sides, except for a reference the
\* structure unit owns; and so is what its own units take.
LEMMA UnloadedRow ==
  ASSUME NEW s \in GoodSnapshots, NEW B \in Sides, NEW O \in Sides, NEW r \in Rows, Exists(s, r),
         TableOf(s, r) \in OnBothSides(s), r \notin Loaded(s, TableOf(s, r))
  PROVE  /\ s[B].rows[r] # None /\ ~OneSidedRow(s, r)
         /\ s[B].rows[r].id = s[O].rows[r].id
         /\ s[B].rows[r].val = s[O].rows[r].val
         /\ ReferenceChanged(s, TableOf(s, r)) \/ s[B].rows[r].ref = s[O].rows[r].ref
<1>1. O = B \/ O = Opposite(B)
  BY GoodSide, SideIs
<1>2. s[B].rows[r] # None /\ ~OneSidedRow(s, r)
  BY LoadedBySide, RowsBySide
<1> QED
  BY <1>1, <1>2, LoadedBySide

\* A row on both sides is merged from the sides its units take.
LEMMA MergedParts ==
  ASSUME NEW p, IsPlan(p), NEW r \in Rows, Exists(p.snapshot, r),
         ~OneSidedRow(p.snapshot, r)
  PROVE  LET s == p.snapshot
             t == TableOf(s, r)
             x == MergedRow(p, t, r)
         IN  /\ x \in RowRecord /\ x # None /\ x.table = t
             /\ x.id = s[SideTakenBy(p, RenameUnit(s, r))].rows[r].id
             /\ x.val = s[SideTakenBy(p, ValueUnit(s, r))].rows[r].val
             /\ x.ref = s[SideTakenBy(p, ReferenceUnit(s, r))].rows[r].ref
<1> DEFINE s == p.snapshot
           t == TableOf(s, r)
           x == MergedRow(p, t, r)
<1>1. s \in GoodSnapshots /\ p.base \in Sides
  BY DEF IsPlan
<1>2. ASSUME NEW side \in Sides
      PROVE  /\ s[side].rows[r] # None
             /\ s[side].rows[r].id \in RowIds /\ s[side].rows[r].val \in Values
             /\ s[side].rows[r].ref \in RowIds \cup {Blank, None}
  <2>1. s[side].rows[r] # None
    BY <1>1, RowsBySide
  <2> QED
    BY <1>1, <2>1, GoodSide, ContentIs
<1>3. t \in Tables
  BY <1>1, RowsBySide
<1>4. x = [table |-> t, id |-> s[SideTakenBy(p, RenameUnit(s, r))].rows[r].id,
           val |-> s[SideTakenBy(p, ValueUnit(s, r))].rows[r].val,
           ref |-> s[SideTakenBy(p, ReferenceUnit(s, r))].rows[r].ref]
  BY DEF MergedRow
<1>5. x \in RowRecord
  BY <1>2, <1>3, <1>4, SideTaken DEF RowRecord
<1> QED
  BY <1>4, <1>5, Absent

\* A row of the other structure keeps everything but its reference.
LEMMA MovedParts ==
  ASSUME NEW p, IsPlan(p), NEW t \in Tables, NEW row \in RowRecord
  PROVE  LET s == p.snapshot
             x == MovedRow(p, t, row)
         IN  /\ x \in RowRecord /\ x # None
             /\ x.table = row.table /\ x.id = row.id /\ x.val = row.val
             /\ x.ref = IF s[StructureSide(p, t)].tables[t].ref = None THEN None
                        ELSE IF ReferenceChanged(s, t) THEN Blank ELSE row.ref
<1> DEFINE s == p.snapshot
           ref == IF s[StructureSide(p, t)].tables[t].ref = None THEN None
                  ELSE IF ReferenceChanged(s, t) THEN Blank ELSE row.ref
           x == MovedRow(p, t, row)
<1>1. x = [row EXCEPT !.ref = ref]
  BY DEF MovedRow
<1>2. row.ref \in RowIds \cup {Blank, None}
  BY DEF RowRecord
<1>3. ref \in RowIds \cup {Blank, None}
  BY <1>2
<1> HIDE DEF ref, x
<1>4. x \in RowRecord /\ x.table = row.table /\ x.id = row.id /\ x.val = row.val /\ x.ref = ref
  BY <1>1, <1>3 DEF RowRecord
<1> QED
  BY <1>4, Absent DEF ref, x

\* Rows of a table on one side come with it; a row of a table on both sides is
\* loaded, or what loading it would give.
LEMMA TargetRow ==
  ASSUME NEW p, IsPlan(p), NEW r \in Rows
  PROVE  LET s == p.snapshot
             t == TableOf(s, r)
         IN  /\ ~Exists(s, r) => Target(p).rows[r] = None
             /\ Exists(s, r) /\ r \notin Loaded(s, t) =>
                  Target(p).rows[r] = s[StructureSide(p, t)].rows[r]
             /\ Exists(s, r) /\ t \in OnBothSides(s) => Target(p).rows[r] = LoadedRow(p, t, r)
<1> DEFINE s == p.snapshot
           t == TableOf(s, r)
           B == p.base
<1>1. s \in GoodSnapshots /\ B \in Sides
  BY DEF IsPlan
<1>2. r \in UNION {Loaded(s, u) : u \in Tables} <=> Exists(s, r) /\ r \in Loaded(s, t)
  BY <1>1, LoadedBySide, RowsBySide
<1>3. Target(p).rows[r] = IF Exists(s, r) /\ r \in Loaded(s, t) THEN LoadedRow(p, t, r)
                          ELSE IF Exists(s, r) THEN s[StructureSide(p, t)].rows[r]
                          ELSE None
  BY <1>2 DEF Target, Exists
<1>4. ASSUME Exists(s, r), t \in OnBothSides(s), r \notin Loaded(s, t)
      PROVE  s[StructureSide(p, t)].rows[r] = LoadedRow(p, t, r)
  <2> DEFINE row == s[StructureSide(p, t)].rows[r]
             x == MergedRow(p, t, r)
  <2>1. /\ StructureSide(p, t) \in Sides
        /\ \A unit : SideTakenBy(p, unit) \in Sides
    BY SideTaken DEF StructureSide
  <2>2. /\ ~OneSidedRow(s, r)
        /\ \A side \in Sides : /\ s[side].rows[r] # None
                               /\ s[side].rows[r].id = row.id /\ s[side].rows[r].val = row.val
                               /\ ReferenceChanged(s, t) \/ s[side].rows[r].ref = row.ref
    BY <1>1, <1>4, <2>1, UnloadedRow
  <2>3. ReferenceChanged(s, t) => SideTakenBy(p, ReferenceUnit(s, r)) = StructureSide(p, t)
    BY DEF ReferenceUnit, StructureSide
  <2>4. x.table = t /\ x.id = row.id /\ x.val = row.val /\ x.ref = row.ref
    BY <1>1, <1>4, <2>1, <2>2, <2>3, MergedParts
  <2>5. row = [table |-> t, id |-> row.id, val |-> row.val, ref |-> row.ref]
    BY <1>1, <2>1, <2>2, GoodSide, ContentIs, RowsBySide
  <2>6. x = [table |-> x.table, id |-> x.id, val |-> x.val, ref |-> x.ref]
    BY DEF MergedRow
  <2> QED
    BY <2>2, <2>4, <2>5, <2>6 DEF LoadedRow
<1> QED
  BY <1>3, <1>4

\* The parts of a row of the target.
LEMMA TargetRowParts ==
  ASSUME NEW p, IsPlan(p), NEW r \in Rows, Target(p).rows[r] # None
  PROVE  LET s == p.snapshot
             t == TableOf(s, r)
         IN  /\ Exists(s, r) /\ t \in Tables
             /\ Target(p).rows[r] \in RowRecord
             /\ Target(p).rows[r].table = t
<1> DEFINE s == p.snapshot
           t == TableOf(s, r)
           x == Target(p).rows[r]
           e == SideTakenBy(p, ExistenceUnit(s, r))
<1>1. s \in GoodSnapshots /\ Exists(s, r) /\ t \in Tables
  BY TargetRow, RowsBySide DEF IsPlan
<1>2. \A side \in Sides : s[side].rows[r] # None =>
        s[side].rows[r] \in RowRecord /\ s[side].rows[r].table = t
  BY <1>1, GoodSide, ContentIs, RowsBySide
<1>3. StructureSide(p, t) \in Sides /\ e \in Sides
  BY SideTaken DEF StructureSide
<1>4. CASE r \notin Loaded(s, t)
  BY <1>1, <1>2, <1>3, <1>4, TargetRow
<1>5. CASE r \in Loaded(s, t)
  <2>1. x = LoadedRow(p, t, r)
    <3>1. p.base \in Sides
      BY DEF IsPlan
    <3>2. t \in OnBothSides(s)
      BY <1>1, <1>5, <3>1, LoadedBySide
    <3> QED
      BY <1>1, <3>2, TargetRow
  <2>2. CASE ~OneSidedRow(s, r)
    BY <1>1, <2>1, <2>2, MergedParts DEF LoadedRow
  <2>3. CASE OneSidedRow(s, r)
    <3>1. s[e].rows[r] # None
      BY <2>1, <2>3 DEF LoadedRow
    <3>2. x \in {s[e].rows[r], MovedRow(p, t, s[e].rows[r])}
      BY <2>1, <2>3 DEF LoadedRow
    <3> QED
      BY <1>1, <1>2, <1>3, <3>1, <3>2, MovedParts
  <2> QED
    BY <2>2, <2>3
<1> QED
  BY <1>1, <1>4, <1>5

\* A one-sided row of a table on both sides: its unit decides whether it is there.
LEMMA TargetOfOneSided ==
  ASSUME NEW p, IsPlan(p), NEW r \in Rows, Exists(p.snapshot, r),
         OneSidedRow(p.snapshot, r),
         TableOf(p.snapshot, r) \in OnBothSides(p.snapshot)
  PROVE  LET s == p.snapshot
             t == TableOf(s, r)
             side == SideTakenBy(p, ExistenceUnit(s, r))
             existing == s[side].rows[r]
             x == Target(p).rows[r]
         IN  /\ x = None <=> existing = None
             /\ existing # None =>
                  /\ x.table = t /\ x.id = existing.id /\ x.val = existing.val
                  /\ x.ref = IF side = StructureSide(p, t) THEN existing.ref
                             ELSE IF s[StructureSide(p, t)].tables[t].ref = None THEN None
                             ELSE IF ReferenceChanged(s, t) THEN Blank
                             ELSE existing.ref
<1> DEFINE s == p.snapshot
           t == TableOf(s, r)
           side == SideTakenBy(p, ExistenceUnit(s, r))
           existing == s[side].rows[r]
           x == Target(p).rows[r]
<1>1. s \in GoodSnapshots /\ t \in Tables /\ side \in Sides
  BY RowsBySide, SideTaken DEF IsPlan
<1>2. x = IF existing = None \/ side = StructureSide(p, t) THEN existing
          ELSE MovedRow(p, t, existing)
  BY TargetRow DEF LoadedRow
<1>3. existing # None => existing \in RowRecord /\ existing.table = t
  BY <1>1, GoodSide, ContentIs, RowsBySide
<1>4. LET y == MovedRow(p, t, existing)
      IN  existing # None =>
            /\ y # None /\ y.table = t /\ y.id = existing.id /\ y.val = existing.val
            /\ y.ref = IF s[StructureSide(p, t)].tables[t].ref = None THEN None
                       ELSE IF ReferenceChanged(s, t) THEN Blank ELSE existing.ref
  BY <1>1, <1>3, MovedParts
<1> QED
  <2> HIDE DEF s, t, side, existing, x
  <2>1. /\ x = None <=> existing = None
        /\ existing # None =>
             /\ x.table = t /\ x.id = existing.id /\ x.val = existing.val
             /\ x.ref = IF side = StructureSide(p, t) THEN existing.ref
                        ELSE IF s[StructureSide(p, t)].tables[t].ref = None THEN None
                        ELSE IF ReferenceChanged(s, t) THEN Blank ELSE existing.ref
    BY <1>2, <1>3, <1>4
  <2> QED
    BY <2>1 DEF s, t, side, existing, x

\* The target of a choice is a content.
LEMMA TargetIsContent ==
  ASSUME NEW p, IsPlan(p)
  PROVE  Target(p) \in Content
<1>1. Target(p) = [tables |-> Target(p).tables, rows |-> Target(p).rows]
  BY DEF Target
<1>2. Target(p).rows = [r \in Rows |-> Target(p).rows[r]]
  BY DEF Target
<1>3. Target(p).rows \in [Rows -> RowRecord \cup {None}]
  BY <1>2, TargetRowParts
<1> QED
  BY <1>1, <1>3, TargetTables, IsContent

-----------------------------------------------------------------------------
(* A target without findings holds together. *)

IsClear(p) == IsPlan(p) /\ Findings(p) = {}

\* The findings are those of the target.
LEMMA FindingsAre ==
  ASSUME NEW p
  PROVE  Findings(p) = FindingsOf(p, Target(p), Units(p.snapshot) \ p.applied)
BY Zenon DEF Findings

\* What each check of the target rules out.
LEMMA ClearTables ==
  ASSUME NEW p, IsClear(p), NEW t \in TablesOf(Target(p)), Target(p).tables[t].ref # None
  PROVE  ReferencedTable(p, Target(p), t) # None
<1> DEFINE open == Units(p.snapshot) \ p.applied
<1>1. TableReferences(p, Target(p), open) = {}
  BY FindingsAre DEF IsClear, FindingsOf
<1> HIDE DEF open
<1> QED
  BY <1>1 DEF TableReferences

\* And what the checks of its rows do.
LEMMA ClearRows ==
  ASSUME NEW p, IsClear(p), NEW r \in Rows
  PROVE  LET s == p.snapshot
             c == Target(p)
         IN  /\ /\ c.rows[r] # None
                /\ \E o \in RowsOf(c, c.rows[r].table) \ {r} : c.rows[o].id = c.rows[r].id
                /\ s[p.base].rows[r] # None
                /\ s[p.base].rows[r].id = c.rows[r].id
                => IdUnit(s, r) \in p.applied
             /\ r \in Unresolved(p, c) =>
                  /\ ~IsLoaded(p, c, r)
                  /\ ~BroughtWholesale(p, c.rows[r].table)
                  /\ ~LosesId(p, ReferencedTable(p, c, c.rows[r].table), c.rows[r].ref)
<1> DEFINE open == Units(p.snapshot) \ p.applied
<1>1. /\ RowIdCollisions(p, Target(p), open) = {}
      /\ DanglingRowReferences(p, Target(p), open) = {}
      /\ UnchangedReferrersOfLostIds(p, Target(p), open) = {}
      /\ WholesaleRowReferences(p, Target(p), open) = {}
  BY FindingsAre DEF IsClear, FindingsOf
<1> HIDE DEF open
<1>2. r \in Unresolved(p, Target(p)) /\ ~IsLoaded(p, Target(p), r) =>
        /\ ~BroughtWholesale(p, Target(p).rows[r].table)
        /\ ~LosesId(p, ReferencedTable(p, Target(p), Target(p).rows[r].table), Target(p).rows[r].ref)
  BY <1>1 DEF UnchangedReferrersOfLostIds, WholesaleRowReferences
<1>3. r \in Unresolved(p, Target(p)) => ~IsLoaded(p, Target(p), r)
  BY <1>1 DEF DanglingRowReferences
<1> QED
  BY <1>1, <1>2, <1>3 DEF RowIdCollisions

\* A foreign key of the target means the table it means on the side it came from.
LEMMA TargetMeaning ==
  ASSUME NEW p, IsClear(p), NEW t \in TablesOf(Target(p))
  PROVE  LET c == Target(p)
             side == p.snapshot[StructureSide(p, t)]
         IN  /\ Identity(c, c.tables[t].ref) = Identity(side, side.tables[t].ref)
             /\ c.tables[t].ref # None =>
                  /\ Identity(c, c.tables[t].ref) # None
                  /\ ReferencedTable(p, c, t) = Identity(c, c.tables[t].ref)
<1> DEFINE s == p.snapshot
           c == Target(p)
           side == p.snapshot[StructureSide(p, t)]
<1>1. /\ s \in GoodSnapshots /\ t \in Tables /\ c \in Content
      /\ StructureSide(p, t) \in Sides /\ c.tables[t] = side.tables[t]
  BY TargetIsContent, TargetTables DEF IsClear, IsPlan, TablesOf
<1>2. side \in Content
  BY <1>1, GoodSide
<1>3. CASE c.tables[t].ref = None
  BY <1>1, <1>2, <1>3, IdentityIs
<1>4. CASE c.tables[t].ref # None
  BY <1>1, <1>4, ClearTables DEF ReferencedTable, TableMeantBy
<1> QED
  BY <1>3, <1>4

\* No two tables of a target have one id.
LEMMA TargetTableIds ==
  ASSUME NEW p, IsPlan(p),
         TableIdCollisions(p, Target(p), Units(p.snapshot) \ p.applied) = {},
         NEW t \in TablesOf(Target(p)), NEW u \in TablesOf(Target(p)),
         Target(p).tables[t].id = Target(p).tables[u].id
  PROVE  t = u
<1> DEFINE s == p.snapshot
           c == Target(p)
<1>1. /\ s \in GoodSnapshots /\ t \in Tables /\ u \in Tables /\ p.base \in Sides /\ IsPlan(p)
      /\ c.tables[t] # None /\ c.tables[u] # None
  BY DEF IsPlan, TablesOf
<1>2. /\ StructureSide(p, t) \in Sides /\ c.tables[t] = s[StructureSide(p, t)].tables[t]
      /\ StructureSide(p, u) \in Sides /\ c.tables[u] = s[StructureSide(p, u)].tables[u]
  BY <1>1, TargetTables
<1>3. CASE StructureSide(p, t) = StructureSide(p, u)
  BY <1>1, <1>2, <1>3, GoodSide, WhatHolds DEF TablesOf
<1>4. ASSUME NEW v \in TablesOf(c), NEW w \in TablesOf(c), v # w,
             c.tables[v].id = c.tables[w].id,
             c.tables[v] = s[StructureSide(p, v)].tables[v]
      PROVE  StructureSide(p, v) = Opposite(p.base)
  <2>1. w \in TableNamed(c, c.tables[v].id)
    BY <1>4 DEF TableNamed
  <2>2. StructureUnit(s, v) \notin p.applied => StructureSide(p, v) = p.base
    BY <1>1, SideTaken DEF StructureSide
  <2>3. StructureUnit(s, v) \in p.applied
    <3> DEFINE open == Units(s) \ p.applied
    <3>1. TableIdCollisions(p, c, open) = {}
      OBVIOUS
    <3> HIDE DEF open
    <3>2. StructureUnit(s, v) \notin p.applied => s[p.base].tables[v] = c.tables[v]
      BY <1>4, <2>2
    <3>3. c.tables[v] # None /\ TableNamed(c, c.tables[v].id) # {v}
      BY <1>4, <2>1 DEF TablesOf
    <3> QED
      BY <1>4, <3>1, <3>2, <3>3 DEF TableIdCollisions
  <2> QED
    BY <1>1, <2>3, SideTaken DEF StructureSide
<1> QED
  BY <1>2, <1>3, <1>4

\* The id of a row of the target comes from the side its unit takes.
LEMMA TargetRowId ==
  ASSUME NEW p, IsPlan(p), NEW r \in Rows, Target(p).rows[r] # None
  PROVE  LET s == p.snapshot
             side == IF TableOf(s, r) \in OnBothSides(s) THEN SideTakenBy(p, IdUnit(s, r))
                                                         ELSE StructureSide(p, TableOf(s, r))
         IN  /\ side \in Sides /\ s[side].rows[r] # None
             /\ Target(p).rows[r].id = s[side].rows[r].id
<1> DEFINE s == p.snapshot
           t == TableOf(s, r)
           x == Target(p).rows[r]
<1>1. s \in GoodSnapshots /\ p.base \in Sides /\ Exists(s, r) /\ t \in Tables
  BY TargetRowParts DEF IsPlan
<1>2. \A unit : SideTakenBy(p, unit) \in Sides
  BY SideTaken
<1>3. CASE t \notin OnBothSides(s)
  <2>1. r \notin Loaded(s, t)
    BY <1>1, <1>3, LoadedBySide
  <2> QED
    BY <1>1, <1>2, <1>3, <2>1, TargetRow DEF StructureSide
<1>4. CASE t \in OnBothSides(s) /\ OneSidedRow(s, r)
  BY <1>1, <1>2, <1>4, TargetOfOneSided DEF IdUnit
<1>5. CASE t \in OnBothSides(s) /\ ~OneSidedRow(s, r)
  <2>1. x = MergedRow(p, t, r)
    BY <1>1, <1>5, TargetRow DEF LoadedRow
  <2>2. \A side \in Sides : s[side].rows[r] # None
    BY <1>1, <1>5, RowsBySide
  <2> QED
    BY <1>1, <1>2, <1>5, <2>1, <2>2, MergedParts DEF IdUnit
<1> QED
  BY <1>3, <1>4, <1>5

\* No two rows of a table of a target have one id.
LEMMA TargetRowIds ==
  ASSUME NEW p, IsClear(p), NEW r \in Rows, NEW o \in Rows,
         Target(p).rows[r] # None, Target(p).rows[o] # None,
         Target(p).rows[r].table = Target(p).rows[o].table,
         Target(p).rows[r].id = Target(p).rows[o].id
  PROVE  r = o
<1> DEFINE s == p.snapshot
           c == Target(p)
           t == TableOf(s, r)
           side(q) == SideTakenBy(p, IdUnit(s, q))
<1>1. /\ s \in GoodSnapshots /\ p.base \in Sides /\ IsPlan(p)
      /\ Exists(s, r) /\ Exists(s, o) /\ TableOf(s, o) = t
      /\ c.rows[r].table = t /\ c.rows[o].table = t
  BY TargetRowParts DEF IsClear, IsPlan
<1>2. ASSUME NEW B \in Sides, s[B].rows[r] # None, s[B].rows[o] # None,
             s[B].rows[r].id = s[B].rows[o].id
      PROVE  r = o
  BY <1>1, <1>2, GoodSide, WhatHolds, RowsBySide
<1>3. CASE t \notin OnBothSides(s)
  BY <1>1, <1>2, <1>3, TargetRowId
<1>4. CASE t \in OnBothSides(s)
  <2>1. /\ side(r) \in Sides /\ s[side(r)].rows[r] # None /\ c.rows[r].id = s[side(r)].rows[r].id
        /\ side(o) \in Sides /\ s[side(o)].rows[o] # None /\ c.rows[o].id = s[side(o)].rows[o].id
    BY <1>1, <1>4, TargetRowId
  <2>2. CASE side(r) = side(o)
    BY <1>2, <2>1, <2>2
  <2>3. ASSUME NEW v \in Rows, NEW w \in Rows, v # w, c.rows[v] # None, c.rows[w] # None,
               c.rows[v].table = c.rows[w].table, c.rows[v].id = c.rows[w].id,
               s[side(v)].rows[v] # None, c.rows[v].id = s[side(v)].rows[v].id
        PROVE  side(v) = Opposite(p.base)
    <3>1. w \in RowsOf(c, c.rows[v].table) \ {v}
      BY <2>3 DEF RowsOf
    <3>2. IdUnit(s, v) \notin p.applied => side(v) = p.base
      BY <1>1, SideTaken
    <3>3. IdUnit(s, v) \in p.applied
      BY <2>3, <3>1, <3>2, ClearRows
    <3> QED
      BY <1>1, <3>3, SideTaken
  <2> QED
    BY <1>1, <2>1, <2>2, <2>3
<1> QED
  BY <1>3, <1>4

\* A field that did not change is in both structures, or in neither.
LEMMA UnchangedField ==
  ASSUME NEW s \in GoodSnapshots, NEW t \in OnBothSides(s), ~ReferenceChanged(s, t),
         NEW B \in Sides, NEW O \in Sides
  PROVE  /\ Identity(s[B], s[B].tables[t].ref) = Identity(s[O], s[O].tables[t].ref)
         /\ s[B].tables[t].ref = None <=> s[O].tables[t].ref = None
<1>1. O = B \/ O = Opposite(B)
  BY GoodSide, SideIs
<1>2. t \in Tables /\ t \in TablesOf(s[B]) /\ t \in TablesOf(s[O])
  BY TablesBySide DEF TablesOf
<1>3. Identity(s[B], s[B].tables[t].ref) = Identity(s[O], s[O].tables[t].ref)
  BY <1>1, <1>2, StructureBySide
<1> QED
  BY <1>2, <1>3, GoodSide, MeantTable

\* On each side a row has a reference exactly when its table has the field.
LEMMA SideConforms ==
  ASSUME NEW s \in GoodSnapshots, NEW B \in Sides, NEW r \in Rows, s[B].rows[r] # None
  PROVE  s[B].rows[r].ref = None <=> s[B].tables[TableOf(s, r)].ref = None
BY GoodSide, RowsBySide DEF Conforms, RowsOf

\* And so it is in the target of any choice.
LEMMA TargetConforms ==
  ASSUME NEW p, IsPlan(p)
  PROVE  Conforms(Target(p))
<1> DEFINE s == p.snapshot
           c == Target(p)
<1>1. s \in GoodSnapshots /\ p.base \in Sides
  BY DEF IsPlan
<1>2. ASSUME NEW r \in Rows, c.rows[r] # None
      PROVE  c.rows[r].ref = None <=> c.tables[TableOf(s, r)].ref = None
  <2> DEFINE t == TableOf(s, r)
             x == c.rows[r]
             side == StructureSide(p, t)
  <2>1. /\ t \in Tables /\ Exists(s, r) /\ side \in Sides
        /\ c.tables[t] = s[side].tables[t]
        /\ \A unit : SideTakenBy(p, unit) \in Sides
    BY <1>2, TargetRowParts, TargetTables, SideTaken
  <2>2. CASE t \notin OnBothSides(s)
    <3>1. r \notin Loaded(s, t)
      BY <1>1, <2>2, LoadedBySide
    <3> QED
      BY <1>1, <1>2, <2>1, <3>1, TargetRow, SideConforms
  <2>3. CASE t \in OnBothSides(s) /\ OneSidedRow(s, r)
    <3> DEFINE e == SideTakenBy(p, ExistenceUnit(s, r))
    <3>1. /\ s[e].rows[r] # None
          /\ x.ref = IF e = side THEN s[e].rows[r].ref
                     ELSE IF s[side].tables[t].ref = None THEN None
                     ELSE IF ReferenceChanged(s, t) THEN Blank
                     ELSE s[e].rows[r].ref
      BY <1>2, <2>1, <2>3, TargetOfOneSided
    <3>2. s[e].rows[r].ref = None <=> s[e].tables[t].ref = None
      BY <1>1, <2>1, <3>1, SideConforms
    <3>3. ReferenceChanged(s, t) \/ (s[e].tables[t].ref = None <=> s[side].tables[t].ref = None)
      BY <1>1, <2>1, <2>3, UnchangedField
    <3> HIDE DEF e
    <3> QED
      BY <2>1, <3>1, <3>2, <3>3, Absent
  <2>4. CASE t \in OnBothSides(s) /\ ~OneSidedRow(s, r)
    <3> DEFINE e == SideTakenBy(p, ReferenceUnit(s, r))
    <3>1. x = MergedRow(p, t, r)
      BY <1>2, <2>1, <2>4, TargetRow DEF LoadedRow
    <3>2. x.ref = s[e].rows[r].ref
      BY <2>1, <2>4, <3>1, MergedParts
    <3>3. s[e].rows[r].ref = None <=> s[e].tables[t].ref = None
      BY <1>1, <2>1, <2>4, RowsBySide, SideConforms
    <3>4. ReferenceChanged(s, t) => e = side
      BY DEF ReferenceUnit, StructureSide
    <3>5. ReferenceChanged(s, t) \/ (s[e].tables[t].ref = None <=> s[side].tables[t].ref = None)
      BY <1>1, <2>1, <2>4, UnchangedField
    <3> HIDE DEF e
    <3> QED
      BY <2>1, <3>2, <3>3, <3>4, <3>5
  <2> QED
    BY <2>2, <2>3, <2>4
<1>3. \A r \in Rows : c.rows[r] # None => c.rows[r].table = TableOf(s, r)
  BY TargetRowParts
<1> QED
  BY <1>2, <1>3 DEF Conforms, RowsOf

\* The table of a row of a target is a table of the target.
LEMMA TargetRowTable ==
  ASSUME NEW p, IsPlan(p), NEW r \in Rows, Target(p).rows[r] # None
  PROVE  Target(p).rows[r].table \in TablesOf(Target(p))
<1> DEFINE s == p.snapshot
           c == Target(p)
           t == TableOf(s, r)
           side == StructureSide(p, t)
<1>1. s \in GoodSnapshots /\ p.base \in Sides
  BY DEF IsPlan
<1>2. /\ Exists(s, r) /\ t \in Tables /\ c.rows[r].table = t
      /\ side \in Sides /\ c.tables[t] = s[side].tables[t]
  BY TargetRowParts, TargetTables
<1>3. CASE t \in OnBothSides(s)
  BY <1>1, <1>2, <1>3, TablesBySide DEF TablesOf
<1>4. CASE t \notin OnBothSides(s)
  <2>1. r \notin Loaded(s, t)
    BY <1>1, <1>4, LoadedBySide
  <2>2. s[side].rows[r] # None
    BY <1>2, <2>1, TargetRow
  <2> QED
    BY <1>1, <1>2, <2>2, RowsBySide DEF TablesOf
<1> QED
  BY <1>3, <1>4

\* A row both sides have under one id, or that came with its table, keeps its id.
LEMMA UnloadedRowStays ==
  ASSUME NEW p, IsPlan(p), NEW q \in Rows, p.snapshot[p.base].rows[q] # None,
         q \notin Loaded(p.snapshot, TableOf(p.snapshot, q)),
         TableOf(p.snapshot, q) \in TablesOf(Target(p))
  PROVE  /\ Target(p).rows[q] # None
         /\ Target(p).rows[q].table = TableOf(p.snapshot, q)
         /\ Target(p).rows[q].id = p.snapshot[p.base].rows[q].id
<1> DEFINE s == p.snapshot
           c == Target(p)
           t == TableOf(s, q)
           side == StructureSide(p, t)
<1>1. s \in GoodSnapshots /\ p.base \in Sides
  BY DEF IsPlan
<1>2. Exists(s, q) /\ t \in Tables /\ t \in TablesOf(s[p.base])
  BY <1>1, RowsBySide
<1>3. side \in Sides /\ c.tables[t] = s[side].tables[t] /\ c.rows[q] = s[side].rows[q]
  BY <1>2, TargetTables, TargetRow
<1>4. s[side].rows[q] # None /\ s[side].rows[q].id = s[p.base].rows[q].id
  <2>1. CASE side = p.base
    BY <2>1
  <2>2. CASE side # p.base
    <3>1. side = Opposite(p.base)
      BY <1>1, <1>3, <2>2, GoodSide, SideIs
    <3>2. t \in OnBothSides(s)
      BY <1>1, <1>2, <1>3, <3>1, TablesBySide DEF TablesOf
    <3> QED
      BY <1>1, <1>2, <1>3, <3>2, UnloadedRow
  <2> QED
    BY <2>1, <2>2
<1> QED
  BY <1>1, <1>3, <1>4, RowsBySide

\* A reference that a content admits, other than none and the default, resolves.
LEMMA ReferenceResolves ==
  ASSUME NEW c \in Content, HoldsTogether(c), NEW r \in Rows, c.rows[r] # None,
         c.rows[r].ref # Blank, c.tables[c.rows[r].table].ref # None
  PROVE  \E q \in Rows : /\ c.rows[q] # None
                         /\ c.rows[q].table = Identity(c, c.tables[c.rows[r].table].ref)
                         /\ c.rows[q].id = c.rows[r].ref
<1>1. c.rows[r].table \in TablesOf(c) /\ Admits(c, c.rows[r].table, c.rows[r].ref)
  BY WhatHolds
<1> QED
  BY <1>1, AdmitsMeans

\* A reference of a target, other than a default, resolves.
LEMMA TargetReferences ==
  ASSUME NEW p, IsClear(p), NEW r \in Rows,
         Target(p).rows[r] # None, Target(p).rows[r].ref # Blank,
         Target(p).rows[r].ref # None
  PROVE  LET c == Target(p)
         IN  \E q \in Rows : /\ c.rows[q] # None
                             /\ c.rows[q].table = Identity(c, c.tables[c.rows[r].table].ref)
                             /\ c.rows[q].id = c.rows[r].ref
<1> DEFINE s == p.snapshot
           c == Target(p)
           t == TableOf(s, r)
           side == StructureSide(p, t)
           B == p.base
           ref == c.rows[r].ref
           m == Identity(c, c.tables[t].ref)
<1>1. /\ IsPlan(p) /\ s \in GoodSnapshots /\ B \in Sides /\ c \in Content
      /\ Exists(s, r) /\ t \in Tables /\ c.rows[r].table = t /\ t \in TablesOf(c)
      /\ side \in Sides /\ c.tables[t] = s[side].tables[t]
  BY TargetRowParts, TargetRowTable, TargetTables, TargetIsContent DEF IsClear, IsPlan
<1>2. c.tables[t].ref # None
  BY <1>1, TargetConforms DEF Conforms, RowsOf
<1>3. /\ m # None /\ m \in TablesOf(c) /\ ReferencedTable(p, c, t) = m
      /\ m = Identity(s[side], s[side].tables[t].ref)
  BY <1>1, <1>2, TargetMeaning, IdentityIs
<1> SUFFICES ASSUME \A q \in Rows : c.rows[q] # None /\ c.rows[q].table = m => c.rows[q].id # ref
             PROVE  FALSE
  BY <1>1
<1>4. r \in Unresolved(p, c)
  BY <1>1, <1>3 DEF Unresolved, RowsOf
<1>5. r \notin Loaded(s, t) /\ ~BroughtWholesale(p, t) /\ ~LosesId(p, m, ref)
  <2>1. ~IsLoaded(p, c, r) /\ ~BroughtWholesale(p, c.rows[r].table)
        /\ ~LosesId(p, ReferencedTable(p, c, c.rows[r].table), ref)
    BY <1>4, ClearRows
  <2> QED
    BY <1>1, <1>3, <2>1 DEF IsLoaded
<1>6. c.rows[r] = s[side].rows[r]
  BY <1>1, <1>5, TargetRow
<1>7. /\ t \in TablesOf(s[B]) /\ s[B].rows[r] # None /\ s[B].rows[r].ref = ref
      /\ m = Identity(s[B], s[B].tables[t].ref)
  <2>1. CASE side = B
    BY <1>1, <1>3, <1>6, <2>1 DEF TablesOf
  <2>2. CASE side # B
    <3>1. s[B].tables[t] # None /\ ~ReferenceChanged(s, t)
      BY <1>5, <2>2 DEF BroughtWholesale
    <3>2. side = Opposite(B)
      BY <1>1, <2>2, GoodSide, SideIs
    <3>3. t \in OnBothSides(s)
      BY <1>1, <3>1, <3>2, TablesBySide DEF TablesOf
    <3>4. t \in TablesOf(s[B])
      BY <1>1, <3>1 DEF TablesOf
    <3>5. s[B].rows[r] # None /\ s[B].rows[r].ref = s[side].rows[r].ref
      BY <1>1, <1>5, <3>1, <3>3, UnloadedRow
    <3>6. Identity(s[B], s[B].tables[t].ref) = Identity(s[side], s[side].tables[t].ref)
      BY <1>1, <3>1, <3>3, UnchangedField
    <3> QED
      BY <1>3, <1>6, <3>4, <3>5, <3>6
  <2> QED
    BY <2>1, <2>2
<1>8. PICK q \in Rows : /\ s[B].rows[q] # None /\ s[B].rows[q].table = m
                        /\ s[B].rows[q].id = ref
  <2>1. s[B] \in Content /\ HoldsTogether(s[B]) /\ s[B].rows[r].table = t
    <3>1. s[B] \in Content /\ HoldsTogether(s[B])
      BY <1>1, GoodSide
    <3>2. s[B].rows[r].table = t
      <4>1. s \in GoodSnapshots /\ B \in Sides /\ s[B].rows[r] # None
        BY <1>1, <1>7
      <4> HIDE DEF s, B, c, m, side, ref
      <4> QED
        BY <4>1, RowsBySide
    <3> QED
      BY <3>1, <3>2
  <2> DEFINE b == s[B]
  <2>2. b.tables[t].ref # None
    BY <1>3, <1>7, <2>1, IdentityIs
  <2>3. /\ b \in Content /\ HoldsTogether(b) /\ b.rows[r] # None /\ b.rows[r].ref = ref
        /\ ref # Blank /\ b.rows[r].table = t /\ m = Identity(b, b.tables[t].ref)
    BY <1>7, <2>1
  <2> HIDE DEF b, m, ref
  <2>4. \E q \in Rows : b.rows[q] # None /\ b.rows[q].table = m /\ b.rows[q].id = ref
    BY <2>2, <2>3, ReferenceResolves
  <2> QED
    BY <2>4 DEF b
<1>9. TableOf(s, q) = m
  BY <1>1, <1>8, RowsBySide
<1>10. q \notin Loaded(s, m)
  BY <1>5, <1>8 DEF LosesId
<1> QED
  BY <1>1, <1>3, <1>8, <1>9, <1>10, UnloadedRowStays

\* The target of a choice without findings holds together.
LEMMA TargetHolds ==
  ASSUME NEW p, IsClear(p)
  PROVE  HoldsTogether(Target(p))
<1> DEFINE c == Target(p)
<1>1. IsPlan(p) /\ c \in Content
  BY TargetIsContent DEF IsClear
<1>2. \A t \in TablesOf(c) : c.tables[t].ref # None =>
        \E u \in TablesOf(c) : c.tables[u].id = c.tables[t].ref
  BY <1>1, TargetMeaning, IdentityIs
<1>3. ASSUME NEW r \in Rows, c.rows[r] # None, c.rows[r].ref # Blank
      PROVE  Admits(c, c.rows[r].table, c.rows[r].ref)
  <2> DEFINE t == c.rows[r].table
             m == Identity(c, c.tables[t].ref)
  <2>1. t \in TablesOf(c)
    BY <1>1, <1>3, TargetRowTable
  <2>2. CASE c.rows[r].ref = None
    BY <1>1, <1>3, <2>1, <2>2, TargetConforms DEF Conforms, RowsOf, Admits
  <2>3. CASE c.rows[r].ref # None
    <3>1. c.tables[t].ref # None
      BY <1>1, <1>3, <2>1, <2>3, TargetConforms DEF Conforms, RowsOf
    <3>2. m \in TableNamed(c, c.tables[t].ref)
      <4>1. m # None
        BY <2>1, <3>1, TargetMeaning
      <4>2. m \in TablesOf(c) /\ c.tables[m].id = c.tables[t].ref
        BY <1>1, <4>1, IdentityIs
      <4> QED
        BY <4>2 DEF TableNamed
    <3>3. PICK q \in Rows : c.rows[q] # None /\ c.rows[q].table = m /\ c.rows[q].id = c.rows[r].ref
      BY <1>3, <2>3, TargetReferences
    <3> QED
      BY <3>1, <3>2, <3>3 DEF Admits, RowsOf
  <2> QED
    BY <2>2, <2>3
<1>4. TableIdCollisions(p, c, Units(p.snapshot) \ p.applied) = {}
  BY FindingsAre DEF IsClear, FindingsOf
<1>5. \A t, u \in TablesOf(c) : c.tables[t].id = c.tables[u].id => t = u
  BY <1>1, <1>4, TargetTableIds
<1>6. \A r, o \in Rows : /\ c.rows[r] # None /\ c.rows[o] # None
                         /\ c.rows[r].table = c.rows[o].table /\ c.rows[r].id = c.rows[o].id
                         => r = o
  BY TargetRowIds
<1>7. \A r \in Rows : c.rows[r] # None => c.rows[r].table \in TablesOf(c)
  BY <1>1, TargetRowTable
<1> QED
  <2> HIDE DEF c
  <2> QED
    BY <1>1, <1>2, <1>3, <1>5, <1>6, <1>7, HoldsIf DEF c

-----------------------------------------------------------------------------
(* The edits of a draft. *)

\* What makes a good snapshot of a head, a draft and what it recorded.
LEMMA GoodSnapshotIs ==
  ASSUME NEW h, NEW d, NEW rec
  PROVE  [head |-> h, draft |-> d, recorded |-> rec] \in GoodSnapshots <=>
           /\ h \in Content /\ Conforms(h) /\ HoldsTogether(h)
           /\ d \in Content /\ Conforms(d) /\ HoldsTogether(d)
           /\ rec \in [Tables -> SUBSET Recording]
           /\ \A r \in Rows : h.rows[r] # None /\ d.rows[r] # None =>
                                h.rows[r].table = d.rows[r].table
           /\ \A t \in Tables : rec[t] # {} => t \in TablesOf(h) /\ t \in TablesOf(d)
BY DEF GoodSnapshots, Snapshots, RowsStay, OnlyHistoriesAreRecorded, OnBothSides

\* The inductive invariant says so of the state.
LEMMA IInvIs ==
  IInv <=> /\ edits \in 0..MaxEdits
           /\ head \in Content /\ Conforms(head) /\ HoldsTogether(head)
           /\ draft \in Content /\ Conforms(draft) /\ HoldsTogether(draft)
           /\ recorded \in [Tables -> SUBSET Recording]
           /\ \A r \in Rows : head.rows[r] # None /\ draft.rows[r] # None =>
                                head.rows[r].table = draft.rows[r].table
           /\ \A t \in Tables : recorded[t] # {} => t \in TablesOf(head) /\ t \in TablesOf(draft)
BY GoodSnapshotIs DEF IInv, Snapshot

\* When a reference is admitted.
LEMMA AdmitsIs ==
  ASSUME NEW c, NEW t, NEW ref
  PROVE  Admits(c, t, ref) <=>
           IF c.tables[t].ref = None THEN ref = None
           ELSE \E u \in TablesOf(c), r \in Rows :
                  /\ c.tables[u].id = c.tables[t].ref
                  /\ c.rows[r] # None /\ c.rows[r].table = u /\ c.rows[r].id = ref
BY DEF Admits, TableNamed, RowsOf

\* An edit that leaves the draft sound, and its rows in their tables.
LEMMA EditKeeps ==
  ASSUME IInv, NEW c \in Content, NEW changed, NEW what \in SUBSET Recording,
         Edit(c, changed, what), Conforms(c), HoldsTogether(c),
         \A r \in Rows : c.rows[r] # None =>
           \/ draft.rows[r] # None /\ c.rows[r].table = draft.rows[r].table
           \/ head.rows[r] = None
  PROVE  IInv'
<1>1. /\ edits' \in 0..MaxEdits
  BY IInvIs, ContentAssumption DEF Edit, ContentAssumption
<1>2. /\ recorded' \in [Tables -> SUBSET Recording]
      /\ \A t \in Tables : recorded'[t] # {} => t \in TablesOf(head) /\ t \in TablesOf(c)
  BY IInvIs DEF Edit, TablesOf
<1>3. draft' = c /\ head' = head
  BY DEF Edit
<1>4. \A r \in Rows : head.rows[r] # None /\ c.rows[r] # None => head.rows[r].table = c.rows[r].table
  BY IInvIs
<1>5. [head |-> head', draft |-> draft', recorded |-> recorded'] \in GoodSnapshots
  BY <1>2, <1>3, <1>4, IInvIs, GoodSnapshotIs
<1> QED
  BY <1>1, <1>5 DEF IInv, Snapshot

\* A new table has no rows, and its foreign key names a table.
LEMMA CreateTableKeeps ==
  ASSUME IInv, NEW t \in Tables, NEW id \in TableIds, NEW ref \in TableIds \cup {None},
         CreateTable(t, id, ref)
  PROVE  IInv'
<1> DEFINE x == [id |-> id, ref |-> ref]
           c == [draft EXCEPT !.tables[t] = x]
<1>1. /\ draft \in Content /\ Conforms(draft) /\ HoldsTogether(draft)
      /\ head \in Content /\ HoldsTogether(head)
  BY IInvIs
<1>2. x \in TableRecord /\ x # None
  BY Absent DEF TableRecord
<1>3. /\ c \in Content /\ c.rows = draft.rows
      /\ c.tables = [draft.tables EXCEPT ![t] = x]
  BY <1>1, <1>2 DEF Content
<1> HIDE DEF x, c
<1>4. /\ t \notin TablesOf(draft) /\ \A u \in TablesOf(draft) : draft.tables[u].id # id
      /\ \/ ref \in {None, id}
         \/ \E u \in TablesOf(draft) : draft.tables[u].id = ref
  BY DEF CreateTable, IsKnown, TableNamed
<1>5. /\ TablesOf(c) = TablesOf(draft) \cup {t}
      /\ \A u \in TablesOf(draft) : c.tables[u] = draft.tables[u]
      /\ c.tables[t] = x
  BY <1>1, <1>2, <1>3, <1>4 DEF TablesOf, Content
<1>6. \A r \in Rows : draft.rows[r] # None => draft.rows[r].table \in TablesOf(draft)
  BY <1>1, WhatHolds
<1>7. Conforms(c)
  BY <1>1, <1>3, <1>4, <1>5, <1>6 DEF Conforms, RowsOf
<1>8. HoldsTogether(c)
  <2>1. \A u, v \in TablesOf(c) : c.tables[u].id = c.tables[v].id => u = v
    BY <1>1, <1>4, <1>5, WhatHolds DEF x
  <2>2. \A u \in TablesOf(c) : c.tables[u].ref # None =>
          \E v \in TablesOf(c) : c.tables[v].id = c.tables[u].ref
    BY <1>1, <1>4, <1>5, WhatHolds DEF x
  <2>3. \A r \in Rows : c.rows[r] # None /\ c.rows[r].ref # Blank =>
          Admits(c, c.rows[r].table, c.rows[r].ref)
    <3> SUFFICES ASSUME NEW r \in Rows, draft.rows[r] # None, draft.rows[r].ref # Blank
                 PROVE  Admits(c, draft.rows[r].table, draft.rows[r].ref)
      BY <1>3
    <3> DEFINE u == draft.rows[r].table
    <3>1. Admits(draft, u, draft.rows[r].ref) /\ u \in TablesOf(draft)
      BY <1>1, WhatHolds
    <3>2. CASE draft.tables[u].ref = None
      BY <1>5, <3>1, <3>2, AdmitsIs
    <3>3. CASE draft.tables[u].ref # None
      <4>1. PICK v \in TablesOf(draft), q \in Rows :
              /\ draft.tables[v].id = draft.tables[u].ref
              /\ draft.rows[q] # None /\ draft.rows[q].table = v
              /\ draft.rows[q].id = draft.rows[r].ref
        BY <3>1, <3>3, AdmitsIs
      <4>2. v \in TablesOf(c) /\ c.tables[v].id = c.tables[u].ref /\ c.tables[u].ref # None
        BY <1>5, <3>1, <3>3, <4>1
      <4> QED
        BY <1>3, <4>1, <4>2, AdmitsIs
    <3> QED
      BY <3>2, <3>3
  <2>4. \A r \in Rows : c.rows[r] # None => c.rows[r].table \in TablesOf(c)
    BY <1>3, <1>5, <1>6
  <2>5. \A r, o \in Rows :
          /\ c.rows[r] # None /\ c.rows[o] # None
          /\ c.rows[r].table = c.rows[o].table /\ c.rows[r].id = c.rows[o].id
          => r = o
    BY <1>1, <1>3, WhatHolds
  <2> QED
    BY <1>3, <2>1, <2>2, <2>3, <2>4, <2>5, HoldsIf
<1>9. Edit(c, {}, {}) 
  BY DEF CreateTable, c, x
<1> QED
  BY <1>3, <1>7, <1>8, <1>9, EditKeeps

\* What refers to the table by its old id is rewritten to the new one.
LEMMA RenameTableKeeps ==
  ASSUME IInv, NEW t \in Tables, NEW id \in TableIds, RenameTable(t, id)
  PROVE  IInv'
<1> DEFINE old == draft.tables[t].id
           referrers == Referrers(draft, old)
           renamed == [draft.tables EXCEPT ![t].id = id]
           c == [draft EXCEPT !.tables = WithLinkedSchemas(renamed, referrers, id)]
<1>1. /\ draft \in Content /\ Conforms(draft) /\ HoldsTogether(draft)
      /\ t \in TablesOf(draft)
      /\ \A u \in TablesOf(draft) : draft.tables[u].id # id
  BY IInvIs DEF RenameTable, TableNamed
<1>2. /\ c.rows = draft.rows
      /\ c.tables = WithLinkedSchemas(renamed, referrers, id)
      /\ c = [tables |-> c.tables, rows |-> c.rows]
  BY <1>1 DEF Content
<1>3. \A u \in Tables : renamed[u] = IF u = t THEN [draft.tables[t] EXCEPT !.id = id]
                                              ELSE draft.tables[u]
  BY <1>1 DEF Content
<1>4. \A u \in Tables : c.tables[u] = IF u \in referrers THEN [renamed[u] EXCEPT !.ref = id]
                                      ELSE renamed[u]
  BY <1>2 DEF WithLinkedSchemas
<1>5. \A u \in TablesOf(draft) :
        /\ c.tables[u] \in TableRecord
        /\ c.tables[u].id = IF u = t THEN id ELSE draft.tables[u].id
        /\ c.tables[u].ref = IF draft.tables[u].ref = old THEN id ELSE draft.tables[u].ref
  <2> TAKE u \in TablesOf(draft)
  <2>1. u \in Tables /\ draft.tables[u] \in TableRecord
    BY <1>1, ContentIs
  <2>2. u \in referrers <=> draft.tables[u].ref = old
    BY DEF Referrers
  <2> HIDE DEF referrers, old, renamed, c
  <2>3. draft.tables[u] = [id |-> draft.tables[u].id, ref |-> draft.tables[u].ref]
    BY <2>1 DEF TableRecord
  <2>4. renamed[u] = [id |-> IF u = t THEN id ELSE draft.tables[u].id, ref |-> draft.tables[u].ref]
    BY <1>3, <2>1, <2>3
  <2>5. c.tables[u] = [id |-> IF u = t THEN id ELSE draft.tables[u].id,
                       ref |-> IF draft.tables[u].ref = old THEN id ELSE draft.tables[u].ref]
    <3>1. CASE draft.tables[u].ref = old
      BY <1>4, <2>1, <2>2, <2>4, <3>1
    <3>2. CASE draft.tables[u].ref # old
      BY <1>4, <2>1, <2>2, <2>4, <3>2
    <3> QED
      BY <3>1, <3>2
  <2> QED
    BY <2>1, <2>5 DEF TableRecord
<1>6. \A u \in Tables \ TablesOf(draft) : c.tables[u] = None
  BY <1>1, <1>3, <1>4 DEF Referrers, TablesOf
<1>7. c.tables = [u \in Tables |-> c.tables[u]]
  BY <1>2 DEF WithLinkedSchemas
<1>8. c \in Content
  <2>1. c.tables \in [Tables -> TableRecord \cup {None}]
    BY <1>5, <1>6, <1>7
  <2>2. c.rows \in [Rows -> RowRecord \cup {None}]
    BY <1>1, <1>2 DEF Content
  <2> QED
    BY <1>2, <2>1, <2>2, IsContent
<1>9. TablesOf(c) = TablesOf(draft)
  BY <1>5, <1>6, Absent DEF TablesOf
<1>10. Edit(c, {t} \cup referrers, {"structure"})
  BY DEF RenameTable
<1>11. /\ old \in TableIds /\ id # None /\ old # None
  BY <1>1, ContentIs, Absent
<1> HIDE DEF c, renamed, referrers, old
<1>12. \A r \in Rows : draft.rows[r] # None => draft.rows[r].table \in TablesOf(draft)
  BY <1>1, WhatHolds
<1>13. Conforms(c)
  BY <1>1, <1>2, <1>5, <1>9, <1>11, <1>12 DEF Conforms, RowsOf
<1>14. \A u, v \in TablesOf(draft) :
         draft.tables[u].id = draft.tables[v].ref <=> c.tables[u].id = c.tables[v].ref
  <2>1. \A u \in TablesOf(draft) : draft.tables[u].id = old <=> u = t
    BY <1>1, WhatHolds DEF old
  <2>2. \A u \in TablesOf(draft) : draft.tables[u].ref # id
    BY <1>1, <1>11, WhatHolds
  <2> QED
    BY <1>1, <1>5, <2>1, <2>2
<1>15. HoldsTogether(c)
  <2>1. \A u, v \in TablesOf(c) : c.tables[u].id = c.tables[v].id => u = v
    BY <1>1, <1>5, <1>9, WhatHolds
  <2>2. \A u \in TablesOf(c) : c.tables[u].ref # None =>
          \E v \in TablesOf(c) : c.tables[v].id = c.tables[u].ref
    BY <1>1, <1>5, <1>9, <1>11, <1>14, WhatHolds
  <2>3. \A r \in Rows : c.rows[r] # None /\ c.rows[r].ref # Blank =>
          Admits(c, c.rows[r].table, c.rows[r].ref)
    <3> SUFFICES ASSUME NEW r \in Rows, draft.rows[r] # None, draft.rows[r].ref # Blank
                 PROVE  Admits(c, draft.rows[r].table, draft.rows[r].ref)
      BY <1>2
    <3>1. Admits(draft, draft.rows[r].table, draft.rows[r].ref)
      BY <1>1, WhatHolds
    <3> QED
      BY <1>2, <1>5, <1>9, <1>11, <1>12, <1>14, <3>1, AdmitsIs
  <2> QED
    BY <1>1, <1>2, <1>8, <1>9, <1>12, <2>1, <2>2, <2>3, WhatHolds, HoldsIf
<1> QED
  BY <1>2, <1>8, <1>10, <1>13, <1>15, EditKeeps DEF Recording

\* A table goes with its rows, when no other table refers to it.
LEMMA RemoveTableKeeps ==
  ASSUME IInv, NEW t \in Tables, RemoveTable(t)
  PROVE  IInv'
<1> DEFINE c == [tables |-> [draft.tables EXCEPT ![t] = None],
                 rows |-> WithoutRows(RowsOf(draft, t))]
<1>1. /\ draft \in Content /\ Conforms(draft) /\ HoldsTogether(draft)
      /\ t \in TablesOf(draft)
      /\ \A u \in TablesOf(draft) : draft.tables[u].ref = draft.tables[t].id => u = t
  BY IInvIs DEF RemoveTable, Referrers
<1>2. /\ \A u \in Tables : c.tables[u] = IF u = t THEN None ELSE draft.tables[u]
      /\ \A r \in Rows : c.rows[r] = IF draft.rows[r] # None /\ draft.rows[r].table = t
                                     THEN None ELSE draft.rows[r]
  BY <1>1 DEF Content, WithoutRows, RowsOf
<1>3. c \in Content
  BY <1>1 DEF Content, WithoutRows
<1>4. Edit(c, {}, {})
  BY DEF RemoveTable
<1> HIDE DEF c
<1>5. /\ TablesOf(c) = TablesOf(draft) \ {t}
      /\ \A u \in TablesOf(c) : c.tables[u] = draft.tables[u]
  BY <1>2 DEF TablesOf
<1>6. \A r \in Rows : c.rows[r] # None =>
        /\ c.rows[r] = draft.rows[r] /\ c.rows[r].table \in TablesOf(c)
  BY <1>1, <1>2, <1>5, WhatHolds
<1>7. Conforms(c)
  BY <1>1, <1>2, <1>5, <1>6 DEF Conforms, RowsOf
<1>8. HoldsTogether(c)
  <2>1. \A u, v \in TablesOf(c) : c.tables[u].id = c.tables[v].id => u = v
    BY <1>1, <1>2, <1>5, WhatHolds DEF TablesOf
  <2>2. \A u \in TablesOf(c) : c.tables[u].ref # None =>
          \E v \in TablesOf(c) : c.tables[v].id = c.tables[u].ref
    BY <1>1, <1>2, <1>5, WhatHolds DEF TablesOf
  <2>3. \A r \in Rows : c.rows[r] # None /\ c.rows[r].ref # Blank =>
          Admits(c, c.rows[r].table, c.rows[r].ref)
    <3> SUFFICES ASSUME NEW r \in Rows, c.rows[r] # None, c.rows[r].ref # Blank
                 PROVE  Admits(c, c.rows[r].table, c.rows[r].ref)
      OBVIOUS
    <3> DEFINE u == c.rows[r].table
    <3>1. /\ c.rows[r] = draft.rows[r] /\ Admits(draft, u, draft.rows[r].ref)
          /\ u \in TablesOf(c) /\ u \in TablesOf(draft) /\ c.tables[u] = draft.tables[u]
      BY <1>1, <1>2, <1>5, <1>6, WhatHolds DEF TablesOf
    <3>2. CASE draft.tables[u].ref = None
      BY <3>1, <3>2, AdmitsIs
    <3>3. CASE draft.tables[u].ref # None
      <4>1. PICK v \in TablesOf(draft), q \in Rows :
              /\ draft.tables[v].id = draft.tables[u].ref
              /\ draft.rows[q] # None /\ draft.rows[q].table = v
              /\ draft.rows[q].id = draft.rows[r].ref
        BY <3>1, <3>3, AdmitsIs
      <4>2. v \in TablesOf(c) /\ c.tables[v] = draft.tables[v] /\ c.rows[q] = draft.rows[q]
        BY <1>1, <1>2, <1>5, <3>1, <4>1 DEF TablesOf
      <4> QED
        BY <3>1, <3>3, <4>1, <4>2, AdmitsIs
    <3> QED
      BY <3>2, <3>3
  <2>4. \A r, o \in Rows :
          /\ c.rows[r] # None /\ c.rows[o] # None
          /\ c.rows[r].table = c.rows[o].table /\ c.rows[r].id = c.rows[o].id
          => r = o
    BY <1>1, <1>6, WhatHolds
  <2> QED
    BY <1>3, <1>6, <2>1, <2>2, <2>3, <2>4, HoldsIf
<1> QED
  BY <1>3, <1>4, <1>6, <1>7, <1>8, EditKeeps

\* Rows get the default of a field that is added, and lose a field that is removed.
LEMMA UpdateTableKeeps ==
  ASSUME IInv, NEW t \in Tables, NEW ref \in TableIds \cup {None}, UpdateTable(t, ref)
  PROVE  IInv'
<1> DEFINE x == [draft.tables[t] EXCEPT !.ref = ref]
           value == IF ref = None THEN None ELSE Blank
           c == [tables |-> [draft.tables EXCEPT ![t].ref = ref], rows |-> MigratedRows(t, ref)]
<1>1. /\ draft \in Content /\ Conforms(draft) /\ HoldsTogether(draft)
      /\ t \in TablesOf(draft)
      /\ \/ ref \in {None, draft.tables[t].id}
         \/ \E u \in TablesOf(draft) : draft.tables[u].id = ref
  BY IInvIs DEF UpdateTable, IsKnown, TableNamed
<1>2. draft.tables[t] \in TableRecord
  BY <1>1, ContentIs
<1>3. /\ x \in TableRecord /\ x.id = draft.tables[t].id /\ x.ref = ref
  BY <1>2 DEF TableRecord
<1>4. c.tables = [draft.tables EXCEPT ![t] = x] 
  OBVIOUS
<1>5. \A r \in Rows : c.rows[r] = IF draft.rows[r] # None /\ draft.rows[r].table = t
                                  THEN [draft.rows[r] EXCEPT !.ref = value] ELSE draft.rows[r]
  BY DEF MigratedRows, RowsOf
<1>6. \A r \in Rows : draft.rows[r] # None =>
        /\ c.rows[r] \in RowRecord /\ c.rows[r] # None
        /\ c.rows[r].table = draft.rows[r].table /\ c.rows[r].id = draft.rows[r].id
        /\ c.rows[r].ref = IF draft.rows[r].table = t THEN value ELSE draft.rows[r].ref
  <2> TAKE r \in Rows
  <2> HAVE draft.rows[r] # None
  <2>1. draft.rows[r] \in RowRecord
    BY <1>1, ContentIs
  <2>2. value \in RowIds \cup {Blank, None}
    OBVIOUS
  <2> HIDE DEF value, c
  <2>3. CASE draft.rows[r].table = t
    BY <1>5, <2>1, <2>2, <2>3, Absent DEF RowRecord
  <2>4. CASE draft.rows[r].table # t
    BY <1>5, <2>1, <2>4
  <2> QED
    BY <2>3, <2>4
<1>7. Edit(c, {t}, Recording)
  BY DEF UpdateTable
<1>8. c = [tables |-> c.tables, rows |-> c.rows] /\ c.rows = [r \in Rows |-> c.rows[r]]
  BY DEF MigratedRows
<1> HIDE DEF x, value, c
<1>9. c.tables \in [Tables -> TableRecord \cup {None}]
  BY <1>1, <1>3, <1>4 DEF Content
<1>10. \A r \in Rows : draft.rows[r] = None => c.rows[r] = None
  BY <1>5
<1>11. c \in Content
  <2>1. c.rows \in [Rows -> RowRecord \cup {None}]
    BY <1>6, <1>8, <1>10
  <2> QED
    BY <1>8, <1>9, <2>1, IsContent
<1>12. /\ TablesOf(c) = TablesOf(draft)
       /\ \A u \in TablesOf(draft) :
            /\ c.tables[u].id = draft.tables[u].id
            /\ c.tables[u].ref = IF u = t THEN ref ELSE draft.tables[u].ref
  BY <1>1, <1>3, <1>4, Absent DEF TablesOf, Content
<1>13. \A r \in Rows : c.rows[r] # None =>
         /\ draft.rows[r] # None /\ c.rows[r].table = draft.rows[r].table
         /\ c.rows[r].table \in TablesOf(c)
  BY <1>1, <1>6, <1>10, <1>12, WhatHolds
<1>14. Conforms(c)
  <2>1. value = None <=> ref = None
    BY Absent DEF value
  <2> QED
    BY <1>1, <1>6, <1>12, <1>13, <2>1 DEF Conforms, RowsOf
<1>15. HoldsTogether(c)
  <2>1. \A u, v \in TablesOf(c) : c.tables[u].id = c.tables[v].id => u = v
    BY <1>1, <1>12, WhatHolds
  <2>2. \A u \in TablesOf(c) : c.tables[u].ref # None =>
          \E v \in TablesOf(c) : c.tables[v].id = c.tables[u].ref
    BY <1>1, <1>12, WhatHolds
  <2>3. \A r \in Rows : c.rows[r] # None /\ c.rows[r].ref # Blank =>
          Admits(c, c.rows[r].table, c.rows[r].ref)
    <3> SUFFICES ASSUME NEW r \in Rows, c.rows[r] # None, c.rows[r].ref # Blank
                 PROVE  Admits(c, c.rows[r].table, c.rows[r].ref)
      OBVIOUS
    <3> DEFINE u == c.rows[r].table
    <3>1. draft.rows[r] # None /\ u = draft.rows[r].table /\ u \in TablesOf(draft)
      BY <1>12, <1>13
    <3>2. CASE u = t
      BY <1>1, <1>6, <1>12, <3>1, <3>2, AdmitsIs DEF value
    <3>3. CASE u # t
      <4>1. /\ c.rows[r].ref = draft.rows[r].ref
            /\ Admits(draft, u, draft.rows[r].ref) /\ c.tables[u].ref = draft.tables[u].ref
        BY <1>1, <1>6, <1>12, <3>1, <3>3, WhatHolds
      <4>2. CASE draft.tables[u].ref = None
        BY <4>1, <4>2, AdmitsIs
      <4>3. CASE draft.tables[u].ref # None
        <5>1. PICK v \in TablesOf(draft), q \in Rows :
                /\ draft.tables[v].id = draft.tables[u].ref
                /\ draft.rows[q] # None /\ draft.rows[q].table = v
                /\ draft.rows[q].id = draft.rows[r].ref
          BY <4>1, <4>3, AdmitsIs
        <5>2. /\ v \in TablesOf(c) /\ c.tables[v].id = draft.tables[v].id
              /\ c.rows[q] # None /\ c.rows[q].table = v /\ c.rows[q].id = draft.rows[q].id
          BY <1>6, <1>12, <5>1
        <5> QED
          BY <4>1, <4>3, <5>1, <5>2, AdmitsIs
      <4> QED
        BY <4>2, <4>3
    <3> QED
      BY <3>2, <3>3
  <2>4. \A r, o \in Rows :
          /\ c.rows[r] # None /\ c.rows[o] # None
          /\ c.rows[r].table = c.rows[o].table /\ c.rows[r].id = c.rows[o].id
          => r = o
    BY <1>1, <1>6, <1>13, WhatHolds
  <2> QED
    BY <1>11, <1>13, <2>1, <2>2, <2>3, <2>4, HoldsIf
<1> QED
  BY <1>7, <1>11, <1>13, <1>14, <1>15, EditKeeps DEF Recording

\* An edit of rows only: the ids stay unique, and what refers to a row still does.
LEMMA RowEditKeeps ==
  ASSUME IInv, NEW c \in Content, c.tables = draft.tables, Edit(c, {}, {}),
         \A r \in Rows : c.rows[r] # None =>
           /\ \/ draft.rows[r] # None /\ c.rows[r].table = draft.rows[r].table
              \/ head.rows[r] = None
           /\ c.rows[r].table \in TablesOf(draft)
           /\ \/ c.rows[r].ref = Blank /\ draft.tables[c.rows[r].table].ref # None
              \/ Admits(c, c.rows[r].table, c.rows[r].ref),
         \A r, o \in Rows :
           /\ c.rows[r] # None /\ c.rows[o] # None
           /\ c.rows[r].table = c.rows[o].table /\ c.rows[r].id = c.rows[o].id
           => r = o
  PROVE  IInv'
<1>1. draft \in Content /\ Conforms(draft) /\ HoldsTogether(draft)
  BY IInvIs
<1>2. TablesOf(c) = TablesOf(draft)
  BY DEF TablesOf
<1>3. ASSUME NEW r \in Rows, c.rows[r] # None
      PROVE  c.rows[r].ref = None <=> c.tables[c.rows[r].table].ref = None
  <2>1. CASE c.rows[r].ref = Blank /\ draft.tables[c.rows[r].table].ref # None
    BY <2>1, Absent
  <2>2. CASE Admits(c, c.rows[r].table, c.rows[r].ref)
    <3>1. \A q \in Rows : c.rows[q] # None => c.rows[q].id # None
      BY ContentIs, Absent
    <3> QED
      BY <2>2, <3>1, AdmitsIs
  <2> QED
    BY <1>3, <2>1, <2>2
<1>4. Conforms(c)
  BY <1>3 DEF Conforms, RowsOf
<1>5. HoldsTogether(c)
  <2>1. \A u, v \in TablesOf(c) : c.tables[u].id = c.tables[v].id => u = v
    BY <1>1, <1>2, WhatHolds
  <2>2. \A u \in TablesOf(c) : c.tables[u].ref # None =>
          \E v \in TablesOf(c) : c.tables[v].id = c.tables[u].ref
    BY <1>1, <1>2, WhatHolds
  <2> QED
    BY <1>2, <2>1, <2>2, HoldsIf
<1> QED
  BY <1>4, <1>5, EditKeeps

\* A reference of the draft that is not a default names a row of the draft.
LEMMA DraftReference ==
  ASSUME IInv, NEW r \in Rows, draft.rows[r] # None
  PROVE  LET t == draft.rows[r].table
             ref == draft.rows[r].ref
         IN  /\ t \in TablesOf(draft)
             /\ draft.tables[t].ref = None <=> ref = None
             /\ ref # Blank /\ ref # None =>
                  \E u \in TablesOf(draft), q \in Rows :
                    /\ draft.tables[u].id = draft.tables[t].ref
                    /\ draft.rows[q] # None /\ draft.rows[q].table = u
                    /\ draft.rows[q].id = ref
<1> DEFINE t == draft.rows[r].table
           ref == draft.rows[r].ref
<1>1. draft \in Content /\ Conforms(draft) /\ HoldsTogether(draft)
  BY IInvIs
<1>2. t \in TablesOf(draft) /\ (ref # Blank => Admits(draft, t, ref))
  BY <1>1, WhatHolds
<1>3. draft.tables[t].ref = None <=> ref = None
  BY <1>1, <1>2 DEF Conforms, RowsOf
<1> QED
  BY <1>2, <1>3, AdmitsIs

\* A new row has an id of its own in its table, and a reference that is admitted.
LEMMA CreateRowKeeps ==
  ASSUME IInv, NEW r \in Rows, NEW t \in Tables, NEW id \in RowIds, NEW val \in Values,
         NEW ref \in RowIds \cup {None}, CreateRow(r, t, id, val, ref)
  PROVE  IInv'
<1> DEFINE x == [table |-> t, id |-> id, val |-> val, ref |-> ref]
           c == [draft EXCEPT !.rows[r] = x]
<1>1. /\ draft \in Content /\ HoldsTogether(draft) /\ t \in TablesOf(draft)
      /\ draft.rows[r] = None /\ head.rows[r] = None
      /\ \A o \in Rows : draft.rows[o] # None /\ draft.rows[o].table = t => draft.rows[o].id # id
      /\ Admits(draft, t, ref)
  BY IInvIs DEF CreateRow, RowsOf
<1>2. x \in RowRecord /\ x # None
  BY Absent DEF RowRecord
<1>3. /\ c \in Content /\ c.tables = draft.tables
      /\ \A o \in Rows : c.rows[o] = IF o = r THEN x ELSE draft.rows[o]
  BY <1>1, <1>2 DEF Content
<1>4. Edit(c, {}, {})
  BY DEF CreateRow
<1> HIDE DEF c
<1>5. TablesOf(c) = TablesOf(draft)
  BY <1>3 DEF TablesOf
<1>6. ASSUME NEW u, NEW value, Admits(draft, u, value)
      PROVE  Admits(c, u, value)
  <2>1. CASE draft.tables[u].ref = None
    BY <1>3, <1>6, <2>1, AdmitsIs
  <2>2. CASE draft.tables[u].ref # None
    <3>1. PICK v \in TablesOf(draft), q \in Rows :
            /\ draft.tables[v].id = draft.tables[u].ref
            /\ draft.rows[q] # None /\ draft.rows[q].table = v /\ draft.rows[q].id = value
      BY <1>6, <2>2, AdmitsIs
    <3> QED
      BY <1>1, <1>3, <1>5, <2>2, <3>1, AdmitsIs
  <2> QED
    BY <2>1, <2>2
<1>7. \A o \in Rows : draft.rows[o] # None =>
        /\ draft.rows[o].table \in TablesOf(draft)
        /\ \/ draft.rows[o].ref = Blank /\ draft.tables[draft.rows[o].table].ref # None
           \/ Admits(draft, draft.rows[o].table, draft.rows[o].ref)
  BY <1>1, WhatHolds, DraftReference, Absent
<1>8. \A o \in Rows : c.rows[o] # None =>
        /\ \/ draft.rows[o] # None /\ c.rows[o].table = draft.rows[o].table
           \/ head.rows[o] = None
        /\ c.rows[o].table \in TablesOf(draft)
        /\ \/ c.rows[o].ref = Blank /\ draft.tables[c.rows[o].table].ref # None
           \/ Admits(c, c.rows[o].table, c.rows[o].ref)
  BY <1>1, <1>3, <1>6, <1>7
<1>9. \A q, o \in Rows :
        /\ c.rows[q] # None /\ c.rows[o] # None
        /\ c.rows[q].table = c.rows[o].table /\ c.rows[q].id = c.rows[o].id
        => q = o
  BY <1>1, <1>3, WhatHolds
<1> QED
  BY <1>3, <1>4, <1>8, <1>9, RowEditKeeps

\* A row keeps its id, and its new reference is admitted.
LEMMA UpdateRowKeeps ==
  ASSUME IInv, NEW r \in Rows, NEW val \in Values, NEW ref \in RowIds \cup {None},
         UpdateRow(r, val, ref)
  PROVE  IInv'
<1> DEFINE x == [draft.rows[r] EXCEPT !.val = val, !.ref = ref]
           c == [draft EXCEPT !.rows[r] = [@ EXCEPT !.val = val, !.ref = ref]]
<1>1. /\ draft \in Content /\ HoldsTogether(draft) /\ draft.rows[r] # None
      /\ Admits(draft, draft.rows[r].table, ref)
  BY IInvIs DEF UpdateRow
<1>2. draft.rows[r] \in RowRecord
  BY <1>1, ContentIs
<1>3. /\ x \in RowRecord /\ x # None /\ x.table = draft.rows[r].table
      /\ x.id = draft.rows[r].id /\ x.ref = ref
  <2>1. x \in RowRecord /\ x.table = draft.rows[r].table /\ x.id = draft.rows[r].id /\ x.ref = ref
    BY <1>2 DEF RowRecord
  <2> QED
    BY <2>1, Absent
<1>4. /\ c.tables = draft.tables
      /\ \A o \in Rows : c.rows[o] = IF o = r THEN x ELSE draft.rows[o]
  BY <1>1 DEF Content
<1>5. c \in Content
  <2>1. c = [tables |-> draft.tables, rows |-> [draft.rows EXCEPT ![r] = x]]
    BY <1>1 DEF Content
  <2> HIDE DEF c, x
  <2> QED
    BY <1>1, <1>3, <2>1 DEF Content
<1>6. Edit(c, {}, {})
  BY DEF UpdateRow
<1> HIDE DEF c, x
<1>7. TablesOf(c) = TablesOf(draft)
  BY <1>4 DEF TablesOf
<1>8. ASSUME NEW u, NEW value, Admits(draft, u, value)
      PROVE  Admits(c, u, value)
  <2>1. CASE draft.tables[u].ref = None
    BY <1>4, <1>8, <2>1, AdmitsIs
  <2>2. CASE draft.tables[u].ref # None
    <3>1. PICK v \in TablesOf(draft), q \in Rows :
            /\ draft.tables[v].id = draft.tables[u].ref
            /\ draft.rows[q] # None /\ draft.rows[q].table = v /\ draft.rows[q].id = value
      BY <1>8, <2>2, AdmitsIs
    <3>2. c.rows[q] # None /\ c.rows[q].table = v /\ c.rows[q].id = value
      BY <1>3, <1>4, <3>1
    <3> QED
      BY <1>4, <1>7, <2>2, <3>1, <3>2, AdmitsIs
  <2> QED
    BY <2>1, <2>2
<1>9. \A o \in Rows : draft.rows[o] # None =>
        /\ draft.rows[o].table \in TablesOf(draft)
        /\ \/ draft.rows[o].ref = Blank /\ draft.tables[draft.rows[o].table].ref # None
           \/ Admits(draft, draft.rows[o].table, draft.rows[o].ref)
  BY <1>1, WhatHolds, DraftReference, Absent
<1>10. \A o \in Rows : c.rows[o] # None =>
         /\ \/ draft.rows[o] # None /\ c.rows[o].table = draft.rows[o].table
            \/ head.rows[o] = None
         /\ c.rows[o].table \in TablesOf(draft)
         /\ \/ c.rows[o].ref = Blank /\ draft.tables[c.rows[o].table].ref # None
            \/ Admits(c, c.rows[o].table, c.rows[o].ref)
  BY <1>1, <1>3, <1>4, <1>8, <1>9
<1>11. \A q, o \in Rows :
         /\ c.rows[q] # None /\ c.rows[o] # None
         /\ c.rows[q].table = c.rows[o].table /\ c.rows[q].id = c.rows[o].id
         => q = o
  BY <1>1, <1>3, <1>4, WhatHolds
<1> QED
  BY <1>4, <1>5, <1>6, <1>10, <1>11, RowEditKeeps

\* What refers to the row by its old id is rewritten to the new one.
LEMMA RenameRowKeeps ==
  ASSUME IInv, NEW r \in Rows, NEW id \in RowIds, RenameRow(r, id)
  PROVE  IInv'
<1> DEFINE t == draft.rows[r].table
           old == draft.rows[r].id
           renamed == [draft.rows EXCEPT ![r].id = id]
           referring == ReferringRows(draft, draft.tables[t].id, {old})
           c == [draft EXCEPT !.rows = WithForeignKeys(renamed, referring, id)]
<1>1. /\ draft \in Content /\ HoldsTogether(draft) /\ draft.rows[r] # None
      /\ \A o \in Rows : draft.rows[o] # None /\ draft.rows[o].table = t => draft.rows[o].id # id
  BY IInvIs DEF RenameRow, RowsOf
<1>2. old \in RowIds /\ old # Blank /\ old # None /\ id # None /\ id # Blank
  BY <1>1, ContentIs, Absent
<1>3. /\ c.tables = draft.tables
      /\ c.rows = WithForeignKeys(renamed, referring, id)
      /\ c = [tables |-> c.tables, rows |-> c.rows]
  BY <1>1 DEF Content
<1>4. \A o \in Rows : renamed[o] = IF o = r THEN [draft.rows[r] EXCEPT !.id = id]
                                            ELSE draft.rows[o]
  BY <1>1 DEF Content
<1>5. \A o \in Rows : c.rows[o] = IF o \in referring THEN [renamed[o] EXCEPT !.ref = id]
                                                     ELSE renamed[o]
  BY <1>3 DEF WithForeignKeys
<1>6. \A o \in Rows : o \in referring <=>
        /\ draft.rows[o] # None
        /\ draft.rows[o].table \in TablesOf(draft)
        /\ draft.tables[draft.rows[o].table].ref = draft.tables[t].id
        /\ draft.rows[o].ref = old
  BY DEF ReferringRows, Referrers
<1>7. Edit(c, {}, {}) 
  BY DEF RenameRow
<1> HIDE DEF c, renamed, referring, old, t
<1>8. c.rows = [o \in Rows |-> c.rows[o]]
  BY <1>3 DEF WithForeignKeys
<1>9. \A o \in Rows : draft.rows[o] # None =>
        /\ c.rows[o] \in RowRecord /\ c.rows[o] # None
        /\ c.rows[o].table = draft.rows[o].table
        /\ c.rows[o].id = IF o = r THEN id ELSE draft.rows[o].id
        /\ c.rows[o].ref = IF o \in referring THEN id ELSE draft.rows[o].ref
  <2> TAKE o \in Rows
  <2> HAVE draft.rows[o] # None
  <2> DEFINE d == draft.rows[o]
             x == [table |-> d.table, id |-> IF o = r THEN id ELSE d.id,
                   val |-> d.val, ref |-> IF o \in referring THEN id ELSE d.ref]
  <2>1. d \in RowRecord
    BY <1>1, ContentIs
  <2>2. d = [table |-> d.table, id |-> d.id, val |-> d.val, ref |-> d.ref]
    BY <2>1 DEF RowRecord
  <2> HIDE DEF d
  <2>3. renamed[o] = [table |-> d.table, id |-> IF o = r THEN id ELSE d.id,
                      val |-> d.val, ref |-> d.ref]
    BY <1>4, <2>2 DEF d
  <2>4. c.rows[o] = x
    <3>1. CASE o \in referring
      BY <1>5, <2>3, <3>1
    <3>2. CASE o \notin referring
      BY <1>5, <2>3, <3>2
    <3> QED
      BY <3>1, <3>2
  <2>5. x \in RowRecord
    BY <1>2, <2>1 DEF RowRecord
  <2> QED
    BY <2>4, <2>5, Absent DEF d
<1>10. \A o \in Rows : draft.rows[o] = None => c.rows[o] = None
  BY <1>1, <1>4, <1>5, <1>6
<1>11. c \in Content
  <2>1. c.tables \in [Tables -> TableRecord \cup {None}]
    BY <1>1, <1>3 DEF Content
  <2>2. c.rows \in [Rows -> RowRecord \cup {None}]
    BY <1>8, <1>9, <1>10
  <2> QED
    BY <1>3, <2>1, <2>2, IsContent
<1>12. TablesOf(c) = TablesOf(draft)
  BY <1>3 DEF TablesOf
<1>13. \A o \in Rows : c.rows[o] # None =>
         /\ draft.rows[o] # None /\ c.rows[o].table = draft.rows[o].table
         /\ c.rows[o].table \in TablesOf(draft)
  BY <1>1, <1>9, <1>10, WhatHolds
<1>14. ASSUME NEW o \in Rows, c.rows[o] # None
       PROVE  \/ c.rows[o].ref = Blank /\ draft.tables[c.rows[o].table].ref # None
              \/ Admits(c, c.rows[o].table, c.rows[o].ref)
  <2> DEFINE u == draft.rows[o].table
             ref == draft.rows[o].ref
  <2>1. /\ draft.rows[o] # None /\ c.rows[o].table = u /\ u \in TablesOf(draft)
        /\ draft.tables[u].ref = None <=> ref = None
        /\ c.rows[o].ref = IF o \in referring THEN id ELSE ref
    BY <1>9, <1>13, <1>14, DraftReference
  <2>2. CASE o \in referring
    <3>1. draft.tables[u].ref = draft.tables[t].id /\ ref = old
      BY <1>6, <2>2
    <3>2. t \in TablesOf(c) /\ draft.tables[t].id # None
      BY <1>1, <1>12, WhatHolds, ContentIs, Absent DEF t
    <3>3. c.rows[r] # None /\ c.rows[r].table = t /\ c.rows[r].id = id
      BY <1>1, <1>9 DEF t
    <3> QED
      BY <1>3, <2>1, <2>2, <3>1, <3>2, <3>3, AdmitsIs
  <2>3. CASE o \notin referring /\ ref \in {Blank, None}
    BY <1>3, <2>1, <2>3, AdmitsIs, Absent
  <2>4. CASE o \notin referring /\ ref \notin {Blank, None}
    <3>1. PICK v \in TablesOf(draft), q \in Rows :
            /\ draft.tables[v].id = draft.tables[u].ref
            /\ draft.rows[q] # None /\ draft.rows[q].table = v /\ draft.rows[q].id = ref
      BY <2>1, <2>4, DraftReference
    <3>2. q # r
      BY <1>6, <2>1, <2>4, <3>1 DEF t, old
    <3>3. c.rows[q] # None /\ c.rows[q].table = v /\ c.rows[q].id = ref
      BY <1>9, <3>1, <3>2
    <3> QED
      BY <1>3, <1>12, <2>1, <2>4, <3>1, <3>3, AdmitsIs
  <2> QED
    BY <2>2, <2>3, <2>4
<1>15. \A q, o \in Rows :
         /\ c.rows[q] # None /\ c.rows[o] # None
         /\ c.rows[q].table = c.rows[o].table /\ c.rows[q].id = c.rows[o].id
         => q = o
  BY <1>1, <1>9, <1>13, WhatHolds DEF t
<1> QED
  BY <1>3, <1>7, <1>11, <1>13, <1>14, <1>15, RowEditKeeps

\* No row that stays refers to one that goes.
LEMMA RemoveRowsKeeps ==
  ASSUME IInv, NEW t \in Tables, NEW rows \in SUBSET Rows, RemoveRows(t, rows)
  PROVE  IInv'
<1> DEFINE ids == {draft.rows[r].id : r \in rows}
           c == [draft EXCEPT !.rows = WithoutRows(rows)]
<1>1. /\ draft \in Content /\ HoldsTogether(draft) /\ t \in TablesOf(draft)
      /\ \A r \in rows : draft.rows[r] # None /\ draft.rows[r].table = t
      /\ ReferringRows(draft, draft.tables[t].id, ids) \subseteq rows
  BY IInvIs DEF RemoveRows, RowsOf
<1>2. /\ c \in Content /\ c.tables = draft.tables
      /\ \A r \in Rows : c.rows[r] = IF r \in rows THEN None ELSE draft.rows[r]
  BY <1>1 DEF Content, WithoutRows
<1>3. Edit(c, {}, {})
  BY DEF RemoveRows
<1> HIDE DEF c
<1>4. TablesOf(c) = TablesOf(draft)
  BY <1>2 DEF TablesOf
<1>5. \A r \in Rows : c.rows[r] # None =>
        /\ draft.rows[r] # None /\ c.rows[r] = draft.rows[r] /\ r \notin rows
        /\ c.rows[r].table \in TablesOf(draft)
  BY <1>1, <1>2, WhatHolds
<1>6. ASSUME NEW o \in Rows, c.rows[o] # None
      PROVE  \/ c.rows[o].ref = Blank /\ draft.tables[c.rows[o].table].ref # None
             \/ Admits(c, c.rows[o].table, c.rows[o].ref)
  <2> DEFINE u == draft.rows[o].table
             ref == draft.rows[o].ref
  <2>1. /\ draft.rows[o] # None /\ c.rows[o].table = u /\ u \in TablesOf(draft)
        /\ draft.tables[u].ref = None <=> ref = None
        /\ c.rows[o].ref = ref /\ o \notin rows
    BY <1>5, <1>6, DraftReference
  <2>2. CASE ref \in {Blank, None}
    BY <1>2, <2>1, <2>2, AdmitsIs, Absent
  <2>3. CASE ref \notin {Blank, None}
    <3>1. PICK v \in TablesOf(draft), q \in Rows :
            /\ draft.tables[v].id = draft.tables[u].ref
            /\ draft.rows[q] # None /\ draft.rows[q].table = v /\ draft.rows[q].id = ref
      BY <2>1, <2>3, DraftReference
    <3>2. q \notin rows
      <4> SUFFICES ASSUME q \in rows
                   PROVE  FALSE
        OBVIOUS
      <4>1. v = t /\ ref \in ids
        BY <1>1, <3>1
      <4>2. o \in ReferringRows(draft, draft.tables[t].id, ids)
        BY <2>1, <3>1, <4>1 DEF ReferringRows, Referrers
      <4> QED
        BY <1>1, <2>1, <4>2
    <3> QED
      BY <1>2, <1>4, <2>1, <2>3, <3>1, <3>2, AdmitsIs
  <2> QED
    BY <2>2, <2>3
<1>7. \A q, o \in Rows :
        /\ c.rows[q] # None /\ c.rows[o] # None
        /\ c.rows[q].table = c.rows[o].table /\ c.rows[q].id = c.rows[o].id
        => q = o
  BY <1>1, <1>5, WhatHolds
<1> QED
  BY <1>2, <1>3, <1>5, <1>6, <1>7, RowEditKeeps

\* Every edit of a draft keeps the invariant.
LEMMA EditDraftKeeps ==
  ASSUME IInv, EditDraft
  PROVE  IInv'
BY CreateTableKeeps, RenameTableKeeps, RemoveTableKeeps, UpdateTableKeeps, CreateRowKeeps,
   UpdateRowKeeps, RenameRowKeeps, RemoveRowsKeeps DEF EditDraft

\* A native commit and a native revert make head and draft equal.
LEMMA CreateRevisionKeeps ==
  ASSUME IInv, CreateRevision
  PROVE  IInv'
<1>1. recorded' \in [Tables -> SUBSET Recording] /\ \A t \in Tables : recorded'[t] = {}
  BY DEF CreateRevision
<1>2. head' = draft /\ draft' = draft /\ edits' = edits
  BY DEF CreateRevision
<1>3. [head |-> head', draft |-> draft', recorded |-> recorded'] \in GoodSnapshots
  BY <1>1, <1>2, IInvIs, GoodSnapshotIs
<1> QED
  BY <1>2, <1>3, IInvIs DEF IInv, Snapshot

\* A revert of everything gives the draft the head.
LEMMA RevertChangesKeeps ==
  ASSUME IInv, RevertChanges
  PROVE  IInv'
<1>1. recorded' \in [Tables -> SUBSET Recording] /\ \A t \in Tables : recorded'[t] = {}
  BY DEF RevertChanges
<1>2. head' = head /\ draft' = head /\ edits' = edits
  BY DEF RevertChanges
<1>3. [head |-> head', draft |-> draft', recorded |-> recorded'] \in GoodSnapshots
  BY <1>1, <1>2, IInvIs, GoodSnapshotIs
<1> QED
  BY <1>2, <1>3, IInvIs DEF IInv, Snapshot

-----------------------------------------------------------------------------
(* Applying a choice. *)

\* The snapshot a plan leaves: its target on the base side, and the other side.
After(p) ==
  LET s == p.snapshot
  IN  [head |-> IF p.base = "head" THEN Target(p) ELSE s.head,
       draft |-> IF p.base = "draft" THEN Target(p) ELSE s.draft,
       recorded |-> [t \in Tables |-> IF StructureUnit(s, t) \in p.applied THEN {}
                                                                        ELSE s.recorded[t]]]

\* It is a good one.
LEMMA AfterIsGood ==
  ASSUME NEW p, IsClear(p)
  PROVE  /\ After(p) \in GoodSnapshots
         /\ After(p)[p.base] = Target(p)
         /\ After(p)[Opposite(p.base)] = p.snapshot[Opposite(p.base)]
         /\ \A t \in Tables : After(p).recorded[t] =
              IF StructureUnit(p.snapshot, t) \in p.applied THEN {} ELSE p.snapshot.recorded[t]
<1> DEFINE s == p.snapshot
           c == Target(p)
           B == p.base
           O == Opposite(p.base)
           rec == [t \in Tables |-> IF StructureUnit(s, t) \in p.applied THEN {} ELSE s.recorded[t]]
<1>1. /\ IsPlan(p) /\ s \in GoodSnapshots /\ B \in Sides /\ O \in Sides
      /\ s["head"] = s.head /\ s["draft"] = s.draft
      /\ s.recorded \in [Tables -> SUBSET Recording]
  BY GoodSide, SideIs DEF IsClear, IsPlan, GoodSnapshots, Snapshots
<1>2. c \in Content /\ Conforms(c) /\ HoldsTogether(c)
  BY <1>1, TargetIsContent, TargetConforms, TargetHolds
<1>3. \A r \in Rows : c.rows[r] # None /\ s[O].rows[r] # None =>
                        c.rows[r].table = s[O].rows[r].table
  BY <1>1, TargetRowParts, RowsBySide
<1>4. rec \in [Tables -> SUBSET Recording]
  BY <1>1
<1>5. \A t \in Tables : rec[t] # {} => t \in TablesOf(c) /\ t \in TablesOf(s[O])
  <2> SUFFICES ASSUME NEW t \in Tables, rec[t] # {}
               PROVE  t \in TablesOf(c) /\ t \in TablesOf(s[O])
    OBVIOUS
  <2>1. s.recorded[t] # {}
    OBVIOUS
  <2>2. t \in TablesOf(s[B]) /\ t \in TablesOf(s[O])
    BY <1>1, <2>1, GoodSide, TablesBySide
  <2>3. StructureSide(p, t) \in Sides /\ c.tables[t] = s[StructureSide(p, t)].tables[t]
    BY <1>1, TargetTables
  <2>4. StructureSide(p, t) = B \/ StructureSide(p, t) = O
    BY <1>1, <2>3, GoodSide, SideIs
  <2> QED
    BY <2>2, <2>3, <2>4 DEF TablesOf
<1> HIDE DEF rec, c
<1>6. CASE B = "head"
  <2>1. O = "draft"
    BY <1>6 DEF Opposite
  <2>2. After(p) = [head |-> c, draft |-> s.draft, recorded |-> rec]
    BY <1>6 DEF After, c, rec
  <2>3. s.draft \in Content /\ Conforms(s.draft) /\ HoldsTogether(s.draft)
    BY <1>1 DEF GoodSnapshots, Snapshots
  <2>4. After(p) \in GoodSnapshots
    BY <1>1, <1>2, <1>3, <1>4, <1>5, <2>1, <2>2, <2>3, GoodSnapshotIs
  <2> QED
    BY <1>1, <1>6, <2>1, <2>2, <2>4 DEF c, rec
<1>7. CASE B = "draft"
  <2>1. O = "head"
    BY <1>7 DEF Opposite
  <2>2. After(p) = [head |-> s.head, draft |-> c, recorded |-> rec]
    BY <1>7 DEF After, c, rec
  <2>3. s.head \in Content /\ Conforms(s.head) /\ HoldsTogether(s.head)
    BY <1>1 DEF GoodSnapshots, Snapshots
  <2>4. After(p) \in GoodSnapshots
    BY <1>1, <1>2, <1>3, <1>4, <1>5, <2>1, <2>2, <2>3, GoodSnapshotIs
  <2> QED
    BY <1>1, <1>7, <2>1, <2>2, <2>4 DEF c, rec
<1> QED
  BY <1>1, <1>6, <1>7 DEF Sides

\* Moving units writes the target of a clear plan.
LEMMA MoveIs ==
  ASSUME IInv, NEW operation \in Operations, NEW units, MoveUnits(operation, units)
  PROVE  LET p == Plan(Snapshot, operation, units)
         IN  IsClear(p) /\ Snapshot' = After(p) /\ edits' = edits
<1> DEFINE p == Plan(Snapshot, operation, units)
<1>1. p.snapshot = Snapshot /\ p.base = BaseSide(operation) /\ p.applied = units
  BY DEF Plan
<1>2. p.base \in Sides
  BY <1>1 DEF BaseSide, Sides
<1>3. Findings(p) = {}
  BY DEF MoveUnits
<1>4. ASSUME operation = "commit"
      PROVE  Snapshot' = After(p) /\ edits' = edits
  <2>1. /\ head' = Target(p) /\ recorded' = RecordedAfter(units)
        /\ edits' = edits /\ draft' = draft
    BY <1>4 DEF MoveUnits, Write
  <2>2. p.base = "head"
    BY <1>1, <1>4 DEF BaseSide
  <2> HIDE DEF p
  <2>3. After(p) = [head |-> Target(p), draft |-> draft, recorded |-> RecordedAfter(units)]
    BY <1>1, <2>2 DEF After, RecordedAfter, Snapshot
  <2> QED
    BY <2>1, <2>3 DEF Snapshot
<1>5. ASSUME operation = "revert"
      PROVE  Snapshot' = After(p) /\ edits' = edits
  <2>1. /\ draft' = Target(p) /\ recorded' = RecordedAfter(units)
        /\ edits' = edits /\ head' = head
    BY <1>5 DEF MoveUnits, Write
  <2>2. p.base = "draft"
    BY <1>1, <1>5 DEF BaseSide
  <2> HIDE DEF p
  <2>3. After(p) = [head |-> head, draft |-> Target(p), recorded |-> RecordedAfter(units)]
    BY <1>1, <2>2 DEF After, RecordedAfter, Snapshot
  <2> QED
    BY <2>1, <2>3 DEF Snapshot
<1>6. Snapshot' = After(p) /\ edits' = edits
  BY <1>4, <1>5 DEF Operations
<1>7. IsPlan(p)
  BY <1>1, <1>2 DEF IsPlan, IInv
<1> QED
  BY <1>3, <1>6, <1>7 DEF IsClear

\* A partial commit or revert moves the units it applies.
LEMMA ApplyMoves ==
  ASSUME NEW selected
  PROVE  /\ CommitDraftChanges(selected) => MoveUnits("commit", applied')
         /\ RevertDraftChanges(selected) => MoveUnits("revert", applied')
<1>1. ASSUME NEW operation, NEW target, Apply(operation, Close(Snapshot, operation, selected), target)
      PROVE  Findings(Plan(Snapshot, operation, applied')) = {} /\ Write(operation, applied', target)
  <2> DEFINE closure == Closure([units \in SUBSET Units(Snapshot) |->
                                   Findings(Plan(Snapshot, operation, units))], selected)
             plan == Closed(Snapshot, operation, closure)
  <2>1. Close(Snapshot, operation, selected) = plan
    BY DEF Close
  <2> HIDE DEF closure
  <2>2. /\ plan.units = closure
        /\ plan.blocked = (Findings(Plan(Snapshot, operation, closure)) # {})
    BY DEF Closed
  <2>3. ~plan.blocked /\ applied' = plan.units /\ Write(operation, plan.units, target)
    BY <1>1, <2>1 DEF Apply, Applicable
  <2> QED
    BY <2>2, <2>3
<1> QED
  BY <1>1 DEF CommitDraftChanges, RevertDraftChanges, MoveUnits

-----------------------------------------------------------------------------
(* The invariant. *)

\* A branch starts with a draft that is its head.
LEMMA InitIsGood ==
  ASSUME ContentInit
  PROVE  IInv
<1>1. InitialContent \in Content /\ 0 \in 0..MaxEdits
  BY ContentAssumption DEF ContentAssumption
<1>2. recorded \in [Tables -> SUBSET Recording] /\ \A t \in Tables : recorded[t] = {}
  BY DEF ContentInit
<1>3. Snapshot \in GoodSnapshots
  BY <1>1, <1>2, InitialAssumption, GoodSnapshotIs
     DEF ContentInit, Snapshot, InitialAssumption
<1> QED
  BY <1>1, <1>3 DEF IInv, ContentInit

\* Every step keeps the invariant, whatever units it moves.
LEMMA StepKeeps ==
  ASSUME IInv,
         \/ EditDraft \/ CreateRevision \/ RevertChanges \/ UNCHANGED contentVars
         \/ \E operation \in Operations : \E units : MoveUnits(operation, units)
  PROVE  IInv'
<1>1. CASE EditDraft
  BY <1>1, EditDraftKeeps
<1>2. CASE CreateRevision
  BY <1>2, CreateRevisionKeeps
<1>3. CASE RevertChanges
  BY <1>3, RevertChangesKeeps
<1>4. ASSUME NEW operation \in Operations, NEW units, MoveUnits(operation, units)
      PROVE  IInv'
  BY <1>4, MoveIs, AfterIsGood DEF IInv
<1>5. CASE UNCHANGED contentVars
  BY <1>5 DEF IInv, Snapshot, contentVars
<1> QED
  BY <1>1, <1>2, <1>3, <1>4, <1>5

\* The invariant is inductive.
THEOREM Inductive ==
  Spec => []IInv
<1>1. Init => IInv
  BY InitIsGood DEF Init
<1>2. IInv /\ [Next]_vars => IInv'
  BY StepKeeps, ApplyMoves DEF Next, vars, Operations
<1> QED
  BY <1>1, <1>2, PTL DEF Spec

\* Rows conform to the schemas of their tables in the draft and in every head,
\* whichever sides a partial commit or revert took the two from.
THEOREM ContentIsTyped ==
  Spec => []TypeOK
<1>1. IInv => TypeOK
  BY IInvIs DEF TypeOK
<1> QED
  BY <1>1, Inductive, PTL

\* Whatever is edited, selected, committed or reverted, ids stay unique, no schema
\* is without its table and no reference without its row.
THEOREM RevisionsAlwaysHoldTogether ==
  Spec => []RevisionsHoldTogether
<1>1. IInv => RevisionsHoldTogether
  BY IInvIs DEF RevisionsHoldTogether
<1> QED
  BY <1>1, Inductive, PTL

-----------------------------------------------------------------------------
(* The units of a snapshot. *)

\* The units of a row.
LEMMA RowUnitsBySide ==
  ASSUME NEW s \in GoodSnapshots, NEW B \in Sides, NEW r \in Rows, NEW u
  PROVE  LET b == s[B].rows[r]
             o == s[Opposite(B)].rows[r]
         IN  u \in RowUnits(s, r) <=>
               \/ OneSidedRow(s, r) /\ u = ExistenceUnit(s, r)
               \/ /\ ~OneSidedRow(s, r)
                  /\ \/ u = RenameUnit(s, r) /\ b.id # o.id
                     \/ u = ValueUnit(s, r) /\ b.val # o.val
                     \/ u = ReferenceUnit(s, r) /\ b.ref # o.ref
<1>1. s["head"] = s.head /\ s["draft"] = s.draft
  BY GoodSide, SideIs
<1>2. CASE B = "head"
  BY <1>1, <1>2 DEF RowUnits, Opposite
<1>3. CASE B = "draft"
  BY <1>1, <1>3 DEF RowUnits, Opposite
<1> QED
  BY <1>2, <1>3 DEF Sides

\* The units are those of the structures that differ, and of the rows of the tables
\* on both sides: a row that is not loaded has no unit of its own.
LEMMA UnitsAre ==
  ASSUME NEW s \in GoodSnapshots, NEW u
  PROVE  u \in Units(s) <=>
           \/ \E t \in Tables : StructureDiffers(s, t) /\ u = StructureUnit(s, t)
           \/ \E r \in Rows : /\ Exists(s, r) /\ TableOf(s, r) \in OnBothSides(s)
                              /\ u \in RowUnits(s, r)
<1> DEFINE B == "head"
<1>1. B \in Sides
  BY DEF Sides
<1>2. u \in Units(s) <=>
        \/ \E t \in Tables : StructureDiffers(s, t) /\ u = StructureUnit(s, t)
        \/ \E t \in Tables : \E r \in Loaded(s, t) : u \in RowUnits(s, r)
  BY DEF Units
<1>3. ASSUME NEW t \in Tables, NEW r \in Loaded(s, t)
      PROVE  r \in Rows /\ Exists(s, r) /\ TableOf(s, r) \in OnBothSides(s)
  BY <1>1, <1>3, LoadedBySide
<1>4. ASSUME NEW r \in Rows, Exists(s, r), TableOf(s, r) \in OnBothSides(s), u \in RowUnits(s, r)
      PROVE  \/ \E t \in Tables : StructureDiffers(s, t) /\ u = StructureUnit(s, t)
             \/ \E t \in Tables : r \in Loaded(s, t)
  <2> DEFINE t == TableOf(s, r)
  <2>1. t \in Tables
    BY <1>1, <1>4, RowsBySide
  <2>2. CASE r \in Loaded(s, t)
    BY <2>1, <2>2
  <2>3. CASE r \notin Loaded(s, t)
    <3>1. Opposite(B) \in Sides
      BY <1>1, GoodSide, SideIs
    <3>2. /\ ~OneSidedRow(s, r)
          /\ s[B].rows[r].id = s[Opposite(B)].rows[r].id
          /\ s[B].rows[r].val = s[Opposite(B)].rows[r].val
          /\ ReferenceChanged(s, t) \/ s[B].rows[r].ref = s[Opposite(B)].rows[r].ref
      BY <1>1, <1>4, <2>3, <3>1, UnloadedRow
    <3>3. u = ReferenceUnit(s, r) /\ ReferenceChanged(s, t)
      BY <1>1, <1>4, <3>2, RowUnitsBySide
    <3>4. StructureDiffers(s, t)
      BY <1>1, <1>4, <2>1, <3>3, StructureBySide
    <3> QED
      BY <2>1, <3>3, <3>4 DEF ReferenceUnit
  <2> QED
    BY <2>2, <2>3
<1> QED
  BY <1>2, <1>3, <1>4

\* A snapshot has no unit exactly when its sides are equal and nothing is recorded.
LEMMA NoUnits ==
  ASSUME NEW s \in GoodSnapshots
  PROVE  Units(s) = {} <=> s.head = s.draft /\ \A t \in Tables : s.recorded[t] = {}
<1> DEFINE h == s["head"]
           d == s["draft"]
<1>1. /\ "head" \in Sides /\ Opposite("head") = "draft"
      /\ h = s.head /\ d = s.draft /\ h \in Content /\ d \in Content
  BY GoodSide, SideIs DEF Sides, Opposite, GoodSnapshots, Snapshots
<1>2. ASSUME Units(s) = {}
      PROVE  h = d /\ \A t \in Tables : s.recorded[t] = {}
  <2>1. ASSUME NEW t \in Tables
        PROVE  h.tables[t] = d.tables[t] /\ s.recorded[t] = {} /\ t \notin OnOneSide(s)
    <3>1. ~StructureDiffers(s, t)
      BY <1>2, UnitsAre
    <3>2. t \notin OnOneSide(s) /\ (t \in OnBothSides(s) => h.tables[t] = d.tables[t])
      BY <1>1, <3>1, StructureBySide
    <3>3. h.tables[t] = d.tables[t]
      BY <1>1, <3>2, TablesBySide DEF TablesOf
    <3>4. s.recorded[t] = {}
      BY <1>1, <3>1, GoodSide, StructureBySide
    <3> QED
      BY <3>2, <3>3, <3>4
  <2>2. ASSUME NEW r \in Rows
        PROVE  h.rows[r] = d.rows[r]
    <3>1. CASE ~Exists(s, r)
      BY <1>1, <3>1 DEF Exists
    <3>2. CASE Exists(s, r)
      <4>1. TableOf(s, r) \in Tables /\ TableOf(s, r) \in TablesOf(h) \cup TablesOf(d)
        <5>1. "draft" \in Sides
          BY DEF Sides
        <5> QED
          BY <1>1, <3>2, <5>1, RowsBySide
      <4>2. TableOf(s, r) \in OnBothSides(s)
        BY <1>1, <2>1, <4>1, TablesBySide
      <4>3. RowUnits(s, r) = {}
        BY <1>2, <3>2, <4>2, UnitsAre
      <4>4. /\ ~OneSidedRow(s, r)
            /\ h.rows[r].id = d.rows[r].id /\ h.rows[r].val = d.rows[r].val
            /\ h.rows[r].ref = d.rows[r].ref
        BY <1>1, <4>3, RowUnitsBySide
      <4>5. h.rows[r] # None /\ d.rows[r] # None /\ h.rows[r].table = d.rows[r].table
        BY <1>1, <3>2, <4>4, RowsBySide, GoodSide
      <4> QED
        BY <1>1, <4>4, <4>5, ContentIs
    <3> QED
      BY <3>1, <3>2
  <2>3. /\ h = [tables |-> h.tables, rows |-> h.rows] /\ d = [tables |-> d.tables, rows |-> d.rows]
        /\ h.tables \in [Tables -> TableRecord \cup {None}]
        /\ d.tables \in [Tables -> TableRecord \cup {None}]
        /\ h.rows \in [Rows -> RowRecord \cup {None}]
        /\ d.rows \in [Rows -> RowRecord \cup {None}]
    BY <1>1 DEF Content
  <2> HIDE DEF h, d
  <2>4. h.tables = d.tables /\ h.rows = d.rows
    BY <2>1, <2>2, <2>3
  <2> QED
    BY <2>1, <2>3, <2>4
<1>3. ASSUME h = d, \A t \in Tables : s.recorded[t] = {}
      PROVE  Units(s) = {}
  <2> SUFFICES ASSUME NEW u, u \in Units(s)
               PROVE  FALSE
    OBVIOUS
  <2>1. \A t \in Tables : ~StructureDiffers(s, t)
    BY <1>1, <1>3, StructureBySide, TablesBySide
  <2>2. \A r \in Rows : Exists(s, r) => u \notin RowUnits(s, r)
    BY <1>1, <1>3, RowUnitsBySide, RowsBySide
  <2> QED
    BY <2>1, <2>2, UnitsAre
<1> QED
  BY <1>1, <1>2, <1>3

\* So every difference between the draft and the head has a unit.
LEMMA DifferencesHaveUnits ==
  ASSUME IInv
  PROVE  EveryDifferenceHasAUnit
<1>1. Snapshot \in GoodSnapshots
  BY DEF IInv
<1>2. Units(Snapshot) = {} <=> head = draft /\ \A t \in Tables : recorded[t] = {}
  BY <1>1, NoUnits DEF Snapshot
<1> QED
  BY <1>2 DEF EveryDifferenceHasAUnit, HasChanges

\* Every difference between the draft and the head can be selected, and nothing can
\* when there is none.
THEOREM EveryDifferenceAlwaysHasAUnit ==
  Spec => []EveryDifferenceHasAUnit
<1>1. IInv => EveryDifferenceHasAUnit
  BY DifferencesHaveUnits
<1> QED
  BY <1>1, Inductive, PTL

-----------------------------------------------------------------------------
(* An operation settles the units it applies, and leaves the others as they are. *)

\* The tables of the snapshot an operation leaves.
LEMMA AfterTables ==
  ASSUME NEW p, IsClear(p), NEW t \in Tables
  PROVE  LET s == p.snapshot
             B == p.base
             O == Opposite(p.base)
         IN  /\ After(p)[O].tables[t] = s[O].tables[t]
             /\ StructureUnit(s, t) \in p.applied =>
                  /\ StructureSide(p, t) = O
                  /\ After(p)[B].tables[t] = s[O].tables[t] /\ After(p).recorded[t] = {}
             /\ StructureUnit(s, t) \notin p.applied =>
                  /\ StructureSide(p, t) = B
                  /\ After(p)[B].tables[t] = s[B].tables[t]
                  /\ After(p).recorded[t] = s.recorded[t]
<1>1. IsPlan(p)
  BY DEF IsClear
<1> QED
  BY <1>1, AfterIsGood, TargetTables, SideTaken DEF StructureSide

\* What a schema of the base side means afterwards.
LEMMA AfterMeaning ==
  ASSUME NEW p, IsClear(p), NEW t \in TablesOf(After(p)[p.base])
  PROVE  LET a == After(p)[p.base]
             side == p.snapshot[StructureSide(p, t)]
         IN  Identity(a, a.tables[t].ref) = Identity(side, side.tables[t].ref)
BY AfterIsGood, TargetMeaning

\* A structure that was applied has no unit any more.
LEMMA SettledStructure ==
  ASSUME NEW p, IsClear(p), NEW t \in Tables, StructureUnit(p.snapshot, t) \in p.applied
  PROVE  ~StructureDiffers(After(p), t) /\ ~ReferenceChanged(After(p), t)
<1> DEFINE s == p.snapshot
           a == After(p)
           B == p.base
           O == Opposite(p.base)
<1>1. /\ s \in GoodSnapshots /\ a \in GoodSnapshots /\ B \in Sides
      /\ a[O] = s[O]
  BY AfterIsGood DEF IsClear, IsPlan
<1>2. /\ a[O].tables[t] = s[O].tables[t] /\ StructureSide(p, t) = O
      /\ a[B].tables[t] = s[O].tables[t] /\ a.recorded[t] = {}
  BY AfterTables
<1>3. t \notin OnOneSide(a)
  BY <1>1, <1>2, TablesBySide DEF TablesOf
<1>4. ~ReferenceChanged(a, t)
  <2> SUFFICES ASSUME t \in OnBothSides(a)
               PROVE  Identity(a[B], a[B].tables[t].ref) = Identity(a[O], a[O].tables[t].ref)
    BY <1>1, <1>2, StructureBySide
  <2>1. t \in TablesOf(a[B])
    BY <1>1, TablesBySide
  <2> QED
    BY <1>1, <1>2, <2>1, AfterMeaning
<1> QED
  BY <1>1, <1>2, <1>3, <1>4, StructureBySide

\* One that was not is as it was, and so is its unit.
LEMMA KeptStructure ==
  ASSUME NEW p, IsClear(p), NEW t \in Tables, StructureUnit(p.snapshot, t) \notin p.applied
  PROVE  LET s == p.snapshot
             a == After(p)
         IN  /\ t \in OnOneSide(a) <=> t \in OnOneSide(s)
             /\ t \in OnBothSides(a) <=> t \in OnBothSides(s)
             /\ ReferenceChanged(a, t) <=> ReferenceChanged(s, t)
             /\ StructureDiffers(a, t) <=> StructureDiffers(s, t)
             /\ t \in OnOneSide(s) => OneSidedId(a, t) = OneSidedId(s, t)
<1> DEFINE s == p.snapshot
           a == After(p)
           B == p.base
           O == Opposite(p.base)
<1>1. /\ s \in GoodSnapshots /\ a \in GoodSnapshots /\ B \in Sides /\ O \in Sides
      /\ a[O] = s[O]
  BY AfterIsGood, GoodSide, SideIs DEF IsClear, IsPlan
<1>2. /\ a[O].tables[t] = s[O].tables[t] /\ StructureSide(p, t) = B
      /\ a[B].tables[t] = s[B].tables[t] /\ a.recorded[t] = s.recorded[t]
  BY AfterTables
<1>3. /\ t \in OnOneSide(a) <=> t \in OnOneSide(s)
      /\ t \in OnBothSides(a) <=> t \in OnBothSides(s)
  BY <1>1, <1>2, TablesBySide DEF TablesOf
<1>4. ReferenceChanged(a, t) <=> ReferenceChanged(s, t)
  <2>1. CASE t \notin OnBothSides(s)
    BY <1>1, <1>3, <2>1, StructureBySide
  <2>2. CASE t \in OnBothSides(s)
    <3>1. t \in TablesOf(a[B])
      BY <1>1, <1>3, <2>2, TablesBySide
    <3>2. Identity(a[B], a[B].tables[t].ref) = Identity(s[B], s[B].tables[t].ref)
      BY <1>2, <3>1, AfterMeaning
    <3> QED
      BY <1>1, <1>2, <1>3, <2>2, <3>2, StructureBySide
  <2> QED
    BY <2>1, <2>2
<1>5. StructureDiffers(a, t) <=> StructureDiffers(s, t)
  <2>1. StructureDiffers(a, t) <=>
          \/ t \in OnOneSide(a)
          \/ /\ t \in OnBothSides(a)
             /\ a.recorded[t] # {} \/ a[B].tables[t] # a[O].tables[t] \/ ReferenceChanged(a, t)
    BY <1>1, StructureBySide
  <2>2. StructureDiffers(s, t) <=>
          \/ t \in OnOneSide(s)
          \/ /\ t \in OnBothSides(s)
             /\ s.recorded[t] # {} \/ s[B].tables[t] # s[O].tables[t] \/ ReferenceChanged(s, t)
    BY <1>1, StructureBySide
  <2> QED
    BY <1>1, <1>2, <1>3, <1>4, <2>1, <2>2
<1>6. t \in OnOneSide(s) => OneSidedId(a, t) = OneSidedId(s, t)
  <2> SUFFICES ASSUME t \in OnOneSide(s)
               PROVE  OneSidedId(a, t) = OneSidedId(s, t)
    OBVIOUS
  <2>1. CASE t \in TablesOf(s[B])
    BY <1>1, <1>2, <1>3, <2>1, TablesBySide DEF TablesOf
  <2>2. CASE t \in TablesOf(s[O])
    <3>1. OneSidedId(s, t) = s[O].tables[t].id
      BY <1>1, <2>2, TablesBySide
    <3>2. OneSidedId(a, t) = a[O].tables[t].id
      BY <1>1, <1>3, <2>2, TablesBySide
    <3> QED
      BY <1>1, <3>1, <3>2
  <2> QED
    BY <1>1, <2>1, <2>2, TablesBySide
<1> QED
  BY <1>3, <1>4, <1>5, <1>6

\* Tables of one unit are applied together.
LEMMA KeptStructureUnit ==
  ASSUME NEW p, IsClear(p), NEW t \in Tables, StructureUnit(p.snapshot, t) \notin p.applied
  PROVE  StructureUnit(After(p), t) = StructureUnit(p.snapshot, t)
<1> DEFINE s == p.snapshot
           a == After(p)
<1>1. CASE t \notin OnOneSide(s)
  BY <1>1, KeptStructure DEF StructureUnit
<1>2. CASE t \in OnOneSide(s)
  <2>1. s \in GoodSnapshots /\ a \in GoodSnapshots /\ "head" \in Sides
    BY AfterIsGood DEF IsClear, IsPlan, Sides
  <2>2. \A u \in OnOneSide(s) : u \in Tables
    BY <2>1, TablesBySide
  <2>3. \A u \in OnOneSide(a) : u \in Tables
    BY <2>1, TablesBySide
  <2>4. ASSUME NEW u \in OnOneSide(s), OneSidedId(s, u) = OneSidedId(s, t)
        PROVE  u \in OnOneSide(a) /\ OneSidedId(a, u) = OneSidedId(a, t)
    <3>1. StructureUnit(s, u) = StructureUnit(s, t)
      BY <1>2, <2>4 DEF StructureUnit
    <3> QED
      BY <1>2, <2>2, <2>4, <3>1, KeptStructure
  <2>5. ASSUME NEW u \in OnOneSide(a), OneSidedId(a, u) = OneSidedId(a, t)
        PROVE  u \in OnOneSide(s) /\ OneSidedId(s, u) = OneSidedId(s, t)
    <3>1. StructureUnit(s, u) \notin p.applied
      BY <2>1, <2>3, <2>5, SettledStructure, StructureBySide
    <3> QED
      BY <1>2, <2>3, <2>5, <3>1, KeptStructure
  <2>6. t \in OnOneSide(a)
    BY <1>2, KeptStructure
  <2> QED
    BY <1>2, <2>4, <2>5, <2>6 DEF StructureUnit
<1> QED
  BY <1>1, <1>2

\* The rows of the snapshot an operation leaves: those there were, in their tables.
LEMMA AfterRows ==
  ASSUME NEW p, IsClear(p), NEW r \in Rows
  PROVE  LET s == p.snapshot
             a == After(p)
         IN  /\ Exists(a, r) => Exists(s, r) /\ TableOf(a, r) = TableOf(s, r)
             /\ Exists(s, r) /\ TableOf(s, r) \in OnBothSides(s) => TableOf(s, r) \in OnBothSides(a)
<1> DEFINE s == p.snapshot
           a == After(p)
           B == p.base
           O == Opposite(p.base)
           t == TableOf(s, r)
<1>1. /\ s \in GoodSnapshots /\ a \in GoodSnapshots /\ B \in Sides /\ O \in Sides
      /\ Opposite(O) = B /\ a[O] = s[O] /\ a[B] = Target(p) /\ IsPlan(p)
  BY AfterIsGood, GoodSide, SideIs DEF IsClear, IsPlan
<1>2. Exists(a, r) => Exists(s, r) /\ TableOf(a, r) = t
  <2>1. CASE a[B].rows[r] # None
    BY <1>1, <2>1, TargetRowParts, RowsBySide
  <2>2. CASE a[O].rows[r] # None
    BY <1>1, <2>2, RowsBySide
  <2> QED
    BY <1>1, <2>1, <2>2, RowsBySide
<1>3. ASSUME Exists(s, r), t \in OnBothSides(s)
      PROVE  t \in OnBothSides(a)
  <2>1. t \in Tables
    BY <1>1, <1>3, RowsBySide
  <2>2. a[B].tables[t] \in {s[B].tables[t], s[O].tables[t]}
    BY <2>1, AfterTables
  <2> QED
    BY <1>1, <1>3, <2>1, <2>2, TablesBySide DEF TablesOf
<1> QED
  BY <1>2, <1>3

\* A row that came or went with its table has no unit.
LEMMA SettledWithItsTable ==
  ASSUME NEW p, IsClear(p), NEW r \in Rows, Exists(After(p), r),
         TableOf(p.snapshot, r) \notin OnBothSides(p.snapshot),
         TableOf(p.snapshot, r) \in OnBothSides(After(p))
  PROVE  RowUnits(After(p), r) = {}
<1> DEFINE s == p.snapshot
           a == After(p)
           B == p.base
           O == Opposite(p.base)
           t == TableOf(s, r)
<1>1. /\ s \in GoodSnapshots /\ a \in GoodSnapshots /\ B \in Sides
      /\ a[O] = s[O] /\ a[B] = Target(p) /\ IsPlan(p)
  BY AfterIsGood DEF IsClear, IsPlan
<1>2. Exists(s, r) /\ t \in Tables /\ r \notin Loaded(s, t)
  BY <1>1, AfterRows, RowsBySide, LoadedBySide
<1>3. StructureUnit(s, t) \in p.applied
  BY <1>2, KeptStructure
<1>4. a[B].rows[r] = a[O].rows[r]
  BY <1>1, <1>2, <1>3, AfterTables, TargetRow
<1>5. ~OneSidedRow(a, r)
  BY <1>1, <1>4, RowsBySide
<1>6. ASSUME NEW u
      PROVE  u \notin RowUnits(a, r)
  BY <1>1, <1>4, <1>5, RowUnitsBySide
<1> QED
  BY <1>6

\* A row on both sides keeps the units that were not applied, and no others.
LEMMA SettledParts ==
  ASSUME NEW p, IsClear(p), NEW r \in Rows, Exists(p.snapshot, r),
         ~OneSidedRow(p.snapshot, r),
         TableOf(p.snapshot, r) \in OnBothSides(p.snapshot)
  PROVE  /\ Exists(After(p), r)
         /\ \A u : u \in RowUnits(After(p), r) <=>
                     u \in RowUnits(p.snapshot, r) /\ u \notin p.applied
<1> DEFINE s == p.snapshot
           a == After(p)
           B == p.base
           O == Opposite(p.base)
           t == TableOf(s, r)
           x == a[B].rows[r]
           b == s[B].rows[r]
           o == s[O].rows[r]
<1>1. /\ s \in GoodSnapshots /\ a \in GoodSnapshots /\ B \in Sides
      /\ a[O] = s[O] /\ a[B] = Target(p) /\ IsPlan(p)
  BY AfterIsGood DEF IsClear, IsPlan
<1>2. t \in Tables /\ b # None /\ o # None
  BY <1>1, RowsBySide
<1>3. x = MergedRow(p, t, r)
  BY <1>1, TargetRow DEF LoadedRow
<1>4. /\ x # None
      /\ x.id = s[SideTakenBy(p, RenameUnit(s, r))].rows[r].id
      /\ x.val = s[SideTakenBy(p, ValueUnit(s, r))].rows[r].val
      /\ x.ref = s[SideTakenBy(p, ReferenceUnit(s, r))].rows[r].ref
  BY <1>1, <1>3, MergedParts
<1>5. ~OneSidedRow(a, r) /\ Exists(a, r) /\ TableOf(a, r) = t
  BY <1>1, <1>2, <1>4, RowsBySide, AfterRows
<1>6. /\ x.id # o.id <=> b.id # o.id /\ RenameUnit(s, r) \notin p.applied
      /\ x.val # o.val <=> b.val # o.val /\ ValueUnit(s, r) \notin p.applied
      /\ x.ref # o.ref <=> b.ref # o.ref /\ ReferenceUnit(s, r) \notin p.applied
  BY <1>1, <1>4, SideTaken
<1>7. RenameUnit(a, r) = RenameUnit(s, r) /\ ValueUnit(a, r) = ValueUnit(s, r)
  BY <1>5 DEF RenameUnit, ValueUnit
<1>8. ReferenceUnit(s, r) \notin p.applied => ReferenceUnit(a, r) = ReferenceUnit(s, r)
  <2>1. CASE StructureUnit(s, t) \in p.applied
    BY <1>2, <1>5, <2>1, SettledStructure DEF ReferenceUnit
  <2>2. CASE StructureUnit(s, t) \notin p.applied
    BY <1>2, <1>5, <2>2, KeptStructure, KeptStructureUnit DEF ReferenceUnit
  <2> QED
    BY <2>1, <2>2
<1> HIDE DEF x, b, o
<1>9. ASSUME NEW u
      PROVE  u \in RowUnits(a, r) <=> u \in RowUnits(s, r) /\ u \notin p.applied
  <2>1. u \in RowUnits(a, r) <=> \/ u = RenameUnit(a, r) /\ x.id # o.id
                                 \/ u = ValueUnit(a, r) /\ x.val # o.val
                                 \/ u = ReferenceUnit(a, r) /\ x.ref # o.ref
    <3>1. LET y == a[B].rows[r]
              z == a[Opposite(B)].rows[r]
          IN  u \in RowUnits(a, r) <=> \/ u = RenameUnit(a, r) /\ y.id # z.id
                                       \/ u = ValueUnit(a, r) /\ y.val # z.val
                                       \/ u = ReferenceUnit(a, r) /\ y.ref # z.ref
      BY <1>1, <1>5, RowUnitsBySide
    <3> QED
      BY <1>1, <3>1 DEF x, o
  <2>2. u \in RowUnits(s, r) <=> \/ u = RenameUnit(s, r) /\ b.id # o.id
                                 \/ u = ValueUnit(s, r) /\ b.val # o.val
                                 \/ u = ReferenceUnit(s, r) /\ b.ref # o.ref
    BY <1>1, RowUnitsBySide DEF b, o
  <2> QED
    BY <1>6, <1>7, <1>8, <2>1, <2>2
<1> QED
  BY <1>5, <1>9

\* The rows of the other side that a one-sided row of side B replaces, or that
\* replace it.
Replaced(s, B, r) ==
  {o \in Rows : /\ OneSidedRow(s, o) /\ s[Opposite(B)].rows[o] # None
                /\ TableOf(s, o) = TableOf(s, r)
                /\ s[Opposite(B)].rows[o].id = s[B].rows[r].id}

\* The unit of a one-sided row.
LEMMA ExistenceIs ==
  ASSUME NEW s \in GoodSnapshots, NEW B \in Sides, NEW r \in Rows, OneSidedRow(s, r),
         s[B].rows[r] # None
  PROVE  ExistenceUnit(s, r) =
           IF Replaced(s, B, r) # {}
             THEN Unit("rowReplace", {TableOf(s, r)}, {r} \cup Replaced(s, B, r))
             ELSE Unit(IF B = "head" THEN "rowDelete" ELSE "rowCreate", {TableOf(s, r)}, {r})
<1> DEFINE one == IF s.head.rows[r] # None THEN "head" ELSE "draft"
           t == TableOf(s, r)
           replaced == {o \in RowsOf(s[Opposite(one)], t) :
                          /\ OneSidedRow(s, o)
                          /\ s[Opposite(one)].rows[o].id = s[one].rows[r].id}
<1>1. s["head"] = s.head /\ s["draft"] = s.draft
  BY GoodSide, SideIs
<1>2. one = B
  <2>1. CASE B = "head"
    BY <1>1, <2>1
  <2>2. CASE B = "draft"
    BY <1>1, <2>2 DEF OneSidedRow
  <2> QED
    BY <2>1, <2>2 DEF Sides
<1>3. replaced = Replaced(s, B, r)
  <2>1. Opposite(B) \in Sides
    BY GoodSide, SideIs
  <2>2. RowsOf(s[Opposite(B)], t) = {o \in Rows : s[Opposite(B)].rows[o] # None /\ TableOf(s, o) = t}
    BY <2>1, RowsOfSide
  <2> QED
    BY <1>2, <2>2 DEF Replaced
<1>4. ExistenceUnit(s, r) = IF replaced # {} THEN Unit("rowReplace", {t}, {r} \cup replaced)
                            ELSE Unit(IF one = "head" THEN "rowDelete" ELSE "rowCreate", {t}, {r})
  BY DEF ExistenceUnit
<1> HIDE DEF replaced, one
<1> QED
  BY <1>2, <1>3, <1>4

\* A row and the row it replaces share their unit.
LEMMA ReplacedShareTheirUnit ==
  ASSUME NEW s \in GoodSnapshots, NEW B \in Sides, NEW r \in Rows, OneSidedRow(s, r),
         s[B].rows[r] # None, NEW o \in Replaced(s, B, r)
  PROVE  ExistenceUnit(s, o) = ExistenceUnit(s, r)
<1> DEFINE O == Opposite(B)
           t == TableOf(s, r)
<1>1. /\ O \in Sides /\ Opposite(O) = B
      /\ o \in Rows /\ OneSidedRow(s, o) /\ s[O].rows[o] # None /\ TableOf(s, o) = t
      /\ s[O].rows[o].id = s[B].rows[r].id
  BY GoodSide, SideIs DEF Replaced
<1>2. \A side \in Sides : \A q, v \in Rows :
        /\ s[side].rows[q] # None /\ s[side].rows[v] # None
        /\ TableOf(s, q) = TableOf(s, v) /\ s[side].rows[q].id = s[side].rows[v].id
        => q = v
  BY GoodSide, WhatHolds, RowsBySide
<1>3. Replaced(s, B, r) = {o}
  BY <1>1, <1>2 DEF Replaced
<1>4. Replaced(s, O, o) = {r}
  BY <1>1, <1>2 DEF Replaced
<1>5. ExistenceUnit(s, r) = Unit("rowReplace", {t}, {r} \cup {o})
  BY <1>3, ExistenceIs
<1>6. ExistenceUnit(s, o) = Unit("rowReplace", {t}, {o} \cup {r})
  BY <1>1, <1>4, ExistenceIs
<1>7. {r} \cup {o} = {o} \cup {r}
  OBVIOUS
<1> QED
  BY <1>5, <1>6, <1>7

\* A one-sided row whose unit was applied is on both sides or on none; what it has
\* left is its structure's.
LEMMA SettledRow ==
  ASSUME NEW p, IsClear(p), NEW r \in Rows, Exists(p.snapshot, r),
         OneSidedRow(p.snapshot, r),
         TableOf(p.snapshot, r) \in OnBothSides(p.snapshot),
         ExistenceUnit(p.snapshot, r) \in p.applied, Exists(After(p), r),
         NEW u \in RowUnits(After(p), r)
  PROVE  LET t == TableOf(p.snapshot, r)
         IN  StructureDiffers(After(p), t) /\ u = StructureUnit(After(p), t)
<1> DEFINE s == p.snapshot
           a == After(p)
           B == p.base
           O == Opposite(p.base)
           t == TableOf(s, r)
           x == a[B].rows[r]
           o == s[O].rows[r]
           side == StructureSide(p, t)
<1>1. /\ s \in GoodSnapshots /\ a \in GoodSnapshots /\ B \in Sides /\ O \in Sides
      /\ a[O] = s[O] /\ a[B] = Target(p) /\ IsPlan(p)
  BY AfterIsGood, GoodSide, SideIs DEF IsClear, IsPlan
<1>2. SideTakenBy(p, ExistenceUnit(s, r)) = O
  BY <1>1, SideTaken
<1>3. x = None <=> o = None
  BY <1>1, <1>2, TargetOfOneSided
<1>4. x # None /\ o # None /\ ~OneSidedRow(a, r) /\ TableOf(a, r) = t /\ t \in OnBothSides(a)
      /\ t \in Tables
  BY <1>1, <1>3, RowsBySide, AfterRows
<1>5. /\ x.id = o.id /\ x.val = o.val
      /\ x.ref = IF O = side THEN o.ref
                 ELSE IF s[side].tables[t].ref = None THEN None
                 ELSE IF ReferenceChanged(s, t) THEN Blank ELSE o.ref
  <2>1. LET from == SideTakenBy(p, ExistenceUnit(s, r))
            existing == s[from].rows[r]
            y == Target(p).rows[r]
        IN  existing # None =>
              /\ y.id = existing.id /\ y.val = existing.val
              /\ y.ref = IF from = side THEN existing.ref
                         ELSE IF s[side].tables[t].ref = None THEN None
                         ELSE IF ReferenceChanged(s, t) THEN Blank ELSE existing.ref
    BY <1>1, TargetOfOneSided
  <2> QED
    BY <1>1, <1>2, <1>4, <2>1
<1>6. u = ReferenceUnit(a, r) /\ x.ref # o.ref
  <2>1. \/ u = RenameUnit(a, r) /\ x.id # a[Opposite(B)].rows[r].id
        \/ u = ValueUnit(a, r) /\ x.val # a[Opposite(B)].rows[r].val
        \/ u = ReferenceUnit(a, r) /\ x.ref # a[Opposite(B)].rows[r].ref
    BY <1>1, <1>4, RowUnitsBySide
  <2> QED
    BY <1>1, <1>5, <2>1
<1>7. O # side /\ ReferenceChanged(s, t)
  <2>1. O # side
    BY <1>5, <1>6
  <2>2. side \in Sides
    BY <1>1, SideTaken DEF StructureSide
  <2>3. ReferenceChanged(s, t) \/ s[side].tables[t].ref = None
    BY <1>5, <1>6, <2>1
  <2>4. s[side].tables[t].ref = None => s[O].tables[t].ref # None
    <3>1. s[O].tables[t].ref = None => o.ref = None
      BY <1>1, <1>4, SideConforms
    <3> QED
      BY <1>5, <1>6, <2>1, <3>1
  <2> QED
    BY <1>1, <2>1, <2>2, <2>3, <2>4, UnchangedField
<1>8. StructureUnit(s, t) \notin p.applied
  BY <1>4, <1>7, AfterTables
<1>9. ReferenceChanged(a, t) /\ StructureDiffers(a, t)
  BY <1>1, <1>4, <1>7, <1>8, KeptStructure, StructureBySide
<1> QED
  BY <1>4, <1>6, <1>9 DEF ReferenceUnit

\* One whose unit was not applied stays on its side, under its id.
LEMMA KeptRow ==
  ASSUME NEW p, IsClear(p), NEW r \in Rows, Exists(p.snapshot, r),
         OneSidedRow(p.snapshot, r),
         TableOf(p.snapshot, r) \in OnBothSides(p.snapshot),
         ExistenceUnit(p.snapshot, r) \notin p.applied
  PROVE  LET s == p.snapshot
             a == After(p)
         IN  /\ Exists(a, r) /\ OneSidedRow(a, r)
             /\ \A side \in Sides : /\ a[side].rows[r] # None <=> s[side].rows[r] # None
                                    /\ s[side].rows[r] # None => a[side].rows[r].id = s[side].rows[r].id
<1> DEFINE s == p.snapshot
           a == After(p)
           B == p.base
           O == Opposite(p.base)
<1>1. /\ s \in GoodSnapshots /\ a \in GoodSnapshots /\ B \in Sides /\ O \in Sides
      /\ a[O] = s[O] /\ a[B] = Target(p) /\ IsPlan(p)
      /\ \A side \in Sides : side = B \/ side = O
  BY AfterIsGood, GoodSide, SideIs DEF IsClear, IsPlan
<1>2. SideTakenBy(p, ExistenceUnit(s, r)) = B
  BY <1>1, SideTaken
<1>3. /\ a[B].rows[r] = None <=> s[B].rows[r] = None
      /\ s[B].rows[r] # None => a[B].rows[r].id = s[B].rows[r].id
  BY <1>1, <1>2, TargetOfOneSided
<1>4. \A side \in Sides : /\ a[side].rows[r] # None <=> s[side].rows[r] # None
                          /\ s[side].rows[r] # None => a[side].rows[r].id = s[side].rows[r].id
  BY <1>1, <1>3
<1>5. Exists(a, r) /\ OneSidedRow(a, r)
  BY <1>1, <1>4, RowsBySide
<1> QED
  BY <1>4, <1>5

\* Rows that are on one side afterwards were, and were left alone.
LEMMA OneSidedAfter ==
  ASSUME NEW p, IsClear(p), NEW r \in Rows, Exists(After(p), r), OneSidedRow(After(p), r),
         TableOf(p.snapshot, r) \in OnBothSides(p.snapshot)
  PROVE  /\ Exists(p.snapshot, r) /\ OneSidedRow(p.snapshot, r)
         /\ ExistenceUnit(p.snapshot, r) \notin p.applied
<1> DEFINE s == p.snapshot
           a == After(p)
           B == p.base
           O == Opposite(p.base)
<1>1. /\ s \in GoodSnapshots /\ a \in GoodSnapshots /\ B \in Sides
      /\ a[O] = s[O] /\ a[B] = Target(p) /\ IsPlan(p)
  BY AfterIsGood DEF IsClear, IsPlan
<1>2. Exists(s, r)
  BY AfterRows
<1>3. OneSidedRow(s, r)
  <2> SUFFICES ASSUME ~OneSidedRow(s, r)
               PROVE  FALSE
    OBVIOUS
  <2>1. s[O].rows[r] # None
    BY <1>1, <1>2, RowsBySide
  <2>2. a[B].rows[r] # None
    BY <1>1, <1>2, TargetRow, MergedParts DEF LoadedRow
  <2> QED
    BY <1>1, <2>1, <2>2, RowsBySide
<1>4. ExistenceUnit(s, r) \notin p.applied
  <2> SUFFICES ASSUME ExistenceUnit(s, r) \in p.applied
               PROVE  FALSE
    OBVIOUS
  <2>1. SideTakenBy(p, ExistenceUnit(s, r)) = O
    BY <1>1, SideTaken
  <2>2. a[B].rows[r] = None <=> s[O].rows[r] = None
    BY <1>1, <1>2, <1>3, <2>1, TargetOfOneSided
  <2> QED
    BY <1>1, <2>2, RowsBySide
<1> QED
  BY <1>2, <1>3, <1>4

\* The unit of a row left alone is the same afterwards.
LEMMA KeptRowUnit ==
  ASSUME NEW p, IsClear(p), NEW r \in Rows, Exists(p.snapshot, r),
         OneSidedRow(p.snapshot, r),
         TableOf(p.snapshot, r) \in OnBothSides(p.snapshot),
         ExistenceUnit(p.snapshot, r) \notin p.applied
  PROVE  ExistenceUnit(After(p), r) = ExistenceUnit(p.snapshot, r)
<1> DEFINE s == p.snapshot
           a == After(p)
           t == TableOf(s, r)
<1>1. s \in GoodSnapshots /\ a \in GoodSnapshots
  BY AfterIsGood DEF IsClear, IsPlan
<1>2. PICK B \in Sides : s[B].rows[r] # None
  BY <1>1, GoodSide, SideIs DEF Exists, Sides
<1>3. Opposite(B) \in Sides
  BY <1>1, GoodSide, SideIs
<1>4. /\ Exists(a, r) /\ OneSidedRow(a, r) /\ TableOf(a, r) = t
      /\ a[B].rows[r] # None /\ a[B].rows[r].id = s[B].rows[r].id
  BY <1>2, KeptRow, AfterRows
<1>5. ASSUME NEW o \in Replaced(s, B, r)
      PROVE  o \in Replaced(a, B, r)
  <2>1. /\ o \in Rows /\ OneSidedRow(s, o) /\ s[Opposite(B)].rows[o] # None
        /\ TableOf(s, o) = t /\ s[Opposite(B)].rows[o].id = s[B].rows[r].id
    BY DEF Replaced
  <2>2. ExistenceUnit(s, o) \notin p.applied
    BY <1>1, <1>2, ReplacedShareTheirUnit
  <2>3. Exists(s, o)
    BY <1>1, <1>3, <2>1, RowsBySide
  <2>4. /\ Exists(a, o) /\ OneSidedRow(a, o) /\ a[Opposite(B)].rows[o] # None
        /\ a[Opposite(B)].rows[o].id = s[Opposite(B)].rows[o].id
    BY <1>3, <2>1, <2>2, <2>3, KeptRow
  <2>5. TableOf(a, o) = t
    BY <2>1, <2>4, AfterRows
  <2> QED
    BY <1>4, <2>1, <2>4, <2>5 DEF Replaced
<1>6. ASSUME NEW o \in Replaced(a, B, r)
      PROVE  o \in Replaced(s, B, r)
  <2>1. /\ o \in Rows /\ OneSidedRow(a, o) /\ a[Opposite(B)].rows[o] # None
        /\ TableOf(a, o) = t /\ a[Opposite(B)].rows[o].id = s[B].rows[r].id
    BY <1>4 DEF Replaced
  <2>2. Exists(a, o)
    BY <1>1, <1>3, <2>1, RowsBySide
  <2>3. TableOf(s, o) = t
    BY <2>1, <2>2, AfterRows
  <2>4. /\ Exists(s, o) /\ OneSidedRow(s, o) /\ ExistenceUnit(s, o) \notin p.applied
    BY <2>1, <2>2, <2>3, OneSidedAfter
  <2>5. /\ s[Opposite(B)].rows[o] # None
        /\ a[Opposite(B)].rows[o].id = s[Opposite(B)].rows[o].id
    BY <1>3, <2>1, <2>3, <2>4, KeptRow
  <2> QED
    BY <2>1, <2>3, <2>4, <2>5 DEF Replaced
<1>7. Replaced(a, B, r) = Replaced(s, B, r)
  BY <1>5, <1>6
<1> DEFINE unit(rows) ==
             IF rows # {} THEN Unit("rowReplace", {t}, {r} \cup rows)
             ELSE Unit(IF B = "head" THEN "rowDelete" ELSE "rowCreate", {t}, {r})
<1>8. ExistenceUnit(s, r) = unit(Replaced(s, B, r))
  BY <1>1, <1>2, ExistenceIs
<1>9. ExistenceUnit(a, r) = unit(Replaced(a, B, r))
  BY <1>1, <1>4, ExistenceIs
<1> HIDE DEF unit
<1> QED
  BY <1>7, <1>8, <1>9

\* The units an operation leaves are the units it did not apply.
LEMMA UnitsAfter ==
  ASSUME NEW p, IsClear(p)
  PROVE  Units(After(p)) = Units(p.snapshot) \ p.applied
<1> DEFINE s == p.snapshot
           a == After(p)
<1>1. s \in GoodSnapshots /\ a \in GoodSnapshots /\ p.base \in Sides
  BY AfterIsGood DEF IsClear, IsPlan
<1>2. ASSUME NEW t \in Tables, StructureDiffers(a, t)
      PROVE  StructureUnit(a, t) \in Units(s) \ p.applied
  <2>1. StructureUnit(s, t) \notin p.applied
    BY <1>2, SettledStructure
  <2> QED
    BY <1>1, <1>2, <2>1, KeptStructure, KeptStructureUnit, UnitsAre
<1>3. ASSUME NEW t \in Tables, StructureDiffers(s, t), StructureUnit(s, t) \notin p.applied
      PROVE  StructureUnit(s, t) \in Units(a)
  BY <1>1, <1>3, KeptStructure, KeptStructureUnit, UnitsAre
<1>4. ASSUME NEW u \in Units(a)
      PROVE  u \in Units(s) \ p.applied
  <2>1. CASE \E t \in Tables : StructureDiffers(a, t) /\ u = StructureUnit(a, t)
    BY <1>2, <2>1
  <2>2. ASSUME NEW r \in Rows, Exists(a, r), TableOf(a, r) \in OnBothSides(a), u \in RowUnits(a, r)
        PROVE  u \in Units(s) \ p.applied
    <3>1. Exists(s, r) /\ TableOf(a, r) = TableOf(s, r) /\ TableOf(s, r) \in Tables
      BY <1>1, <2>2, AfterRows, RowsBySide
    <3>2. TableOf(s, r) \in OnBothSides(s)
      BY <2>2, <3>1, SettledWithItsTable
    <3>3. CASE ~OneSidedRow(s, r)
      BY <1>1, <2>2, <3>1, <3>2, <3>3, SettledParts, UnitsAre
    <3>4. CASE OneSidedRow(s, r) /\ ExistenceUnit(s, r) \in p.applied
      BY <1>2, <2>2, <3>1, <3>2, <3>4, SettledRow
    <3>5. CASE OneSidedRow(s, r) /\ ExistenceUnit(s, r) \notin p.applied
      <4>1. OneSidedRow(a, r)
        BY <3>1, <3>2, <3>5, KeptRow
      <4>2. u = ExistenceUnit(s, r)
        BY <1>1, <2>2, <3>1, <3>2, <3>5, <4>1, KeptRowUnit, RowUnitsBySide
      <4>3. u \in RowUnits(s, r)
        BY <1>1, <3>5, <4>2, RowUnitsBySide
      <4> QED
        BY <1>1, <3>1, <3>2, <3>5, <4>2, <4>3, UnitsAre
    <3> QED
      BY <3>3, <3>4, <3>5
  <2> QED
    BY <1>1, <2>1, <2>2, UnitsAre
<1>5. ASSUME NEW u \in Units(s), u \notin p.applied
      PROVE  u \in Units(a)
  <2>1. CASE \E t \in Tables : StructureDiffers(s, t) /\ u = StructureUnit(s, t)
    BY <1>3, <1>5, <2>1
  <2>2. ASSUME NEW r \in Rows, Exists(s, r), TableOf(s, r) \in OnBothSides(s), u \in RowUnits(s, r)
        PROVE  u \in Units(a)
    <3>1. TableOf(s, r) \in OnBothSides(a)
      BY <2>2, AfterRows
    <3>2. CASE ~OneSidedRow(s, r)
      <4>1. Exists(a, r) /\ u \in RowUnits(a, r)
        BY <1>5, <2>2, <3>2, SettledParts
      <4> QED
        BY <1>1, <3>1, <4>1, AfterRows, UnitsAre
    <3>3. CASE OneSidedRow(s, r)
      <4>1. u = ExistenceUnit(s, r)
        BY <1>1, <2>2, <3>3, RowUnitsBySide
      <4>2. Exists(a, r) /\ OneSidedRow(a, r) /\ ExistenceUnit(a, r) = u
        BY <1>5, <2>2, <3>3, <4>1, KeptRow, KeptRowUnit
      <4>3. u \in RowUnits(a, r)
        BY <1>1, <4>2, RowUnitsBySide
      <4> QED
        BY <1>1, <3>1, <4>2, <4>3, AfterRows, UnitsAre
    <3> QED
      BY <3>2, <3>3
  <2> QED
    BY <1>1, <1>5, <2>1, <2>2, UnitsAre
<1> QED
  BY <1>4, <1>5

\* Whatever is selected, an operation settles exactly the units it applied, so a
\* draft can be published or reverted piece by piece.
THEOREM AppliedUnitsAreAlwaysSettled ==
  Spec => AppliedUnitsAreSettled
<1>1. ASSUME IInv, [Next]_vars
      PROVE  [applied' # {} => Units(Snapshot') = Units(Snapshot) \ applied']_vars
  <2>1. CASE applied' = {}
    BY <2>1
  <2>2. ASSUME NEW selected, CommitDraftChanges(selected) \/ RevertDraftChanges(selected)
        PROVE  Units(Snapshot') = Units(Snapshot) \ applied'
    <3>1. PICK operation \in Operations : MoveUnits(operation, applied')
      BY <2>2, ApplyMoves DEF Operations
    <3> QED
      BY <1>1, <3>1, MoveIs, UnitsAfter DEF Plan
  <2> QED
    BY <1>1, <2>1, <2>2 DEF Next
<1> QED
  BY <1>1, Inductive, PTL DEF Spec, AppliedUnitsAreSettled

-----------------------------------------------------------------------------
(* What a unit names. *)

\* The unit of a table names the table.
LEMMA TableOfUnit ==
  ASSUME NEW s, NEW t
  PROVE  /\ StructureUnit(s, t).kind = "structure" /\ StructureUnit(s, t).rows = {}
         /\ t \in StructureUnit(s, t).tables
BY DEF StructureUnit, Unit

\* The units of a row's id, of its value, of its reference and of its existence.
LEMMA PartUnits ==
  ASSUME NEW s, NEW r
  PROVE  /\ RenameUnit(s, r).kind = "rowRename"
         /\ RenameUnit(s, r).rows = {r} /\ RenameUnit(s, r).tables = {TableOf(s, r)}
         /\ ValueUnit(s, r).kind = "fieldVal"
         /\ ValueUnit(s, r).rows = {r} /\ ValueUnit(s, r).tables = {TableOf(s, r)}
BY DEF RenameUnit, ValueUnit, Unit

\* A reference belongs to the structure of its table where the field changed.
LEMMA ReferencePart ==
  ASSUME NEW s, NEW r
  PROVE  IF ReferenceChanged(s, TableOf(s, r))
           THEN /\ ReferenceUnit(s, r) = StructureUnit(s, TableOf(s, r))
                /\ ReferenceUnit(s, r).kind = "structure"
           ELSE /\ ReferenceUnit(s, r).kind = "fieldRef"
                /\ ReferenceUnit(s, r).rows = {r}
                /\ ReferenceUnit(s, r).tables = {TableOf(s, r)}
<1>1. CASE ReferenceChanged(s, TableOf(s, r))
  BY <1>1, TableOfUnit DEF ReferenceUnit
<1>2. CASE ~ReferenceChanged(s, TableOf(s, r))
  BY <1>2 DEF ReferenceUnit, Unit
<1> QED
  BY <1>1, <1>2

\* The unit of a row's existence holds the row.
LEMMA ExistencePart ==
  ASSUME NEW s, NEW r
  PROVE  /\ ExistenceUnit(s, r).kind \in {"rowReplace", "rowDelete", "rowCreate"}
         /\ r \in ExistenceUnit(s, r).rows /\ ExistenceUnit(s, r).tables = {TableOf(s, r)}
<1> DEFINE t == TableOf(s, r)
           one == IF s.head.rows[r] # None THEN "head" ELSE "draft"
           replaced == {o \in RowsOf(s[Opposite(one)], t) :
                          /\ OneSidedRow(s, o)
                          /\ s[Opposite(one)].rows[o].id = s[one].rows[r].id}
<1>1. ExistenceUnit(s, r) = IF replaced # {} THEN Unit("rowReplace", {t}, {r} \cup replaced)
                            ELSE Unit(IF one = "head" THEN "rowDelete" ELSE "rowCreate", {t}, {r})
  BY DEF ExistenceUnit
<1> HIDE DEF replaced
<1>2. CASE replaced # {}
  BY <1>1, <1>2 DEF Unit
<1>3. CASE replaced = {} /\ one = "head"
  BY <1>1, <1>3 DEF Unit
<1>4. CASE replaced = {} /\ one # "head"
  BY <1>1, <1>4 DEF Unit
<1> QED
  BY <1>2, <1>3, <1>4

\* A structure unit is the unit of each of its tables.
LEMMA UnitOfTable ==
  ASSUME NEW s \in GoodSnapshots, NEW u \in Units(s), u.kind = "structure", NEW t \in u.tables
  PROVE  t \in Tables /\ u = StructureUnit(s, t)
<1>1. "head" \in Sides
  BY DEF Sides
<1>2. ASSUME NEW v \in Tables, u = StructureUnit(s, v)
      PROVE  t \in Tables /\ u = StructureUnit(s, t)
  <2>1. CASE v \in OnOneSide(s)
    <3>1. t \in OnOneSide(s) /\ OneSidedId(s, t) = OneSidedId(s, v)
      BY <1>2, <2>1 DEF StructureUnit, Unit
    <3> QED
      BY <1>1, <1>2, <2>1, <3>1, TablesBySide DEF StructureUnit
  <2>2. CASE v \notin OnOneSide(s)
    <3>1. t = v
      BY <1>2, <2>2 DEF StructureUnit, Unit
    <3> QED
      BY <1>2, <3>1
  <2> QED
    BY <2>1, <2>2
<1>3. ASSUME NEW r \in Rows, Exists(s, r), u \in RowUnits(s, r)
      PROVE  u = StructureUnit(s, TableOf(s, r)) /\ TableOf(s, r) \in Tables
  <2>1. u # RenameUnit(s, r) /\ u # ValueUnit(s, r) /\ u # ExistenceUnit(s, r)
    <3>1. RenameUnit(s, r).kind # "structure" /\ ValueUnit(s, r).kind # "structure"
      BY PartUnits
    <3>2. ExistenceUnit(s, r).kind # "structure"
      BY ExistencePart
    <3> QED
      BY <3>1, <3>2
  <2>2. u = ReferenceUnit(s, r)
    BY <1>1, <1>3, <2>1, RowUnitsBySide
  <2>3. ReferenceChanged(s, TableOf(s, r))
    BY <2>2, ReferencePart
  <2> QED
    BY <1>1, <1>3, <2>2, <2>3, ReferencePart, RowsBySide
<1> QED
  BY <1>2, <1>3, UnitsAre

\* A unit of rows is a unit of each of its rows, which are of a table on both sides.
LEMMA UnitOfRow ==
  ASSUME NEW s \in GoodSnapshots, NEW u \in Units(s), u.kind # "structure", NEW r \in u.rows
  PROVE  /\ r \in Rows /\ Exists(s, r) /\ TableOf(s, r) \in OnBothSides(s)
         /\ u \in RowUnits(s, r) /\ u.tables = {TableOf(s, r)}
<1>1. "head" \in Sides
  BY DEF Sides
<1>2. PICK q \in Rows : Exists(s, q) /\ TableOf(s, q) \in OnBothSides(s) /\ u \in RowUnits(s, q)
  BY UnitsAre, TableOfUnit
<1>3. CASE ~OneSidedRow(s, q)
  <2>1. u = RenameUnit(s, q) \/ u = ValueUnit(s, q) \/ u = ReferenceUnit(s, q)
    BY <1>1, <1>2, <1>3, RowUnitsBySide
  <2>2. u.rows = {q} /\ u.tables = {TableOf(s, q)}
    <3>1. /\ RenameUnit(s, q).rows = {q} /\ RenameUnit(s, q).tables = {TableOf(s, q)}
          /\ ValueUnit(s, q).rows = {q} /\ ValueUnit(s, q).tables = {TableOf(s, q)}
      BY PartUnits
    <3>2. ReferenceUnit(s, q).kind # "structure" =>
            ReferenceUnit(s, q).rows = {q} /\ ReferenceUnit(s, q).tables = {TableOf(s, q)}
      BY ReferencePart
    <3> QED
      BY <2>1, <3>1, <3>2, Zenon
  <2> QED
    BY <1>2, <2>2
<1>4. CASE OneSidedRow(s, q)
  <2>1. u = ExistenceUnit(s, q)
    BY <1>1, <1>2, <1>4, RowUnitsBySide
  <2>2. PICK B \in Sides : s[B].rows[q] # None
    BY <1>2, GoodSide, SideIs DEF Exists, Sides
  <2>3. u.tables = {TableOf(s, q)} /\ u.rows \subseteq {q} \cup Replaced(s, B, q)
    BY <1>4, <2>1, <2>2, ExistenceIs DEF Unit
  <2>4. CASE r = q
    BY <1>2, <2>3, <2>4
  <2>5. CASE r \in Replaced(s, B, q)
    <3>1. /\ r \in Rows /\ OneSidedRow(s, r) /\ TableOf(s, r) = TableOf(s, q)
          /\ s[Opposite(B)].rows[r] # None
      BY <2>5 DEF Replaced
    <3>2. ExistenceUnit(s, r) = u
      BY <1>4, <2>1, <2>2, <2>5, ReplacedShareTheirUnit
    <3>3. Exists(s, r)
      BY <3>1, RowsBySide
    <3> QED
      BY <1>1, <1>2, <2>3, <3>1, <3>2, <3>3, RowUnitsBySide
  <2> QED
    BY <2>3, <2>4, <2>5
<1> QED
  BY <1>3, <1>4

\* What the kind of a row's unit tells.
LEMMA UnitKind ==
  ASSUME NEW s \in GoodSnapshots, NEW r \in Rows, NEW u \in RowUnits(s, r)
  PROVE  /\ u.kind \in {"rowRename", "fieldVal", "fieldRef"} => ~OneSidedRow(s, r)
         /\ u.kind = "fieldRef" => ~ReferenceChanged(s, TableOf(s, r))
         /\ u.kind \in {"rowReplace", "rowDelete", "rowCreate"} =>
              OneSidedRow(s, r) /\ u = ExistenceUnit(s, r)
<1>1. "head" \in Sides
  BY DEF Sides
<1>2. CASE OneSidedRow(s, r)
  <2>1. u = ExistenceUnit(s, r)
    BY <1>1, <1>2, RowUnitsBySide
  <2>2. u.kind \in {"rowReplace", "rowDelete", "rowCreate"}
    BY <2>1, ExistencePart
  <2> QED
    BY <1>2, <2>1, <2>2
<1>3. CASE ~OneSidedRow(s, r)
  <2>1. u = RenameUnit(s, r) \/ u = ValueUnit(s, r) \/ u = ReferenceUnit(s, r)
    BY <1>1, <1>3, RowUnitsBySide
  <2>2. \/ u.kind \in {"rowRename", "fieldVal", "structure"}
        \/ u.kind = "fieldRef" /\ ~ReferenceChanged(s, TableOf(s, r))
    <3>1. RenameUnit(s, r).kind = "rowRename" /\ ValueUnit(s, r).kind = "fieldVal"
      BY PartUnits
    <3>2. \/ ReferenceUnit(s, r).kind = "structure"
          \/ ReferenceUnit(s, r).kind = "fieldRef" /\ ~ReferenceChanged(s, TableOf(s, r))
      BY ReferencePart
    <3> QED
      BY <2>1, <3>1, <3>2
  <2> QED
    BY <1>3, <2>2
<1> QED
  BY <1>2, <1>3

-----------------------------------------------------------------------------
(* Two plans of one commit with one fingerprint. *)

SameCommit(p, q) ==
  /\ IsClear(p) /\ IsClear(q)
  /\ p.base = "head" /\ q.base = "head"
  /\ p.snapshot.head = q.snapshot.head
  /\ p.applied = q.applied
  /\ p.applied \subseteq Units(p.snapshot) /\ p.applied \subseteq Units(q.snapshot)
  /\ \A u \in p.applied : Covered(p.snapshot, u) = Covered(q.snapshot, u)

\* Either plan may be called the first.
LEMMA SameCommitOfTwo ==
  ASSUME NEW p, NEW q, SameCommit(p, q)
  PROVE  SameCommit(q, p)
BY DEF SameCommit

\* What such plans share.
LEMMA SharedParts ==
  ASSUME NEW p, NEW q, SameCommit(p, q)
  PROVE  /\ IsPlan(p) /\ IsPlan(q)
         /\ p.snapshot \in GoodSnapshots /\ q.snapshot \in GoodSnapshots
         /\ "head" \in Sides /\ "draft" \in Sides
         /\ Opposite("head") = "draft" /\ Opposite("draft") = "head"
         /\ p.snapshot["head"] = q.snapshot["head"]
         /\ p.snapshot["head"] = p.snapshot.head /\ q.snapshot["head"] = q.snapshot.head
         /\ p.snapshot["draft"] = p.snapshot.draft /\ q.snapshot["draft"] = q.snapshot.draft
         /\ \A unit : SideTakenBy(p, unit) = SideTakenBy(q, unit)
         /\ \A unit : SideTakenBy(p, unit) = IF unit \in p.applied THEN "draft" ELSE "head"
<1>1. /\ IsPlan(p) /\ IsPlan(q)
      /\ p.snapshot \in GoodSnapshots /\ q.snapshot \in GoodSnapshots
      /\ "head" \in Sides /\ "draft" \in Sides
      /\ Opposite("head") = "draft" /\ Opposite("draft") = "head"
  BY DEF SameCommit, IsClear, IsPlan, Sides, Opposite
<1>2. /\ p.snapshot["head"] = p.snapshot.head /\ q.snapshot["head"] = q.snapshot.head
      /\ p.snapshot["draft"] = p.snapshot.draft /\ q.snapshot["draft"] = q.snapshot.draft
  BY <1>1, GoodSide, SideIs
<1>3. \A unit : /\ SideTakenBy(p, unit) = SideTakenBy(q, unit)
                /\ SideTakenBy(p, unit) = IF unit \in p.applied THEN "draft" ELSE "head"
  BY <1>1 DEF SameCommit, SideTakenBy
<1>4. p.snapshot["head"] = q.snapshot["head"]
  BY <1>2 DEF SameCommit
<1> QED
  BY <1>1, <1>2, <1>3, <1>4

\* A structure taken by one plan is taken by the other, as one unit.
LEMMA SharedStructureUnit ==
  ASSUME NEW p, NEW q, SameCommit(p, q), NEW t \in Tables,
         StructureUnit(p.snapshot, t) \in p.applied
  PROVE  StructureUnit(q.snapshot, t) = StructureUnit(p.snapshot, t)
<1> DEFINE u == StructureUnit(p.snapshot, t)
<1>1. u \in Units(q.snapshot)
  BY DEF SameCommit
<1>2. u.kind = "structure" /\ t \in u.tables
  BY TableOfUnit
<1>3. q.snapshot \in GoodSnapshots
  BY SharedParts
<1> HIDE DEF u
<1>4. u = StructureUnit(q.snapshot, t)
  BY <1>1, <1>2, <1>3, UnitOfTable
<1> QED
  BY <1>4 DEF u

\* Both plans take a structure from one side.
LEMMA SharedStructureSide ==
  ASSUME NEW p, NEW q, SameCommit(p, q), NEW t \in Tables
  PROVE  /\ StructureUnit(p.snapshot, t) \in p.applied <=> StructureUnit(q.snapshot, t) \in p.applied
         /\ StructureSide(p, t) = IF StructureUnit(p.snapshot, t) \in p.applied THEN "draft" ELSE "head"
         /\ StructureSide(q, t) = StructureSide(p, t)
<1>1. StructureUnit(p.snapshot, t) \in p.applied => StructureUnit(q.snapshot, t) \in p.applied
  BY SharedStructureUnit
<1>2. SameCommit(q, p) /\ q.applied = p.applied
  BY SameCommitOfTwo DEF SameCommit
<1>3. StructureUnit(q.snapshot, t) \in p.applied => StructureUnit(p.snapshot, t) \in p.applied
  BY <1>2, SharedStructureUnit
<1>4. /\ StructureSide(p, t) = IF StructureUnit(p.snapshot, t) \in p.applied THEN "draft" ELSE "head"
      /\ StructureSide(q, t) = IF StructureUnit(q.snapshot, t) \in p.applied THEN "draft" ELSE "head"
  BY SharedParts DEF StructureSide
<1> QED
  BY <1>1, <1>3, <1>4

\* A taken structure brings one schema, one record of its history and one set of
\* rows.
LEMMA SharedTable ==
  ASSUME NEW p, NEW q, SameCommit(p, q), NEW t \in Tables,
         StructureUnit(p.snapshot, t) \in p.applied
  PROVE  LET s == p.snapshot
             z == q.snapshot
         IN  /\ s.draft.tables[t] = z.draft.tables[t]
             /\ s.recorded[t] = z.recorded[t]
             /\ \A r : r \in RowsOf(s.draft, t) => r \in RowsOf(z.draft, t)
                                                   /\ s.draft.rows[r] = z.draft.rows[r]
<1> DEFINE s == p.snapshot
           z == q.snapshot
           u == StructureUnit(s, t)
           RowsFrom(x, v) == {<<r, x.draft.rows[r]>> : r \in RowsOf(x.draft, v)}
           Brought(x, v) == <<v, x.draft.tables[v], x.recorded[v], RowsFrom(x, v)>>
<1>1. u.kind = "structure" /\ t \in u.tables
  BY TableOfUnit
<1>2. Covered(s, u) = Covered(z, u)
  BY DEF SameCommit
<1> HIDE DEF u
<1>3. \A x : Covered(x, u).tables = {Brought(x, v) : v \in {w \in u.tables : u.kind = "structure"}}
  BY DEF Covered
<1>4. Brought(s, t) \in Covered(z, u).tables
  <2>1. Brought(s, t) \in Covered(s, u).tables
    BY <1>1, <1>3
  <2> QED
    BY <1>2, <2>1
<1>5. PICK v \in u.tables : Brought(s, t) = Brought(z, v)
  BY <1>3, <1>4
<1>6. /\ t = v /\ s.draft.tables[t] = z.draft.tables[v]
      /\ s.recorded[t] = z.recorded[v] /\ RowsFrom(s, t) = RowsFrom(z, v)
  <2> HIDE DEF RowsFrom
  <2> QED
    BY <1>5
<1>7. ASSUME NEW r \in RowsOf(s.draft, t)
      PROVE  r \in RowsOf(z.draft, t) /\ s.draft.rows[r] = z.draft.rows[r]
  <2>1. <<r, s.draft.rows[r]>> \in RowsFrom(z, t)
    BY <1>6, <1>7
  <2>2. PICK o \in RowsOf(z.draft, t) : <<r, s.draft.rows[r]>> = <<o, z.draft.rows[o]>>
    BY <2>1
  <2>3. r = o /\ s.draft.rows[r] = z.draft.rows[o]
    BY <2>2
  <2> QED
    BY <2>3
<1> QED
  BY <1>6, <1>7

\* A taken unit brings one version of each of its rows.
LEMMA SharedRow ==
  ASSUME NEW p, NEW q, SameCommit(p, q), NEW u \in p.applied, NEW r \in u.rows
  PROVE  p.snapshot.draft.rows[r] = q.snapshot.draft.rows[r]
<1> DEFINE s == p.snapshot
           z == q.snapshot
<1>1. Covered(s, u) = Covered(z, u)
  BY DEF SameCommit
<1>2. \A x : Covered(x, u).rows = {<<o, x.draft.rows[o]>> : o \in u.rows}
  BY DEF Covered
<1>3. <<r, s.draft.rows[r]>> \in Covered(z, u).rows
  <2>1. <<r, s.draft.rows[r]>> \in Covered(s, u).rows
    BY <1>2
  <2> QED
    BY <1>1, <2>1
<1>4. PICK o \in u.rows : <<r, s.draft.rows[r]>> = <<o, z.draft.rows[o]>>
  BY <1>2, <1>3
<1>5. r = o /\ s.draft.rows[r] = z.draft.rows[o]
  BY <1>4
<1> QED
  BY <1>5

\* The targets have the same tables.
LEMMA SharedTables ==
  ASSUME NEW p, NEW q, SameCommit(p, q)
  PROVE  Target(p).tables = Target(q).tables
<1>1. ASSUME NEW t \in Tables
      PROVE  Target(p).tables[t] = Target(q).tables[t]
  <2>1. /\ Target(p).tables[t] = p.snapshot[StructureSide(p, t)].tables[t]
        /\ Target(q).tables[t] = q.snapshot[StructureSide(q, t)].tables[t]
    BY SharedParts, TargetTables
  <2>2. CASE StructureUnit(p.snapshot, t) \in p.applied
    <3>1. StructureSide(p, t) = "draft" /\ StructureSide(q, t) = "draft"
      BY <2>2, SharedStructureSide
    <3>2. p.snapshot.draft.tables[t] = q.snapshot.draft.tables[t]
      BY <2>2, SharedTable
    <3> QED
      BY <2>1, <3>1, <3>2, SharedParts
  <2>3. CASE StructureUnit(p.snapshot, t) \notin p.applied
    <3>1. StructureSide(p, t) = "head" /\ StructureSide(q, t) = "head"
      BY <2>3, SharedStructureSide
    <3> QED
      BY <2>1, <3>1, SharedParts
  <2> QED
    BY <2>2, <2>3
<1>2. /\ Target(p).tables \in [Tables -> TableRecord \cup {None}]
      /\ Target(q).tables \in [Tables -> TableRecord \cup {None}]
  BY SharedParts, TargetTables
<1> QED
  BY <1>1, <1>2

\* A taken structure is on both sides, and its field changed, in both plans or in
\* neither.
LEMMA SharedReferenceChanged ==
  ASSUME NEW p, NEW q, SameCommit(p, q), NEW t \in Tables,
         StructureUnit(p.snapshot, t) \in p.applied
  PROVE  /\ t \in OnBothSides(p.snapshot) <=> t \in OnBothSides(q.snapshot)
         /\ ReferenceChanged(p.snapshot, t) <=> ReferenceChanged(q.snapshot, t)
<1> DEFINE s == p.snapshot
           z == q.snapshot
<1>1. /\ s \in GoodSnapshots /\ z \in GoodSnapshots /\ "head" \in Sides
      /\ s["head"] = z["head"] /\ Opposite("head") = "draft"
      /\ s["draft"] \in Content /\ z["draft"] \in Content /\ s["head"] \in Content
      /\ s["draft"] = s.draft /\ z["draft"] = z.draft
  <2>1. s["draft"] \in Content /\ z["draft"] \in Content /\ s["head"] \in Content
    BY SharedParts, GoodSide
  <2> QED
    BY <2>1, SharedParts
<1>2. s["draft"].tables[t] = z["draft"].tables[t] /\ s.recorded[t] = z.recorded[t]
  BY <1>1, SharedTable
<1>3. t \in OnBothSides(s) <=> t \in OnBothSides(z)
  <2>1. t \in TablesOf(s["draft"]) <=> t \in TablesOf(z["draft"])
    BY <1>1, <1>2, ContentIs
  <2>2. /\ OnBothSides(s) = TablesOf(s["head"]) \cap TablesOf(s["draft"])
        /\ OnBothSides(z) = TablesOf(z["head"]) \cap TablesOf(z["draft"])
    BY <1>1, TablesBySide
  <2> QED
    BY <1>1, <2>1, <2>2
<1>4. ASSUME t \in OnBothSides(s)
      PROVE  Identity(s["draft"], s["draft"].tables[t].ref) = Identity(z["draft"], z["draft"].tables[t].ref)
  <2>1. StructureSide(p, t) = "draft" /\ StructureSide(q, t) = "draft"
    BY SharedStructureSide
  <2>2. /\ Target(p).tables[t] = s["draft"].tables[t] /\ Target(q).tables[t] = z["draft"].tables[t]
        /\ IsClear(p) /\ IsClear(q)
    BY <2>1, SharedParts, TargetTables DEF SameCommit
  <2>3. t \in TablesOf(s["draft"])
    BY <1>1, <1>4, TablesBySide
  <2>4. t \in TablesOf(Target(p)) /\ t \in TablesOf(Target(q))
    BY <1>2, <2>2, <2>3 DEF TablesOf
  <2>5. /\ Identity(Target(p), Target(p).tables[t].ref) = Identity(s["draft"], s["draft"].tables[t].ref)
        /\ Identity(Target(q), Target(q).tables[t].ref) = Identity(z["draft"], z["draft"].tables[t].ref)
    BY <2>1, <2>2, <2>4, TargetMeaning
  <2>6. ASSUME NEW id
        PROVE  Identity(Target(p), id) = Identity(Target(q), id)
    <3>1. TablesOf(Target(p)) = TablesOf(Target(q))
      BY SharedTables, Zenon DEF TablesOf
    <3>2. TableNamed(Target(p), id) = TableNamed(Target(q), id)
      BY <3>1, SharedTables, Zenon DEF TableNamed
    <3> QED
      BY <3>2 DEF Identity
  <2> QED
    BY <2>2, <1>2, <2>5, <2>6
<1>5. /\ ReferenceChanged(s, t) <=>
           /\ t \in OnBothSides(s)
           /\ \/ "reference" \in s.recorded[t]
              \/ Identity(s["head"], s["head"].tables[t].ref) # Identity(s["draft"], s["draft"].tables[t].ref)
      /\ ReferenceChanged(z, t) <=>
           /\ t \in OnBothSides(z)
           /\ \/ "reference" \in z.recorded[t]
              \/ Identity(z["head"], z["head"].tables[t].ref) # Identity(z["draft"], z["draft"].tables[t].ref)
  BY <1>1, StructureBySide
<1> QED
  <2> HIDE DEF s, z
  <2>1. ReferenceChanged(s, t) <=> ReferenceChanged(z, t)
    BY <1>1, <1>2, <1>3, <1>4, <1>5
  <2> QED
    BY <1>3, <2>1 DEF s, z

\* The rows of a taken structure are the same in both plans.
LEMMA SharedRows ==
  ASSUME NEW p, NEW q, SameCommit(p, q), NEW r \in Rows, Exists(p.snapshot, r),
         StructureUnit(p.snapshot, TableOf(p.snapshot, r)) \in p.applied
  PROVE  /\ \A B \in Sides : p.snapshot[B].rows[r] = q.snapshot[B].rows[r]
         /\ TableOf(q.snapshot, r) = TableOf(p.snapshot, r) /\ Exists(q.snapshot, r)
         /\ OneSidedRow(q.snapshot, r) <=> OneSidedRow(p.snapshot, r)
<1> DEFINE s == p.snapshot
           z == q.snapshot
           t == TableOf(s, r)
<1>1. /\ s \in GoodSnapshots /\ z \in GoodSnapshots /\ "head" \in Sides /\ "draft" \in Sides
      /\ s["head"] = z["head"] /\ Opposite("head") = "draft" /\ Opposite("draft") = "head"
      /\ s["head"] = s.head /\ z["head"] = z.head
      /\ s["draft"] = s.draft /\ z["draft"] = z.draft
      /\ SameCommit(q, p) /\ q.applied = p.applied
  BY SharedParts, SameCommitOfTwo DEF SameCommit
<1>2. t \in Tables
  BY <1>1, RowsBySide
<1>3. StructureUnit(z, t) \in q.applied
  BY <1>1, <1>2, SharedStructureSide
<1>4. /\ s["draft"].rows[r] # None <=> r \in RowsOf(s["draft"], t)
      /\ r \in RowsOf(z["draft"], t) <=> z["draft"].rows[r] # None /\ TableOf(z, r) = t
  <2>1. RowsOf(s["draft"], t) = {o \in Rows : s["draft"].rows[o] # None /\ TableOf(s, o) = t}
    <3>1. s \in GoodSnapshots /\ "draft" \in Sides
      BY <1>1
    <3> HIDE DEF s, t
    <3> QED
      BY <3>1, RowsOfSide
  <2>2. RowsOf(z["draft"], t) = {o \in Rows : z["draft"].rows[o] # None /\ TableOf(z, o) = t}
    <3>1. z \in GoodSnapshots /\ "draft" \in Sides
      BY <1>1
    <3> HIDE DEF z, t
    <3> QED
      BY <3>1, RowsOfSide
  <2> HIDE DEF s, z
  <2> QED
    BY <2>1, <2>2
<1>5. z["draft"].rows[r] # None => r \in RowsOf(z["draft"], t)
  <2>1. CASE s["head"].rows[r] # None
    <3>1. TableOf(z, r) = z.head.rows[r].table /\ t = s.head.rows[r].table
      BY <1>1, <2>1 DEF TableOf
    <3> QED
      BY <1>1, <1>4, <3>1
  <2>2. CASE s["head"].rows[r] = None
    <3>1. s["draft"].rows[r] # None
      BY <1>1, <2>2 DEF Exists
    <3> QED
      BY <1>1, <1>2, <1>4, <3>1, SharedTable
  <2> QED
    BY <2>1, <2>2
<1>6. s["draft"].rows[r] = z["draft"].rows[r]
  <2>1. CASE s["draft"].rows[r] # None
    BY <1>1, <1>2, <1>4, <2>1, SharedTable
  <2>2. CASE z["draft"].rows[r] # None
    BY <1>1, <1>2, <1>3, <1>5, <2>2, SharedTable
  <2> QED
    BY <2>1, <2>2
<1>7. \A B \in Sides : s[B].rows[r] = z[B].rows[r]
  BY <1>1, <1>6 DEF Sides
<1>8. s.head.rows[r] = z.head.rows[r] /\ s.draft.rows[r] = z.draft.rows[r]
  BY <1>1, <1>6
<1> QED
  BY <1>7, <1>8 DEF TableOf, Exists, OneSidedRow

\* Rows of two targets are equal when their fields are.
LEMMA EqualRows ==
  ASSUME NEW p, IsPlan(p), NEW q, IsPlan(q), NEW r \in Rows,
         LET x == Target(p).rows[r]
             y == Target(q).rows[r]
         IN  /\ x = None <=> y = None
             /\ x # None => x.table = y.table /\ x.id = y.id /\ x.val = y.val /\ x.ref = y.ref
  PROVE  Target(p).rows[r] = Target(q).rows[r]
<1> DEFINE x == Target(p).rows[r]
           y == Target(q).rows[r]
<1>1. CASE x = None
  BY <1>1
<1>2. CASE x # None
  <2>1. x \in RowRecord /\ y \in RowRecord
    BY <1>2, TargetRowParts
  <2>2. /\ x = [table |-> x.table, id |-> x.id, val |-> x.val, ref |-> x.ref]
        /\ y = [table |-> y.table, id |-> y.id, val |-> y.val, ref |-> y.ref]
    BY <2>1 DEF RowRecord
  <2> QED
    BY <1>2, <2>2
<1> QED
  BY <1>1, <1>2

\* A row of a taken structure that is on one side has one unit in both plans.
LEMMA SharedExistenceUnit ==
  ASSUME NEW p, NEW q, SameCommit(p, q), NEW r \in Rows, Exists(p.snapshot, r),
         StructureUnit(p.snapshot, TableOf(p.snapshot, r)) \in p.applied,
         OneSidedRow(p.snapshot, r)
  PROVE  ExistenceUnit(q.snapshot, r) = ExistenceUnit(p.snapshot, r)
<1> DEFINE s == p.snapshot
           z == q.snapshot
           t == TableOf(s, r)
<1>1. s \in GoodSnapshots /\ z \in GoodSnapshots /\ SameCommit(q, p) /\ q.applied = p.applied
  BY SharedParts, SameCommitOfTwo DEF SameCommit
<1>2. PICK B \in Sides : s[B].rows[r] # None
  BY <1>1, GoodSide, SideIs DEF Exists, Sides
<1>3. Opposite(B) \in Sides
  BY <1>1, GoodSide, SideIs
<1>4. /\ Exists(z, r) /\ OneSidedRow(z, r) /\ TableOf(z, r) = t
      /\ z[B].rows[r] = s[B].rows[r]
  BY SharedRows
<1>5. t \in Tables
  BY <1>1, RowsBySide, "head" \in Sides DEF Sides
<1>6. StructureUnit(z, t) \in q.applied
  BY <1>1, <1>5, SharedStructureSide
<1>7. ASSUME NEW o \in Replaced(s, B, r)
      PROVE  o \in Replaced(z, B, r)
  <2>1. /\ o \in Rows /\ OneSidedRow(s, o) /\ s[Opposite(B)].rows[o] # None
        /\ TableOf(s, o) = t /\ s[Opposite(B)].rows[o].id = s[B].rows[r].id
    BY DEF Replaced
  <2>2. Exists(s, o)
    BY <1>1, <1>3, <2>1, RowsBySide
  <2>3. /\ z[Opposite(B)].rows[o] = s[Opposite(B)].rows[o]
        /\ TableOf(z, o) = t /\ OneSidedRow(z, o)
    BY <1>3, <2>1, <2>2, SharedRows
  <2> QED
    BY <1>4, <2>1, <2>3 DEF Replaced
<1>8. ASSUME NEW o \in Replaced(z, B, r)
      PROVE  o \in Replaced(s, B, r)
  <2>1. /\ o \in Rows /\ OneSidedRow(z, o) /\ z[Opposite(B)].rows[o] # None
        /\ TableOf(z, o) = t /\ z[Opposite(B)].rows[o].id = s[B].rows[r].id
    BY <1>4 DEF Replaced
  <2>2. Exists(z, o)
    BY <1>1, <1>3, <2>1, RowsBySide
  <2>3. /\ s[Opposite(B)].rows[o] = z[Opposite(B)].rows[o]
        /\ TableOf(s, o) = t /\ OneSidedRow(s, o)
    BY <1>1, <1>3, <1>6, <2>1, <2>2, SharedRows
  <2> QED
    BY <2>1, <2>3 DEF Replaced
<1>9. Replaced(z, B, r) = Replaced(s, B, r)
  BY <1>7, <1>8
<1>10. ExistenceUnit(s, r) = IF Replaced(s, B, r) # {}
                               THEN Unit("rowReplace", {t}, {r} \cup Replaced(s, B, r))
                               ELSE Unit(IF B = "head" THEN "rowDelete" ELSE "rowCreate", {t}, {r})
  BY <1>1, <1>2, ExistenceIs
<1>11. ExistenceUnit(z, r) = IF Replaced(z, B, r) # {}
                               THEN Unit("rowReplace", {t}, {r} \cup Replaced(z, B, r))
                               ELSE Unit(IF B = "head" THEN "rowDelete" ELSE "rowCreate", {t}, {r})
  <2>1. ExistenceUnit(z, r) =
          IF Replaced(z, B, r) # {}
            THEN Unit("rowReplace", {TableOf(z, r)}, {r} \cup Replaced(z, B, r))
            ELSE Unit(IF B = "head" THEN "rowDelete" ELSE "rowCreate", {TableOf(z, r)}, {r})
    <3>1. z \in GoodSnapshots /\ OneSidedRow(z, r) /\ z[B].rows[r] # None
      BY <1>1, <1>2, <1>4
    <3> HIDE DEF z, s
    <3> QED
      BY <3>1, ExistenceIs
  <2> QED
    BY <1>4, <2>1
<1> QED
  BY <1>9, <1>10, <1>11

\* A row of a taken structure is published as the same row.
LEMMA SharedRowOfStructure ==
  ASSUME NEW p, NEW q, SameCommit(p, q), NEW r \in Rows, Exists(p.snapshot, r),
         StructureUnit(p.snapshot, TableOf(p.snapshot, r)) \in p.applied
  PROVE  Target(p).rows[r] = Target(q).rows[r]
<1> DEFINE s == p.snapshot
           z == q.snapshot
           t == TableOf(s, r)
<1>1. /\ s \in GoodSnapshots /\ z \in GoodSnapshots /\ IsPlan(p) /\ IsPlan(q)
      /\ \A unit : SideTakenBy(p, unit) = SideTakenBy(q, unit)
      /\ "head" \in Sides /\ "draft" \in Sides
  BY SharedParts
<1>2. t \in Tables
  BY <1>1, RowsBySide
<1>3. /\ StructureSide(p, t) = "draft" /\ StructureSide(q, t) = "draft"
      /\ s["draft"].tables[t] = z["draft"].tables[t]
      /\ StructureUnit(z, t) = StructureUnit(s, t)
  <2>1. s.draft.tables[t] = z.draft.tables[t] /\ StructureUnit(z, t) = StructureUnit(s, t)
    BY <1>2, SharedTable, SharedStructureUnit
  <2> QED
    BY <1>2, <2>1, SharedStructureSide, SharedParts
<1>4. /\ \A B \in Sides : s[B].rows[r] = z[B].rows[r]
      /\ TableOf(z, r) = t /\ Exists(z, r)
      /\ OneSidedRow(z, r) <=> OneSidedRow(s, r)
  BY SharedRows
<1>5. /\ t \in OnBothSides(s) <=> t \in OnBothSides(z)
      /\ ReferenceChanged(s, t) <=> ReferenceChanged(z, t)
  BY <1>2, SharedReferenceChanged
<1>6. CASE t \notin OnBothSides(s)
  <2>1. r \notin Loaded(s, t) /\ r \notin Loaded(z, t)
    BY <1>5, <1>6 DEF Loaded
  <2>2. /\ Target(p).rows[r] = s[StructureSide(p, t)].rows[r]
        /\ Target(q).rows[r] = z[StructureSide(q, t)].rows[r]
    BY <1>1, <1>4, <2>1, TargetRow
  <2> QED
    BY <1>1, <1>3, <1>4, <2>2
<1>7. CASE t \in OnBothSides(s) /\ OneSidedRow(s, r)
  <2> DEFINE side == SideTakenBy(p, ExistenceUnit(s, r))
             existing == s[side].rows[r]
             x == Target(p).rows[r]
             y == Target(q).rows[r]
  <2>1. ExistenceUnit(z, r) = ExistenceUnit(s, r)
    BY <1>7, SharedExistenceUnit
  <2>2. side \in Sides /\ side = SideTakenBy(q, ExistenceUnit(z, r)) /\ z[side].rows[r] = existing
    BY <1>1, <1>4, <2>1, SideTaken
  <2>3. /\ x = None <=> existing = None
        /\ existing # None =>
             /\ x.table = t /\ x.id = existing.id /\ x.val = existing.val
             /\ x.ref = IF side = StructureSide(p, t) THEN existing.ref
                        ELSE IF s[StructureSide(p, t)].tables[t].ref = None THEN None
                        ELSE IF ReferenceChanged(s, t) THEN Blank
                        ELSE existing.ref
    BY <1>1, <1>7, TargetOfOneSided
  <2>4. /\ y = None <=> z[side].rows[r] = None
        /\ z[side].rows[r] # None =>
             /\ y.table = t /\ y.id = z[side].rows[r].id /\ y.val = z[side].rows[r].val
             /\ y.ref = IF side = StructureSide(q, t) THEN z[side].rows[r].ref
                        ELSE IF z[StructureSide(q, t)].tables[t].ref = None THEN None
                        ELSE IF ReferenceChanged(z, t) THEN Blank
                        ELSE z[side].rows[r].ref
    <3>1. /\ IsPlan(q) /\ Exists(z, r) /\ OneSidedRow(z, r) /\ TableOf(z, r) = t
          /\ t \in OnBothSides(z)
      BY <1>1, <1>4, <1>5, <1>7
    <3> HIDE DEF s, z, t, side, existing, x
    <3>2. LET from == SideTakenBy(q, ExistenceUnit(z, r))
              taken == z[from].rows[r]
          IN  /\ y = None <=> taken = None
              /\ taken # None =>
                   /\ y.table = t /\ y.id = taken.id /\ y.val = taken.val
                   /\ y.ref = IF from = StructureSide(q, t) THEN taken.ref
                              ELSE IF z[StructureSide(q, t)].tables[t].ref = None THEN None
                              ELSE IF ReferenceChanged(z, t) THEN Blank ELSE taken.ref
      BY <3>1, TargetOfOneSided DEF z
    <3> QED
      BY <2>2, <3>2
  <2>5. s[StructureSide(p, t)].tables[t].ref = z[StructureSide(q, t)].tables[t].ref
    BY <1>3
  <2> HIDE DEF side, existing
  <2>6. /\ x = None <=> y = None
        /\ x # None => x.table = y.table /\ x.id = y.id /\ x.val = y.val /\ x.ref = y.ref
    BY <1>3, <1>5, <2>2, <2>3, <2>4, <2>5
  <2> QED
    BY <1>1, <2>6, EqualRows
<1>8. CASE t \in OnBothSides(s) /\ ~OneSidedRow(s, r)
  <2>1. /\ RenameUnit(z, r) = RenameUnit(s, r) /\ ValueUnit(z, r) = ValueUnit(s, r)
        /\ ReferenceUnit(z, r) = ReferenceUnit(s, r)
    BY <1>3, <1>4, <1>5 DEF RenameUnit, ValueUnit, ReferenceUnit
  <2>2. MergedRow(p, t, r) = MergedRow(q, t, r)
    <3> DEFINE i == SideTakenBy(p, RenameUnit(s, r))
               v == SideTakenBy(p, ValueUnit(s, r))
               f == SideTakenBy(p, ReferenceUnit(s, r))
    <3>1. MergedRow(p, t, r) = [table |-> t, id |-> s[i].rows[r].id,
                                val |-> s[v].rows[r].val, ref |-> s[f].rows[r].ref]
      BY DEF MergedRow
    <3>2. /\ SideTakenBy(q, RenameUnit(z, r)) = i /\ SideTakenBy(q, ValueUnit(z, r)) = v
          /\ SideTakenBy(q, ReferenceUnit(z, r)) = f
      BY <1>1, <2>1
    <3>3. MergedRow(q, t, r) = [table |-> t, id |-> z[i].rows[r].id,
                                val |-> z[v].rows[r].val, ref |-> z[f].rows[r].ref]
      BY <3>2 DEF MergedRow
    <3>4. i \in Sides /\ v \in Sides /\ f \in Sides
      BY <1>1, SideTaken
    <3>5. s[i].rows[r] = z[i].rows[r] /\ s[v].rows[r] = z[v].rows[r] /\ s[f].rows[r] = z[f].rows[r]
      BY <1>4, <3>4
    <3> QED
      BY <3>1, <3>3, <3>5
  <2>3. /\ Target(p).rows[r] = LoadedRow(p, t, r) /\ Target(q).rows[r] = LoadedRow(q, t, r)
    BY <1>1, <1>4, <1>5, <1>8, TargetRow
  <2>4. LoadedRow(p, t, r) = MergedRow(p, t, r) /\ LoadedRow(q, t, r) = MergedRow(q, t, r)
    BY <1>4, <1>8 DEF LoadedRow
  <2> QED
    BY <2>2, <2>3, <2>4
<1> QED
  BY <1>6, <1>7, <1>8

\* A row none of whose units is taken, nor its structure, is published as the head
\* has it.
LEMMA UntakenRow ==
  ASSUME NEW p, IsPlan(p), p.base = "head", NEW r \in Rows,
         Exists(p.snapshot, r) => StructureUnit(p.snapshot, TableOf(p.snapshot, r)) \notin p.applied,
         Exists(p.snapshot, r) /\ TableOf(p.snapshot, r) \in OnBothSides(p.snapshot) =>
           \A u \in RowUnits(p.snapshot, r) : u \notin p.applied
  PROVE  Target(p).rows[r] = p.snapshot.head.rows[r]
<1> DEFINE s == p.snapshot
           t == TableOf(s, r)
           h == s["head"].rows[r]
           d == s["draft"].rows[r]
           x == Target(p).rows[r]
<1>1. /\ s \in GoodSnapshots /\ "head" \in Sides /\ "draft" \in Sides
      /\ s["head"] = s.head /\ s["draft"] = s.draft
      /\ Opposite("head") = "draft"
      /\ \A unit : SideTakenBy(p, unit) = IF unit \in p.applied THEN "draft" ELSE "head"
  <2>1. s \in GoodSnapshots /\ "head" \in Sides /\ "draft" \in Sides /\ Opposite("head") = "draft"
    BY DEF IsPlan, Sides, Opposite
  <2>2. s["head"] = s.head /\ s["draft"] = s.draft
    BY <2>1, GoodSide, SideIs
  <2> QED
    BY <2>1, <2>2 DEF SideTakenBy
<1>2. CASE ~Exists(s, r)
  BY <1>1, <1>2, TargetRow DEF Exists
<1>3. CASE Exists(s, r) /\ t \notin OnBothSides(s)
  <2>1. r \notin Loaded(s, t)
    BY <1>3 DEF Loaded
  <2>2. StructureSide(p, t) = "head"
    BY <1>1, <1>3 DEF StructureSide
  <2> QED
    BY <1>1, <1>3, <2>1, <2>2, TargetRow
<1>4. CASE Exists(s, r) /\ t \in OnBothSides(s) /\ OneSidedRow(s, r)
  <2>1. ExistenceUnit(s, r) \notin p.applied
    BY <1>1, <1>4, RowUnitsBySide
  <2>2. SideTakenBy(p, ExistenceUnit(s, r)) = "head" /\ StructureSide(p, t) = "head"
    BY <1>1, <1>4, <2>1 DEF StructureSide
  <2>3. x = LoadedRow(p, t, r)
    BY <1>4, TargetRow
  <2>4. LoadedRow(p, t, r) = h
    BY <1>4, <2>2 DEF LoadedRow
  <2> QED
    BY <1>1, <2>3, <2>4
<1>5. CASE Exists(s, r) /\ t \in OnBothSides(s) /\ ~OneSidedRow(s, r)
  <2>1. /\ h.id # d.id => RenameUnit(s, r) \notin p.applied
        /\ h.val # d.val => ValueUnit(s, r) \notin p.applied
        /\ h.ref # d.ref => ReferenceUnit(s, r) \notin p.applied
    BY <1>1, <1>5, RowUnitsBySide
  <2>2. /\ s[SideTakenBy(p, RenameUnit(s, r))].rows[r].id = h.id
        /\ s[SideTakenBy(p, ValueUnit(s, r))].rows[r].val = h.val
        /\ s[SideTakenBy(p, ReferenceUnit(s, r))].rows[r].ref = h.ref
    BY <1>1, <2>1
  <2>3. /\ MergedRow(p, t, r).table = t /\ MergedRow(p, t, r).id = h.id
        /\ MergedRow(p, t, r).val = h.val /\ MergedRow(p, t, r).ref = h.ref
        /\ MergedRow(p, t, r) \in RowRecord
    BY <1>5, <2>2, MergedParts
  <2>4. h # None /\ h.table = t
    BY <1>1, <1>5, RowsBySide
  <2>5. h = [table |-> h.table, id |-> h.id, val |-> h.val, ref |-> h.ref]
    BY <1>1, <2>4, GoodSide, ContentIs
  <2>6. MergedRow(p, t, r) = h
    BY <2>3, <2>4, <2>5 DEF RowRecord
  <2>7. x = MergedRow(p, t, r)
    BY <1>5, TargetRow DEF LoadedRow
  <2> QED
    BY <1>1, <2>6, <2>7
<1> QED
  BY <1>2, <1>3, <1>4, <1>5

\* A created row is not published with a default in place of a reference: it would
\* be a reference nothing resolves.
LEMMA NoMovedDefault ==
  ASSUME NEW p, IsClear(p), NEW r \in Rows, Exists(p.snapshot, r),
         OneSidedRow(p.snapshot, r),
         TableOf(p.snapshot, r) \in OnBothSides(p.snapshot), Target(p).rows[r] # None,
         SideTakenBy(p, ExistenceUnit(p.snapshot, r)) # StructureSide(p, TableOf(p.snapshot, r)),
         p.snapshot[StructureSide(p, TableOf(p.snapshot, r))].tables[TableOf(p.snapshot, r)].ref # None
  PROVE  ~ReferenceChanged(p.snapshot, TableOf(p.snapshot, r))
<1> DEFINE s == p.snapshot
           t == TableOf(s, r)
           c == Target(p)
<1>1. s \in GoodSnapshots /\ IsPlan(p) /\ c \in Content
  BY TargetIsContent DEF IsClear, IsPlan
<1>2. c.rows[r] # None /\ c.rows[r].table = t /\ t \in TablesOf(c)
  BY <1>1, TargetRowParts, TargetRowTable
<1>3. t \in Tables /\ c.tables[t].ref # None
  BY <1>1, <1>2, TargetTables, ContentIs
<1>4. SUFFICES ASSUME ReferenceChanged(s, t)
               PROVE  FALSE
  OBVIOUS
<1>5. c.rows[r].ref = Blank
  BY <1>1, <1>4, TargetOfOneSided
<1>6. ReferencedTable(p, c, t) # None
  BY <1>2, <1>3, ClearTables
<1>7. \A o \in Rows : c.rows[o] # None => c.rows[o].id # Blank
  BY <1>1, ContentIs, Absent
<1>8. r \in Unresolved(p, c)
  <2>1. \A o \in RowsOf(c, ReferencedTable(p, c, t)) : c.rows[o].id # c.rows[r].ref
    BY <1>5, <1>7 DEF RowsOf
  <2> QED
    BY <1>2, <1>5, <1>6, <2>1, Absent DEF Unresolved
<1>9. IsLoaded(p, c, r)
  <2>1. r \in Loaded(s, t)
    BY <1>1, LoadedBySide, "head" \in Sides DEF Sides
  <2> QED
    BY <1>2, <2>1 DEF IsLoaded
<1> QED
  BY <1>8, <1>9, ClearRows

\* A unit of a row whose structure is left alone is a unit of that row in both
\* plans, and brings one version of the row.
LEMMA SharedUnitOfRow ==
  ASSUME NEW p, NEW q, SameCommit(p, q), NEW r \in Rows, Exists(p.snapshot, r),
         TableOf(p.snapshot, r) \in OnBothSides(p.snapshot),
         StructureUnit(p.snapshot, TableOf(p.snapshot, r)) \notin p.applied,
         NEW u \in RowUnits(p.snapshot, r), u \in p.applied
  PROVE  /\ Exists(q.snapshot, r) /\ TableOf(q.snapshot, r) = TableOf(p.snapshot, r)
         /\ TableOf(q.snapshot, r) \in OnBothSides(q.snapshot)
         /\ u \in RowUnits(q.snapshot, r) /\ u.kind # "structure"
         /\ \A B \in Sides : p.snapshot[B].rows[r] = q.snapshot[B].rows[r]
         /\ OneSidedRow(q.snapshot, r) <=> OneSidedRow(p.snapshot, r)
<1> DEFINE s == p.snapshot
           z == q.snapshot
           t == TableOf(s, r)
<1>1. /\ s \in GoodSnapshots /\ z \in GoodSnapshots /\ "head" \in Sides /\ "draft" \in Sides
      /\ s["head"] = z["head"] /\ Opposite("head") = "draft" /\ Opposite("draft") = "head"
      /\ s["head"] = s.head /\ z["head"] = z.head
      /\ s["draft"] = s.draft /\ z["draft"] = z.draft
      /\ u \in Units(z)
  BY SharedParts DEF SameCommit
<1>2. u.kind # "structure" /\ r \in u.rows /\ u.tables = {t}
  <2>1. CASE OneSidedRow(s, r)
    <3>1. u = ExistenceUnit(s, r)
      BY <1>1, <2>1, RowUnitsBySide
    <3>2. ExistenceUnit(s, r).kind # "structure"
      BY ExistencePart
    <3>3. r \in ExistenceUnit(s, r).rows /\ ExistenceUnit(s, r).tables = {t}
      BY ExistencePart
    <3> QED
      BY <3>1, <3>2, <3>3
  <2>2. CASE ~OneSidedRow(s, r)
    <3>1. u = RenameUnit(s, r) \/ u = ValueUnit(s, r) \/ u = ReferenceUnit(s, r)
      BY <1>1, <2>2, RowUnitsBySide
    <3>2. CASE u = RenameUnit(s, r) \/ u = ValueUnit(s, r)
      <4>1. /\ RenameUnit(s, r).kind # "structure" /\ ValueUnit(s, r).kind # "structure"
            /\ r \in RenameUnit(s, r).rows /\ r \in ValueUnit(s, r).rows
            /\ RenameUnit(s, r).tables = {t} /\ ValueUnit(s, r).tables = {t}
        BY PartUnits
      <4> QED
        BY <3>2, <4>1
    <3>3. CASE u = ReferenceUnit(s, r)
      <4>1. ~ReferenceChanged(s, t)
        BY <3>3, ReferencePart
      <4>2. /\ ReferenceUnit(s, r).kind # "structure" /\ r \in ReferenceUnit(s, r).rows
            /\ ReferenceUnit(s, r).tables = {t}
        BY <4>1, ReferencePart
      <4> QED
        BY <3>3, <4>2
    <3> QED
      BY <3>1, <3>2, <3>3
  <2> QED
    BY <2>1, <2>2
<1>3. /\ Exists(z, r) /\ TableOf(z, r) \in OnBothSides(z)
      /\ u \in RowUnits(z, r) /\ u.tables = {TableOf(z, r)}
  BY <1>1, <1>2, UnitOfRow
<1>4. TableOf(z, r) = t
  BY <1>2, <1>3
<1>5. s.draft.rows[r] = z.draft.rows[r] /\ s.head.rows[r] = z.head.rows[r]
  <2>1. s.draft.rows[r] = z.draft.rows[r]
    BY <1>2, SharedRow
  <2>2. s.head = z.head
    BY DEF SameCommit
  <2> QED
    BY <2>1, <2>2
<1>6. \A B \in Sides : s[B].rows[r] = z[B].rows[r]
  BY <1>1, <1>5 DEF Sides
<1> QED
  BY <1>2, <1>3, <1>4, <1>5, <1>6 DEF OneSidedRow

\* A row one of whose units is taken without its structure is published as the
\* same row.
LEMMA SharedTakenRow ==
  ASSUME NEW p, NEW q, SameCommit(p, q), NEW r \in Rows, Exists(p.snapshot, r),
         TableOf(p.snapshot, r) \in OnBothSides(p.snapshot),
         StructureUnit(p.snapshot, TableOf(p.snapshot, r)) \notin p.applied,
         NEW u \in RowUnits(p.snapshot, r), u \in p.applied
  PROVE  Target(p).rows[r] = Target(q).rows[r]
<1> DEFINE s == p.snapshot
           z == q.snapshot
           t == TableOf(s, r)
           h == s["head"].rows[r]
           d == s["draft"].rows[r]
           x == Target(p).rows[r]
           y == Target(q).rows[r]
<1>1. /\ s \in GoodSnapshots /\ z \in GoodSnapshots /\ IsPlan(p) /\ IsPlan(q)
      /\ IsClear(p) /\ IsClear(q)
      /\ \A unit : SideTakenBy(p, unit) = SideTakenBy(q, unit)
      /\ \A unit : SideTakenBy(p, unit) = IF unit \in p.applied THEN "draft" ELSE "head"
      /\ "head" \in Sides /\ "draft" \in Sides
      /\ s["head"] = z["head"] /\ q.applied = p.applied
      /\ p.applied \subseteq Units(s) /\ p.applied \subseteq Units(z)
  BY SharedParts DEF SameCommit
<1>2. /\ Exists(z, r) /\ TableOf(z, r) = t /\ t \in OnBothSides(z)
      /\ u \in RowUnits(z, r) /\ u.kind # "structure"
      /\ \A B \in Sides : s[B].rows[r] = z[B].rows[r]
      /\ OneSidedRow(z, r) <=> OneSidedRow(s, r)
  BY SharedUnitOfRow
<1>3. t \in Tables
  BY <1>1, RowsBySide
<1>4. /\ StructureSide(p, t) = "head" /\ StructureSide(q, t) = "head"
      /\ StructureUnit(z, t) \notin p.applied
  BY <1>3, SharedStructureSide
<1>5. CASE OneSidedRow(s, r)
  <2>1. u = ExistenceUnit(s, r) /\ u = ExistenceUnit(z, r)
    BY <1>1, <1>2, <1>5, RowUnitsBySide
  <2>2. /\ SideTakenBy(p, ExistenceUnit(s, r)) = "draft"
        /\ SideTakenBy(q, ExistenceUnit(z, r)) = "draft"
    BY <1>1, <2>1
  <2>3. /\ x = None <=> d = None
        /\ d # None => /\ x.table = t /\ x.id = d.id /\ x.val = d.val
                       /\ x.ref = IF s["head"].tables[t].ref = None THEN None
                                  ELSE IF ReferenceChanged(s, t) THEN Blank ELSE d.ref
    BY <1>1, <1>4, <1>5, <2>2, TargetOfOneSided
  <2>4. /\ y = None <=> z["draft"].rows[r] = None
        /\ z["draft"].rows[r] # None =>
             /\ y.table = t /\ y.id = z["draft"].rows[r].id /\ y.val = z["draft"].rows[r].val
             /\ y.ref = IF z["head"].tables[t].ref = None THEN None
                        ELSE IF ReferenceChanged(z, t) THEN Blank ELSE z["draft"].rows[r].ref
    BY <1>1, <1>2, <1>4, <1>5, <2>2, TargetOfOneSided
  <2>5. z["draft"].rows[r] = d /\ z["head"].tables[t].ref = s["head"].tables[t].ref
    BY <1>1, <1>2
  <2>6. d # None /\ s["head"].tables[t].ref # None => ~ReferenceChanged(s, t)
    BY <1>1, <1>4, <1>5, <2>2, <2>3, NoMovedDefault
  <2>7. d # None /\ s["head"].tables[t].ref # None => ~ReferenceChanged(z, t)
    BY <1>1, <1>2, <1>4, <1>5, <2>2, <2>4, <2>5, NoMovedDefault
  <2> HIDE DEF s, z, d, x, y
  <2>8. /\ x = None <=> y = None
        /\ x # None => x.table = y.table /\ x.id = y.id /\ x.val = y.val /\ x.ref = y.ref
    BY <2>3, <2>4, <2>5, <2>6, <2>7
  <2> QED
    BY <1>1, <2>8, EqualRows DEF x, y
<1>6. CASE ~OneSidedRow(s, r)
  <2> DEFINE i == SideTakenBy(p, RenameUnit(s, r))
             v == SideTakenBy(p, ValueUnit(s, r))
             f == SideTakenBy(p, ReferenceUnit(s, r))
             g == SideTakenBy(q, ReferenceUnit(z, r))
             fieldUnit == Unit("fieldRef", {t}, {r})
  <2>1. RenameUnit(z, r) = RenameUnit(s, r) /\ ValueUnit(z, r) = ValueUnit(s, r)
    BY <1>2 DEF RenameUnit, ValueUnit
  <2>2. SideTakenBy(q, RenameUnit(z, r)) = i /\ SideTakenBy(q, ValueUnit(z, r)) = v
    BY <1>1, <2>1
  <2>3. fieldUnit.kind = "fieldRef" /\ r \in fieldUnit.rows
    BY DEF Unit
  <2>4. fieldUnit \in p.applied => ~ReferenceChanged(s, t) /\ ~ReferenceChanged(z, t)
    <3> HIDE DEF fieldUnit
    <3> SUFFICES ASSUME fieldUnit \in p.applied
                 PROVE  ~ReferenceChanged(s, t) /\ ~ReferenceChanged(z, t)
      OBVIOUS
    <3>1. fieldUnit \in Units(s) /\ fieldUnit \in Units(z)
      BY <1>1
    <3>2. fieldUnit \in RowUnits(s, r)
      BY <1>1, <2>3, <3>1, UnitOfRow
    <3>3. fieldUnit \in RowUnits(z, r)
      BY <1>1, <2>3, <3>1, UnitOfRow
    <3>4. ~ReferenceChanged(s, t)
      BY <1>1, <2>3, <3>2, UnitKind
    <3>5. ~ReferenceChanged(z, t)
      BY <1>1, <1>2, <2>3, <3>3, UnitKind
    <3> QED
      BY <3>4, <3>5
  <2>5. f = IF fieldUnit \in p.applied THEN "draft" ELSE "head"
    <3>1. CASE ReferenceChanged(s, t)
      BY <1>1, <2>4, <3>1 DEF ReferenceUnit
    <3>2. CASE ~ReferenceChanged(s, t)
      BY <1>1, <3>2 DEF ReferenceUnit
    <3> QED
      BY <3>1, <3>2
  <2>6. g = IF fieldUnit \in p.applied THEN "draft" ELSE "head"
    <3>1. CASE ReferenceChanged(z, t)
      BY <1>1, <1>2, <1>4, <2>4, <3>1 DEF ReferenceUnit
    <3>2. CASE ~ReferenceChanged(z, t)
      BY <1>1, <1>2, <3>2 DEF ReferenceUnit
    <3> QED
      BY <3>1, <3>2
  <2> HIDE DEF fieldUnit
  <2>7. MergedRow(p, t, r) = [table |-> t, id |-> s[i].rows[r].id,
                              val |-> s[v].rows[r].val, ref |-> s[f].rows[r].ref]
    BY DEF MergedRow
  <2>8. MergedRow(q, t, r) = [table |-> t, id |-> z[i].rows[r].id,
                              val |-> z[v].rows[r].val, ref |-> z[f].rows[r].ref]
    BY <2>2, <2>5, <2>6 DEF MergedRow
  <2>9. i \in Sides /\ v \in Sides /\ f \in Sides
    BY <1>1, SideTaken
  <2>10. s[i].rows[r] = z[i].rows[r] /\ s[v].rows[r] = z[v].rows[r] /\ s[f].rows[r] = z[f].rows[r]
    BY <1>2, <2>9
  <2>11. x = LoadedRow(p, t, r) /\ y = LoadedRow(q, t, r)
    BY <1>1, <1>2, TargetRow
  <2>12. LoadedRow(p, t, r) = MergedRow(p, t, r) /\ LoadedRow(q, t, r) = MergedRow(q, t, r)
    BY <1>2, <1>6 DEF LoadedRow
  <2> QED
    BY <2>7, <2>8, <2>10, <2>11, <2>12
<1> QED
  BY <1>5, <1>6

\* Two plans of a commit with one fingerprint publish one head.
LEMMA SharedTarget ==
  ASSUME NEW p, NEW q, SameCommit(p, q)
  PROVE  Target(p) = Target(q)
<1> DEFINE s == p.snapshot
           z == q.snapshot
           Takes(w, r) == \E u \in RowUnits(w, r) : u \in p.applied
<1>1. /\ s \in GoodSnapshots /\ z \in GoodSnapshots /\ IsPlan(p) /\ IsPlan(q)
      /\ p.base = "head" /\ q.base = "head" /\ s.head = z.head
      /\ q.applied = p.applied /\ SameCommit(q, p)
  BY SharedParts, SameCommitOfTwo DEF SameCommit
<1>2. ASSUME NEW r \in Rows
      PROVE  Target(p).rows[r] = Target(q).rows[r]
  <2>1. CASE Exists(s, r) /\ StructureUnit(s, TableOf(s, r)) \in p.applied
    BY <2>1, SharedRowOfStructure
  <2>2. CASE Exists(z, r) /\ StructureUnit(z, TableOf(z, r)) \in p.applied
    BY <1>1, <2>2, SharedRowOfStructure
  <2>3. CASE /\ Exists(s, r) => StructureUnit(s, TableOf(s, r)) \notin p.applied
             /\ Exists(z, r) => StructureUnit(z, TableOf(z, r)) \notin p.applied
    <3>1. CASE Exists(s, r) /\ TableOf(s, r) \in OnBothSides(s) /\ Takes(s, r)
      BY <2>3, <3>1, SharedTakenRow
    <3>2. CASE Exists(z, r) /\ TableOf(z, r) \in OnBothSides(z) /\ Takes(z, r)
      BY <1>1, <2>3, <3>2, SharedTakenRow
    <3>3. CASE /\ ~(Exists(s, r) /\ TableOf(s, r) \in OnBothSides(s) /\ Takes(s, r))
               /\ ~(Exists(z, r) /\ TableOf(z, r) \in OnBothSides(z) /\ Takes(z, r))
      <4>1. Target(p).rows[r] = s.head.rows[r]
        BY <1>1, <2>3, <3>3, UntakenRow
      <4>2. Target(q).rows[r] = z.head.rows[r]
        BY <1>1, <2>3, <3>3, UntakenRow
      <4> QED
        BY <1>1, <4>1, <4>2
    <3> QED
      BY <3>1, <3>2, <3>3
  <2> QED
    BY <2>1, <2>2, <2>3
<1>3. Target(p).tables = Target(q).tables
  BY SharedTables
<1>4. Target(p) \in Content /\ Target(q) \in Content
  BY <1>1, TargetIsContent
<1>5. Target(p).rows = Target(q).rows
  <2> DEFINE x == Target(p).rows
             y == Target(q).rows
  <2>1. x \in [Rows -> RowRecord \cup {None}] /\ y \in [Rows -> RowRecord \cup {None}]
    BY <1>4 DEF Content
  <2> HIDE DEF x, y
  <2>2. \A r \in Rows : x[r] = y[r]
    BY <1>2 DEF x, y
  <2>3. x = y
    BY <2>1, <2>2
  <2> QED
    BY <2>3 DEF x, y
<1> QED
  BY <1>3, <1>4, <1>5 DEF Content

\* Equal fingerprints cover the same of every unit.
LEMMA CoveredOfFingerprint ==
  ASSUME NEW p, NEW q, p.applied = q.applied, Fingerprint(p) = Fingerprint(q)
  PROVE  /\ p.base = q.base /\ p.snapshot.head = q.snapshot.head
         /\ \A u \in p.applied : Covered(p.snapshot, u) = Covered(q.snapshot, u)
<1>1. \A s, u : Covered(s, u).unit = u
  BY DEF Covered
<1>2. /\ p.base = q.base /\ p.snapshot.head = q.snapshot.head
      /\ {Covered(p.snapshot, u) : u \in p.applied} = {Covered(q.snapshot, u) : u \in p.applied}
  BY DEF Fingerprint
<1>3. ASSUME NEW u \in p.applied
      PROVE  Covered(p.snapshot, u) = Covered(q.snapshot, u)
  <2>1. PICK v \in p.applied : Covered(p.snapshot, u) = Covered(q.snapshot, v)
    BY <1>2
  <2>2. u = v
    BY <1>1, <2>1
  <2> QED
    BY <2>1, <2>2
<1> QED
  BY <1>2, <1>3

\* A fingerprint pins the head of a plan nothing blocks.
LEMMA PinnedTarget ==
  ASSUME NEW s \in GoodSnapshots, NEW z \in GoodSnapshots, s.head = z.head,
         NEW units \in SUBSET (Units(s) \cap Units(z)),
         Fingerprint(Plan(s, "commit", units)) = Fingerprint(Plan(z, "commit", units)),
         Findings(Plan(s, "commit", units)) = {}, Findings(Plan(z, "commit", units)) = {}
  PROVE  Target(Plan(s, "commit", units)) = Target(Plan(z, "commit", units))
<1> DEFINE p == Plan(s, "commit", units)
           q == Plan(z, "commit", units)
<1>1. /\ p.snapshot = s /\ q.snapshot = z /\ p.applied = units /\ q.applied = units
      /\ p.base = "head" /\ q.base = "head"
  BY DEF Plan, BaseSide
<1> HIDE DEF p, q
<1>2. Fingerprint(p) = Fingerprint(q) /\ Findings(p) = {} /\ Findings(q) = {}
  BY DEF p, q
<1>3. \A u \in units : Covered(s, u) = Covered(z, u)
  BY <1>1, <1>2, CoveredOfFingerprint
<1>4. IsClear(p) /\ IsClear(q)
  BY <1>1, <1>2 DEF IsClear, IsPlan, Sides
<1>5. SameCommit(p, q)
  BY <1>1, <1>3, <1>4 DEF SameCommit
<1>6. Target(p) = Target(q)
  BY <1>5, SharedTarget
<1> QED
  BY <1>6 DEF p, q

\* An edit made after a preview either changes the fingerprint, which refuses the
\* commit as stale, or leaves the head it publishes as it was, or leaves it nothing
\* it may publish.
THEOREM FingerprintAlwaysPinsTheHead ==
  Spec => FingerprintPinsTheHead
<1>1. ASSUME IInv, IInv', UNCHANGED head,
             NEW units \in SUBSET (Units(Snapshot) \cap Units(Snapshot')),
             Fingerprint(Plan(Snapshot, "commit", units)) = Fingerprint(Plan(Snapshot', "commit", units))
      PROVE  \/ Target(Plan(Snapshot, "commit", units)) = Target(Plan(Snapshot', "commit", units))
             \/ Findings(Plan(Snapshot, "commit", units)) # {}
             \/ Findings(Plan(Snapshot', "commit", units)) # {}
  <2>1. Snapshot \in GoodSnapshots /\ Snapshot' \in GoodSnapshots
    BY <1>1 DEF IInv
  <2>2. Snapshot.head = Snapshot'.head
    BY <1>1 DEF Snapshot
  <2> QED
    BY <1>1, <2>1, <2>2, PinnedTarget
<1>2. IInv /\ IInv' => [UNCHANGED head =>
         \A units \in SUBSET (Units(Snapshot) \cap Units(Snapshot')) :
           LET before == Plan(Snapshot, "commit", units)
               after == Plan(Snapshot', "commit", units)
           IN Fingerprint(before) = Fingerprint(after) =>
                Target(before) = Target(after) \/ Findings(before) # {} \/ Findings(after) # {}]_vars
  BY <1>1
<1> QED
  BY <1>2, Inductive, PTL DEF FingerprintPinsTheHead

-----------------------------------------------------------------------------
(* What a choice lacks is found, and found as a unit that is still open. *)

Open(p) == Units(p.snapshot) \ p.applied

\* Nothing more is required of a choice, in a draft and a head without defaults.
RequiresNothing(p) ==
  /\ IsPlan(p)
  /\ Findings(p) \subseteq p.applied \cup {None}
  /\ WithoutDefaults(p.snapshot.head) /\ WithoutDefaults(p.snapshot.draft)

\* The units of a table and of a row.
LEMMA UnitsOfTable ==
  ASSUME NEW s \in GoodSnapshots, NEW B \in Sides, NEW t \in Tables
  PROVE  /\ StructureDiffers(s, t) => StructureUnit(s, t) \in Units(s)
         /\ t \in OnOneSide(s) \/ ReferenceChanged(s, t) => StructureUnit(s, t) \in Units(s)
         /\ s[B].tables[t] # s[Opposite(B)].tables[t] => StructureUnit(s, t) \in Units(s)
<1>1. StructureDiffers(s, t) => StructureUnit(s, t) \in Units(s)
  BY UnitsAre
<1>2. ReferenceChanged(s, t) => t \in OnBothSides(s)
  BY DEF ReferenceChanged
<1>3. s[B].tables[t] # s[Opposite(B)].tables[t] => t \in OnOneSide(s) \/ t \in OnBothSides(s)
  BY TablesBySide DEF TablesOf
<1> QED
  BY <1>1, <1>2, <1>3, StructureBySide

LEMMA UnitsOfRow ==
  ASSUME NEW s \in GoodSnapshots, NEW B \in Sides, NEW r \in Rows, Exists(s, r),
         TableOf(s, r) \in OnBothSides(s)
  PROVE  LET b == s[B].rows[r]
             o == s[Opposite(B)].rows[r]
         IN  /\ OneSidedRow(s, r) => ExistenceUnit(s, r) \in Units(s)
             /\ OneSidedRow(s, r) \/ b.id # o.id => IdUnit(s, r) \in Units(s)
             /\ ~OneSidedRow(s, r) /\ b.ref # o.ref => ReferenceUnit(s, r) \in Units(s)
<1>1. \A u : u \in RowUnits(s, r) => u \in Units(s)
  BY UnitsAre
<1> QED
  BY <1>1, RowUnitsBySide DEF IdUnit

\* A unit is a record of a kind, of tables and of rows; None is none.
LEMMA UnitsAreTyped ==
  ASSUME NEW s \in GoodSnapshots, NEW u \in Units(s)
  PROVE  u \in UnitRecord /\ u # None
<1>1. ASSUME NEW t \in Tables
      PROVE  StructureUnit(s, t) \in UnitRecord
  <2> DEFINE tables == IF t \in OnOneSide(s)
                         THEN {v \in OnOneSide(s) : OneSidedId(s, v) = OneSidedId(s, t)} ELSE {t}
  <2>1. StructureUnit(s, t) = [kind |-> "structure", tables |-> tables, rows |-> {}]
    BY DEF StructureUnit, Unit
  <2>2. tables \in SUBSET Tables
    BY DEF OnOneSide, TablesOf
  <2> HIDE DEF tables
  <2> QED
    BY <2>1, <2>2 DEF UnitRecord, UnitKinds
<1>2. ASSUME NEW t \in Tables, NEW rows \in SUBSET Rows, NEW kind \in UnitKinds
      PROVE  Unit(kind, {t}, rows) \in UnitRecord
  BY DEF Unit, UnitRecord
<1>3. ASSUME NEW r \in Rows, Exists(s, r), u \in RowUnits(s, r)
      PROVE  u \in UnitRecord
  <2> DEFINE t == TableOf(s, r)
  <2>1. "head" \in Sides /\ "draft" \in Sides /\ t \in Tables
    BY <1>3, RowsBySide DEF Sides
  <2>2. CASE OneSidedRow(s, r)
    <3>1. PICK B \in Sides : s[B].rows[r] # None
      BY <1>3, <2>1, RowsBySide, GoodSide, SideIs DEF Exists
    <3>2. {r} \cup Replaced(s, B, r) \in SUBSET Rows
      BY DEF Replaced
    <3>3. /\ Unit("rowReplace", {t}, {r} \cup Replaced(s, B, r)) \in UnitRecord
          /\ Unit("rowDelete", {t}, {r}) \in UnitRecord
          /\ Unit("rowCreate", {t}, {r}) \in UnitRecord
      BY <1>2, <2>1, <3>2 DEF UnitKinds
    <3>4. u = ExistenceUnit(s, r)
      BY <1>3, <2>1, <2>2, RowUnitsBySide
    <3> QED
      BY <2>2, <3>1, <3>3, <3>4, ExistenceIs
  <2>3. CASE ~OneSidedRow(s, r)
    <3>1. u = RenameUnit(s, r) \/ u = ValueUnit(s, r) \/ u = ReferenceUnit(s, r)
      BY <1>3, <2>1, <2>3, RowUnitsBySide
    <3>2. /\ Unit("rowRename", {t}, {r}) \in UnitRecord
          /\ Unit("fieldVal", {t}, {r}) \in UnitRecord
          /\ Unit("fieldRef", {t}, {r}) \in UnitRecord
      BY <1>2, <2>1 DEF UnitKinds
    <3> QED
      BY <1>1, <2>1, <3>1, <3>2 DEF RenameUnit, ValueUnit, ReferenceUnit
  <2> QED
    BY <2>2, <2>3
<1>4. u \in UnitRecord
  BY <1>1, <1>3, UnitsAre
<1> QED
  BY <1>4, UnitAssumption DEF UnitAssumption

\* What a check requires of such a choice is not open.
LEMMA RequiredIsNotOpen ==
  ASSUME NEW p, RequiresNothing(p), NEW unit \in Findings(p)
  PROVE  unit \notin Open(p)
BY UnitsAreTyped DEF RequiresNothing, IsPlan, Open

\* So the units that the checks of its tables and rows look for are not open.
LEMMA TablesRequireNothing ==
  ASSUME NEW p, RequiresNothing(p), NEW t \in TablesOf(Target(p))
  PROVE  LET s == p.snapshot
             c == Target(p)
         IN  /\ /\ TableNamed(c, c.tables[t].id) # {t}
                /\ s[p.base].tables[t] # None
                /\ s[p.base].tables[t].id = c.tables[t].id
                => StructureUnit(s, t) \notin Open(p)
             /\ c.tables[t].ref # None /\ ReferencedTable(p, c, t) = None =>
                  /\ StructureUnit(s, t) \notin Open(p)
                  /\ StructureUnit(s, TableMeantBy(p, c, t)) \notin Open(p)
<1> DEFINE s == p.snapshot
           c == Target(p)
<1>1. ASSUME NEW unit \in TableIdCollisions(p, c, Open(p)) \cup TableReferences(p, c, Open(p))
      PROVE  unit \notin Open(p)
  <2>1. unit \in Findings(p)
    BY <1>1, FindingsAre DEF FindingsOf, Open
  <2> QED
    BY <2>1, RequiredIsNotOpen
<1> HIDE DEF c
<1>2. CASE /\ TableNamed(c, c.tables[t].id) # {t}
           /\ s[p.base].tables[t] # None
           /\ s[p.base].tables[t].id = c.tables[t].id
           /\ StructureUnit(s, t) \in Open(p)
  <2>1. StructureUnit(s, t) \notin p.applied
    BY <1>2 DEF Open
  <2>2. Orelse(StructureUnit(s, t), Open(p), None) \in TableIdCollisions(p, c, Open(p))
    BY <1>2, <2>1 DEF TableIdCollisions, c
  <2> QED
    BY <1>1, <1>2, <2>2 DEF Orelse
<1>3. ASSUME c.tables[t].ref # None, ReferencedTable(p, c, t) = None
      PROVE  /\ StructureUnit(s, t) \notin Open(p)
             /\ StructureUnit(s, TableMeantBy(p, c, t)) \notin Open(p)
  <2>1. Orelse(StructureUnit(s, t), Open(p),
               Orelse(StructureUnit(s, TableMeantBy(p, c, t)), Open(p), None))
          \in TableReferences(p, c, Open(p))
    BY <1>3 DEF TableReferences, c
  <2> QED
    BY <1>1, <2>1 DEF Orelse
<1> QED
  BY <1>2, <1>3 DEF c

LEMMA RowsRequireNothing ==
  ASSUME NEW p, RequiresNothing(p), NEW r \in Rows, Target(p).rows[r] # None
  PROVE  LET s == p.snapshot
             c == Target(p)
             t == c.rows[r].table
         IN  /\ /\ \E o \in RowsOf(c, t) \ {r} : c.rows[o].id = c.rows[r].id
                /\ s[p.base].rows[r] # None
                /\ s[p.base].rows[r].id = c.rows[r].id
                => IdUnit(s, r) \notin Open(p)
             /\ r \in Unresolved(p, c) =>
                  /\ IsLoaded(p, c, r) => RestoredReference(p, c, r, Open(p)) \notin Open(p)
                  /\ ~IsLoaded(p, c, r) /\ (BroughtWholesale(p, t) \/ LosesId(p, ReferencedTable(p, c, t), c.rows[r].ref))
                     => UnchangedReference(p, c, r, Open(p)) \notin Open(p)
<1> DEFINE s == p.snapshot
           c == Target(p)
           t == c.rows[r].table
<1>1. ASSUME NEW unit \in RowIdCollisions(p, c, Open(p)) \cup DanglingRowReferences(p, c, Open(p))
                 \cup UnchangedReferrersOfLostIds(p, c, Open(p)) \cup WholesaleRowReferences(p, c, Open(p))
      PROVE  unit \notin Open(p)
  <2>1. unit \in Findings(p)
    BY <1>1, FindingsAre DEF FindingsOf, Open
  <2> QED
    BY <2>1, RequiredIsNotOpen
<1> HIDE DEF c
<1>2. c.rows[r] # None
  BY DEF c
<1>3. CASE /\ \E o \in RowsOf(c, t) \ {r} : c.rows[o].id = c.rows[r].id
           /\ s[p.base].rows[r] # None
           /\ s[p.base].rows[r].id = c.rows[r].id
           /\ IdUnit(s, r) \in Open(p)
  <2>1. IdUnit(s, r) \notin p.applied
    BY <1>3 DEF Open
  <2>2. Orelse(IdUnit(s, r), Open(p), None) \in RowIdCollisions(p, c, Open(p))
    BY <1>2, <1>3, <2>1 DEF RowIdCollisions
  <2> QED
    BY <1>1, <1>3, <2>2 DEF Orelse
<1>4. CASE r \in Unresolved(p, c) /\ IsLoaded(p, c, r)
  <2>1. RestoredReference(p, c, r, Open(p)) \in DanglingRowReferences(p, c, Open(p))
    BY <1>4 DEF DanglingRowReferences
  <2> QED
    BY <1>1, <1>3, <1>4, <2>1 DEF c
<1>5. CASE /\ r \in Unresolved(p, c) /\ ~IsLoaded(p, c, r)
           /\ BroughtWholesale(p, t) \/ LosesId(p, ReferencedTable(p, c, t), c.rows[r].ref)
  <2>1. UnchangedReference(p, c, r, Open(p))
          \in UnchangedReferrersOfLostIds(p, c, Open(p)) \cup WholesaleRowReferences(p, c, Open(p))
    BY <1>5 DEF UnchangedReferrersOfLostIds, WholesaleRowReferences
  <2> QED
    BY <1>1, <1>3, <1>5, <2>1 DEF c
<1> QED
  BY <1>3, <1>4, <1>5 DEF c

\* No two tables of its target have one id.
LEMMA NoTableIdCollides ==
  ASSUME NEW p, RequiresNothing(p)
  PROVE  TableIdCollisions(p, Target(p), Open(p)) = {}
<1> DEFINE s == p.snapshot
           c == Target(p)
           B == p.base
<1>1. IsPlan(p) /\ s \in GoodSnapshots /\ B \in Sides
  BY DEF RequiresNothing, IsPlan
<1> SUFFICES ASSUME NEW t \in TablesOf(c), TableNamed(c, c.tables[t].id) # {t},
                    s[B].tables[t] # None, s[B].tables[t].id = c.tables[t].id,
                    StructureUnit(s, t) \notin p.applied
             PROVE  FALSE
  BY DEF TableIdCollisions
<1>2. t \in Tables /\ StructureUnit(s, t) \notin Units(s)
  BY TablesRequireNothing DEF Open, TablesOf
<1>3. \A X \in Sides : s[X].tables[t] = s[B].tables[t]
  BY <1>1, <1>2, UnitsOfTable, GoodSide, SideIs
<1>4. PICK u \in TablesOf(c) : u # t /\ c.tables[u].id = c.tables[t].id
  BY DEF TableNamed
<1>5. PICK X \in Sides : c.tables[u] = s[X].tables[u]
  BY <1>1, TargetTables DEF TablesOf
<1>6. t \in TablesOf(s[X]) /\ u \in TablesOf(s[X]) /\ s[X].tables[t].id = s[X].tables[u].id
  BY <1>2, <1>3, <1>4, <1>5 DEF TablesOf
<1> QED
  BY <1>1, <1>4, <1>6, GoodSide, WhatHolds

\* And each schema refers to the table its own side means.
LEMMA MeantTableIsThere ==
  ASSUME NEW p, RequiresNothing(p), NEW t \in TablesOf(Target(p)),
         Target(p).tables[t].ref # None
  PROVE  LET c == Target(p)
             side == p.snapshot[StructureSide(p, t)]
             m == Identity(side, side.tables[t].ref)
         IN  m # None /\ m \in TablesOf(c) /\ ReferencedTable(p, c, t) = m
<1> DEFINE s == p.snapshot
           c == Target(p)
           B == p.base
           X == StructureSide(p, t)
           ref == c.tables[t].ref
           m == Identity(s[X], s[X].tables[t].ref)
<1>1. /\ IsPlan(p) /\ s \in GoodSnapshots /\ B \in Sides /\ c \in Content
      /\ t \in Tables /\ X \in Sides /\ c.tables[t] = s[X].tables[t]
  BY TargetIsContent, TargetTables DEF RequiresNothing, IsPlan, TablesOf
<1>2. \A v, w \in TablesOf(c) : c.tables[v].id = c.tables[w].id => v = w
  BY <1>1, NoTableIdCollides, TargetTableIds DEF Open
<1>3. t \in TablesOf(s[X]) /\ s[X] \in Content
  BY <1>1, GoodSide DEF TablesOf
<1>4. m # None /\ m \in TablesOf(s[X]) /\ m \in Tables /\ s[X].tables[m].id = ref
  BY <1>1, <1>3, GoodSide, MeantTable, IdentityIs
<1>5. TableMeantBy(p, c, t) = m
  BY <1>1 DEF TableMeantBy
<1> HIDE DEF m
<1>6. m \in TablesOf(c) /\ c.tables[m].id = ref => ReferencedTable(p, c, t) = m
  <2> SUFFICES ASSUME m \in TablesOf(c), c.tables[m].id = ref
               PROVE  Identity(c, ref) = m
    BY <1>5 DEF ReferencedTable
  <2>1. Identity(c, ref) \in TablesOf(c) /\ c.tables[Identity(c, ref)].id = ref
    BY <1>1, IdentityIs
  <2> QED
    BY <1>2, <2>1
<1>7. ReferencedTable(p, c, t) # None => m \in TablesOf(c) /\ ReferencedTable(p, c, t) = m
  BY <1>1, <1>5, IdentityIs DEF ReferencedTable
<1>8. ASSUME ReferencedTable(p, c, t) = None
      PROVE  FALSE
  <2> DEFINE Y == StructureSide(p, m)
  <2>1. Y \in Sides /\ c.tables[m] = s[Y].tables[m]
    BY <1>1, <1>4, TargetTables
  <2>2. c.tables[m] # s[X].tables[m]
    BY <1>4, <1>6, <1>8 DEF TablesOf
  <2>3. Y # X
    BY <2>1, <2>2
  <2>4. /\ StructureUnit(s, t) \notin Open(p) /\ StructureUnit(s, m) \notin Open(p)
    BY <1>5, <1>8, TablesRequireNothing
  <2>5. StructureUnit(s, m) \in p.applied
    BY <1>1, <1>4, <2>1, <2>2, <2>3, <2>4, UnitsOfTable, GoodSide, SideIs DEF Open
  <2>6. Y = Opposite(B) /\ X = B
    BY <1>1, <2>1, <2>3, <2>5, SideTaken, SideIs, GoodSide DEF StructureSide
  <2>7. StructureUnit(s, t) \notin p.applied
    BY <1>1, <2>6, SideTaken, SideIs, GoodSide DEF StructureSide
  <2>8. StructureUnit(s, t) \notin Units(s)
    BY <2>4, <2>7 DEF Open
  <2>9. s[Y].tables[t] = s[X].tables[t] /\ t \notin OnOneSide(s) /\ ~ReferenceChanged(s, t)
    BY <1>1, <2>6, <2>8, UnitsOfTable
  <2>10. t \in OnBothSides(s)
    BY <1>1, <1>3, <2>6, <2>9, TablesBySide DEF TablesOf
  <2>11. m = Identity(s[Y], s[Y].tables[t].ref)
    BY <1>1, <2>1, <2>9, <2>10, UnchangedField DEF m
  <2>12. m \in TablesOf(s[Y]) /\ s[Y].tables[m].id = ref
    BY <1>1, <1>4, <2>1, <2>9, <2>11, GoodSide, IdentityIs
  <2> QED
    BY <1>4, <1>6, <1>8, <2>1, <2>12 DEF TablesOf
<1> QED
  BY <1>4, <1>7, <1>8 DEF m

\* And no two rows of a table of it have one id.
LEMMA NoRowIdCollides ==
  ASSUME NEW p, RequiresNothing(p)
  PROVE  RowIdCollisions(p, Target(p), Open(p)) = {}
<1> DEFINE s == p.snapshot
           c == Target(p)
           B == p.base
<1>1. IsPlan(p) /\ s \in GoodSnapshots /\ B \in Sides
  BY DEF RequiresNothing, IsPlan
<1> SUFFICES ASSUME NEW r \in Rows, c.rows[r] # None,
                    NEW o \in RowsOf(c, c.rows[r].table) \ {r}, c.rows[o].id = c.rows[r].id,
                    s[B].rows[r] # None, s[B].rows[r].id = c.rows[r].id,
                    IdUnit(s, r) \notin p.applied
             PROVE  FALSE
  BY DEF RowIdCollisions
<1> DEFINE t == TableOf(s, r)
<1>2. /\ o \in Rows /\ o # r /\ c.rows[o] # None /\ Exists(s, r)
      /\ TableOf(s, o) = t /\ t \in Tables
  BY <1>1, TargetRowParts DEF RowsOf
<1>3. IdUnit(s, r) \notin Units(s)
  BY RowsRequireNothing DEF Open
<1>4. ASSUME NEW X \in Sides, s[X].rows[r] # None, s[X].rows[o] # None,
             s[X].rows[r].id = c.rows[r].id, s[X].rows[o].id = c.rows[o].id
      PROVE  FALSE
  <2>1. s[X].rows[r].table = t /\ s[X].rows[o].table = t
    BY <1>1, <1>2, <1>4, RowsBySide
  <2> QED
    <3>1. s[X] \in Content /\ HoldsTogether(s[X])
      BY <1>1, GoodSide
    <3>2. s[X].rows[r].id = s[X].rows[o].id
      BY <1>4
    <3> QED
      BY <1>2, <1>4, <2>1, <3>1, <3>2, WhatHolds
<1>5. PICK X \in Sides : /\ s[X].rows[o] # None /\ s[X].rows[o].id = c.rows[o].id
                         /\ t \notin OnBothSides(s) => X = StructureSide(p, t)
  BY <1>1, <1>2, TargetRowId
<1>6. CASE t \in OnBothSides(s)
  <2>1. ~OneSidedRow(s, r) /\ s[B].rows[r].id = s[Opposite(B)].rows[r].id
    BY <1>1, <1>2, <1>3, <1>6, UnitsOfRow
  <2>2. X = B \/ X = Opposite(B)
    BY <1>1, GoodSide, SideIs
  <2>3. s[Opposite(B)].rows[r] # None
    BY <1>1, <2>1, RowsBySide
  <2>4. s[X].rows[r] # None /\ s[X].rows[r].id = c.rows[r].id
    BY <2>1, <2>2, <2>3
  <2> QED
    BY <1>4, <1>5, <2>4
<1>7. CASE t \notin OnBothSides(s)
  <2>1. s[X].rows[r] # None /\ s[X].rows[r].id = c.rows[r].id
    BY <1>1, <1>5, <1>7, TargetRowId
  <2> QED
    BY <1>4, <1>5, <2>1
<1> QED
  BY <1>6, <1>7

\* A row of a side has an id.  The unit of row q brings an id into a table.  The
\* side a plan works on has an id in every loaded row of a table in which the other
\* side has it.
HasId(s, X, r, id) == s[X].rows[r] # None /\ s[X].rows[r].id = id
Brings(p, m, id, q) ==
  LET s == p.snapshot
  IN  /\ TableOf(s, q) = m /\ m \in OnBothSides(s) /\ HasId(s, Opposite(p.base), q, id)
      /\ ProviderOf(p, m, id) = IdUnit(s, q) /\ IdUnit(s, q) \in Units(s)
IsNotMissed(p, m, id) ==
  \A q \in Loaded(p.snapshot, m) :
    HasId(p.snapshot, Opposite(p.base), q, id) => HasId(p.snapshot, p.base, q, id)

\* The unit that brings a row from the other side is a unit.
LEMMA ProviderIsUnit ==
  ASSUME NEW p, IsPlan(p), NEW m, NEW id
  PROVE  \/ ProviderOf(p, m, id) = None /\ IsNotMissed(p, m, id)
         \/ \E q \in Rows : Brings(p, m, id, q)
<1> DEFINE s == p.snapshot
           B == p.base
           O == Opposite(B)
           providers == {r \in Loaded(s, m) :
                           /\ s[O].rows[r] # None
                           /\ s[O].rows[r].id = id
                           /\ s[B].rows[r] # None => s[B].rows[r].id # id}
<1>1. s \in GoodSnapshots /\ B \in Sides
  BY DEF IsPlan
<1>2. ProviderOf(p, m, id) = IF providers = {} THEN None
                             ELSE IdUnit(s, CHOOSE r \in providers : TRUE)
  BY DEF ProviderOf
<1>3. CASE providers = {}
  <2>1. ProviderOf(p, m, id) = None
    BY <1>2, <1>3
  <2> QED
    BY <1>3, <2>1 DEF IsNotMissed, HasId
<1>4. CASE providers # {}
  <2>1. PICK q \in providers : ProviderOf(p, m, id) = IdUnit(s, q)
    <3> HIDE DEF providers
    <3> QED
      BY <1>2, <1>4
  <2>2. /\ q \in Loaded(s, m) /\ s[O].rows[q] # None /\ s[O].rows[q].id = id
        /\ s[B].rows[q] # None => s[B].rows[q].id # id
    OBVIOUS
  <2>3. q \in Rows /\ Exists(s, q) /\ TableOf(s, q) = m /\ m \in OnBothSides(s)
    BY <1>1, <2>2, LoadedBySide
  <2>4. IdUnit(s, q) \in Units(s)
    <3>1. OneSidedRow(s, q) \/ s[B].rows[q].id # s[O].rows[q].id
      BY <1>1, <2>2, <2>3, RowsBySide
    <3> QED
      BY <1>1, <2>3, <3>1, UnitsOfRow
  <2> QED
    BY <2>1, <2>2, <2>3, <2>4 DEF Brings, HasId
<1> QED
  BY <1>3, <1>4

\* A row of the other side whose unit is applied is a row of the target, under the
\* id it has there.
LEMMA AppliedRow ==
  ASSUME NEW p, IsPlan(p), NEW q \in Rows, TableOf(p.snapshot, q) \in OnBothSides(p.snapshot),
         NEW X \in Sides, p.snapshot[X].rows[q] # None,
         SideTakenBy(p, IdUnit(p.snapshot, q)) = X
  PROVE  /\ Target(p).rows[q] # None
         /\ Target(p).rows[q].table = TableOf(p.snapshot, q)
         /\ Target(p).rows[q].id = p.snapshot[X].rows[q].id
<1> DEFINE s == p.snapshot
           t == TableOf(s, q)
<1>1. s \in GoodSnapshots /\ Exists(s, q)
  BY RowsBySide DEF IsPlan
<1>2. CASE OneSidedRow(s, q)
  BY <1>1, <1>2, TargetOfOneSided DEF IdUnit
<1>3. CASE ~OneSidedRow(s, q)
  <2>1. Target(p).rows[q] = MergedRow(p, t, q)
    BY <1>1, <1>3, TargetRow DEF LoadedRow
  <2> QED
    BY <1>1, <1>3, <2>1, MergedParts DEF IdUnit
<1> QED
  BY <1>2, <1>3

\* A row the other side has and the target lost can be brought.
LEMMA LostRowCanBeBrought ==
  ASSUME NEW p, IsPlan(p), NEW m \in TablesOf(Target(p)), NEW id,
         \A q \in RowsOf(Target(p), m) : Target(p).rows[q].id # id,
         NEW lost \in Rows, p.snapshot[Opposite(p.base)].rows[lost] # None,
         TableOf(p.snapshot, lost) = m, p.snapshot[Opposite(p.base)].rows[lost].id = id
  PROVE  ProviderOf(p, m, id) \in Open(p)
<1> DEFINE s == p.snapshot
           c == Target(p)
           B == p.base
           O == Opposite(B)
<1>1. /\ s \in GoodSnapshots /\ B \in Sides /\ O \in Sides
      /\ \A X \in Sides : X = B \/ X = O
      /\ Opposite(O) = B
  BY GoodSide, SideIs DEF IsPlan
<1>2. \A q \in Rows : c.rows[q] # None /\ c.rows[q].table = m => c.rows[q].id # id
  BY DEF RowsOf
<1>3. /\ Exists(s, lost) /\ m \in TablesOf(s[O]) /\ m \in Tables
      /\ StructureSide(p, m) \in Sides /\ c.tables[m] = s[StructureSide(p, m)].tables[m]
      /\ c.tables[m] # None
  BY <1>1, RowsBySide, TargetTables DEF TablesOf
<1>4. c.rows[lost] # None => c.rows[lost].table = m
  BY TargetRowParts
<1>5. m \in OnBothSides(s)
  <2> SUFFICES ASSUME m \notin OnBothSides(s)
               PROVE  FALSE
    OBVIOUS
  <2>1. StructureSide(p, m) = O
    BY <1>1, <1>3, TablesBySide DEF TablesOf
  <2>2. lost \notin Loaded(s, m)
    BY <1>1, LoadedBySide
  <2>3. c.rows[lost] = s[O].rows[lost]
    BY <1>3, <2>1, <2>2, TargetRow
  <2> QED
    BY <1>2, <1>4, <2>3
<1>6. lost \in Loaded(s, m)
  <2> SUFFICES ASSUME lost \notin Loaded(s, m)
               PROVE  FALSE
    OBVIOUS
  <2>1. c.rows[lost] = s[StructureSide(p, m)].rows[lost]
    BY <1>3, TargetRow
  <2>2. /\ s[StructureSide(p, m)].rows[lost] # None
        /\ s[StructureSide(p, m)].rows[lost].id = id
    BY <1>1, <1>3, <1>5, UnloadedRow
  <2> QED
    BY <1>2, <1>4, <2>1, <2>2
<1>7. ~HasId(s, B, lost, id)
  <2> SUFFICES ASSUME s[B].rows[lost] # None, s[B].rows[lost].id = id
               PROVE  FALSE
    BY DEF HasId
  <2>1. PICK X \in Sides : SideTakenBy(p, IdUnit(s, lost)) = X
    BY SideTaken
  <2>2. s[X].rows[lost] # None /\ s[X].rows[lost].id = id
    BY <1>1
  <2>3. c.rows[lost] # None /\ c.rows[lost].table = m /\ c.rows[lost].id = id
    BY <1>5, <2>1, <2>2, AppliedRow
  <2> QED
    BY <1>2, <2>3
<1>8. PICK q \in Rows : Brings(p, m, id, q)
  <2>1. HasId(s, O, lost, id)
    BY DEF HasId
  <2>2. ~IsNotMissed(p, m, id)
    BY <1>6, <1>7, <2>1 DEF IsNotMissed
  <2> QED
    BY <2>2, ProviderIsUnit
<1>9. IdUnit(s, q) \notin p.applied
  <2> SUFFICES ASSUME IdUnit(s, q) \in p.applied
               PROVE  FALSE
    OBVIOUS
  <2>1. SideTakenBy(p, IdUnit(s, q)) = O
    BY SideTaken
  <2>2. c.rows[q] # None /\ c.rows[q].table = m /\ c.rows[q].id = id
    BY <1>1, <1>5, <1>8, <2>1, AppliedRow DEF Brings, HasId
  <2> QED
    BY <1>2, <2>2
<1> QED
  BY <1>8, <1>9 DEF Open, Brings

\* So what a row of the other side refers to, and the target lost, can be brought.
LEMMA ReferenceCanBeBrought ==
  ASSUME NEW p, RequiresNothing(p), NEW o \in Rows, NEW t, NEW m \in TablesOf(Target(p)), NEW id,
         p.snapshot[Opposite(p.base)].rows[o] # None, TableOf(p.snapshot, o) = t,
         p.snapshot[Opposite(p.base)].rows[o].ref = id, id # None,
         m = Identity(p.snapshot[Opposite(p.base)], p.snapshot[Opposite(p.base)].tables[t].ref),
         \A q \in RowsOf(Target(p), m) : Target(p).rows[q].id # id
  PROVE  ProviderOf(p, m, id) \in Open(p)
<1> DEFINE s == p.snapshot
           O == Opposite(p.base)
<1>1. IsPlan(p) /\ s \in GoodSnapshots /\ O \in Sides
  BY GoodSide, SideIs DEF RequiresNothing, IsPlan
<1>2. s[O] \in Content /\ HoldsTogether(s[O]) /\ Conforms(s[O])
  BY <1>1, GoodSide
<1>3. /\ t \in TablesOf(s[O]) /\ s[O].rows[o].table = t
      /\ s[O].tables[t].ref # None
  BY <1>1, RowsBySide, SideConforms
<1>4. id # Blank
  <2>1. s["head"] = s.head /\ s["draft"] = s.draft
    BY <1>1, GoodSide, SideIs
  <2>2. WithoutDefaults(s.head) /\ WithoutDefaults(s.draft)
    BY DEF RequiresNothing
  <2>3. WithoutDefaults(s[O])
    BY <1>1, <2>1, <2>2 DEF Sides
  <2> QED
    BY <2>3 DEF WithoutDefaults
<1>5. PICK lost \in Rows : /\ s[O].rows[lost] # None /\ s[O].rows[lost].table = m
                           /\ s[O].rows[lost].id = id
  <2> DEFINE y == s[O]
  <2>1. /\ y \in Content /\ HoldsTogether(y) /\ y.rows[o] # None /\ y.rows[o].ref = id
        /\ y.rows[o].table = t /\ y.tables[t].ref # None /\ m = Identity(y, y.tables[t].ref)
    BY <1>2, <1>3
  <2> HIDE DEF y
  <2>2. \E lost \in Rows : y.rows[lost] # None /\ y.rows[lost].table = m /\ y.rows[lost].id = id
    BY <1>4, <2>1, ReferenceResolves
  <2> QED
    BY <2>2 DEF y
<1>6. TableOf(s, lost) = m
  <2> HIDE DEF s, O
  <2> QED
    BY <1>1, <1>5, RowsBySide
<1> QED
  BY <1>1, <1>5, <1>6, LostRowCanBeBrought

\* A reference of the target that does not resolve there.
LEMMA UnresolvedIs ==
  ASSUME NEW p, RequiresNothing(p), NEW r \in Unresolved(p, Target(p))
  PROVE  LET s == p.snapshot
             c == Target(p)
             t == TableOf(s, r)
             X == StructureSide(p, t)
             m == ReferencedTable(p, c, t)
         IN  /\ r \in Rows /\ Exists(s, r) /\ t \in Tables
             /\ c.rows[r] # None /\ c.rows[r].table = t /\ c.rows[r].ref # None
             /\ X \in Sides /\ s[X].tables[t].ref # None
             /\ m = Identity(s[X], s[X].tables[t].ref) /\ m \in TablesOf(c)
             /\ \A q \in RowsOf(c, m) : c.rows[q].id # c.rows[r].ref
<1> DEFINE s == p.snapshot
           c == Target(p)
           t == TableOf(s, r)
           X == StructureSide(p, t)
<1>1. IsPlan(p)
  BY DEF RequiresNothing
<1>2. /\ r \in Rows /\ c.rows[r] # None /\ c.rows[r].ref # None
      /\ \A q \in RowsOf(c, ReferencedTable(p, c, c.rows[r].table)) : c.rows[q].id # c.rows[r].ref
  BY DEF Unresolved
<1>3. /\ Exists(s, r) /\ t \in Tables /\ c.rows[r].table = t /\ t \in TablesOf(c)
      /\ X \in Sides /\ c.tables[t] = s[X].tables[t]
  BY <1>1, <1>2, TargetRowParts, TargetRowTable, TargetTables
<1>4. c.tables[t].ref # None
  BY <1>1, <1>2, <1>3, TargetConforms DEF Conforms, RowsOf
<1> QED
  BY <1>2, <1>3, <1>4, MeantTableIsThere

\* What a loaded row lacks is open: its structure, its own unit or the row it
\* refers to.
LEMMA LoadedRowIsRestored ==
  ASSUME NEW p, RequiresNothing(p), NEW r \in Unresolved(p, Target(p)),
         IsLoaded(p, Target(p), r)
  PROVE  RestoredReference(p, Target(p), r, Open(p)) \in Open(p)
<1> DEFINE s == p.snapshot
           c == Target(p)
           B == p.base
           O == Opposite(B)
           t == TableOf(s, r)
           X == StructureSide(p, t)
           m == ReferencedTable(p, c, t)
           id == c.rows[r].ref
           covering == IF OneSidedRow(s, r) THEN ExistenceUnit(s, r) ELSE ReferenceUnit(s, r)
           brought == {o \in covering.rows \cup {r} :
                         s[O].rows[o] # None /\ s[O].rows[o].ref = id}
           finding == RestoredReference(p, c, r, Open(p))
<1>1. /\ IsPlan(p) /\ s \in GoodSnapshots /\ B \in Sides /\ O \in Sides
      /\ \A Y \in Sides : Y = B \/ Y = O
      /\ O # B /\ Opposite(O) = B
  BY GoodSide, SideIs DEF RequiresNothing, IsPlan
<1>2. /\ r \in Rows /\ Exists(s, r) /\ t \in Tables
      /\ c.rows[r] # None /\ c.rows[r].table = t /\ id # None
      /\ X \in Sides /\ s[X].tables[t].ref # None
      /\ m = Identity(s[X], s[X].tables[t].ref) /\ m \in TablesOf(c)
      /\ \A q \in RowsOf(c, m) : c.rows[q].id # id
  BY UnresolvedIs
<1>3. r \in Loaded(s, t) /\ t \in OnBothSides(s)
  BY <1>1, <1>2, LoadedBySide DEF IsLoaded
<1>4. finding = IF ReferenceChanged(s, t) /\ StructureUnit(s, t) \in Open(p) THEN StructureUnit(s, t)
                ELSE IF covering \in Open(p) /\ brought = {} THEN covering
                ELSE ProviderOf(p, m, id)
  BY <1>2 DEF RestoredReference
<1> HIDE DEF finding, brought
<1> SUFFICES ASSUME ~(ReferenceChanged(s, t) /\ StructureUnit(s, t) \in Open(p)),
                    ~(covering \in Open(p) /\ brought = {})
             PROVE  ProviderOf(p, m, id) \in Open(p)
  <2> HIDE DEF covering
  <2> QED
    BY <1>4 DEF finding
<1>5. ReferenceChanged(s, t) => X = O
  <2> SUFFICES ASSUME ReferenceChanged(s, t)
               PROVE  X = O
    OBVIOUS
  <2>1. StructureUnit(s, t) \in Units(s)
    BY <1>1, <1>2, UnitsOfTable
  <2>2. StructureUnit(s, t) \in p.applied
    BY <2>1 DEF Open
  <2> QED
    BY <1>1, <2>2, SideTaken DEF StructureSide
<1>6. m = Identity(s[O], s[O].tables[t].ref)
  BY <1>1, <1>2, <1>3, <1>5, UnchangedField
<1>7. \A o \in brought : /\ o \in Rows /\ TableOf(s, o) = t
                         /\ s[O].rows[o] # None /\ s[O].rows[o].ref = id
  <2> TAKE o \in brought
  <2>1. o = r \/ o \in covering.rows
    BY DEF brought
  <2>2. s[O].rows[o] # None /\ s[O].rows[o].ref = id
    BY DEF brought
  <2>3. CASE o = r
    BY <1>2, <2>2, <2>3
  <2>4. CASE o \in covering.rows /\ OneSidedRow(s, r)
    <3>1. PICK Y \in Sides : s[Y].rows[r] # None
      BY <1>1, <1>2, RowsBySide
    <3>2. covering.rows \subseteq {r} \cup Replaced(s, Y, r)
      BY <1>1, <1>2, <2>4, <3>1, ExistenceIs DEF Unit
    <3> QED
      BY <1>2, <2>2, <2>4, <3>2 DEF Replaced
  <2>5. CASE o \in covering.rows /\ ~OneSidedRow(s, r)
    <3>1. covering.rows \subseteq {r}
      BY <2>5, ReferencePart, TableOfUnit
    <3> QED
      BY <1>2, <2>2, <2>5, <3>1
  <2> QED
    BY <2>1, <2>3, <2>4, <2>5
<1>8. brought # {}
  <2> SUFFICES ASSUME brought = {}
               PROVE  FALSE
    OBVIOUS
  <2>1. ~(s[O].rows[r] # None /\ s[O].rows[r].ref = id)
    BY DEF brought
  <2>2. CASE OneSidedRow(s, r)
    <3>1. ExistenceUnit(s, r) \in p.applied
      BY <1>1, <1>2, <1>3, <2>2, UnitsOfRow DEF Open
    <3>2. SideTakenBy(p, ExistenceUnit(s, r)) = O
      BY <1>1, <3>1, SideTaken
    <3>3. /\ s[O].rows[r] # None
          /\ id = IF O = X THEN s[O].rows[r].ref
                  ELSE IF s[X].tables[t].ref = None THEN None
                  ELSE IF ReferenceChanged(s, t) THEN Blank
                  ELSE s[O].rows[r].ref
      <4>1. LET from == SideTakenBy(p, ExistenceUnit(s, r))
                existing == s[from].rows[r]
                y == Target(p).rows[r]
            IN  /\ y = None <=> existing = None
                /\ existing # None =>
                     y.ref = IF from = X THEN existing.ref
                             ELSE IF s[X].tables[t].ref = None THEN None
                             ELSE IF ReferenceChanged(s, t) THEN Blank ELSE existing.ref
        BY <1>1, <1>2, <1>3, <2>2, TargetOfOneSided
      <4> QED
        BY <1>2, <3>2, <4>1
    <3> QED
      BY <1>2, <1>5, <2>1, <3>3
  <2>3. CASE ~OneSidedRow(s, r)
    <3> DEFINE Y == SideTakenBy(p, ReferenceUnit(s, r))
    <3>1. c.rows[r] = MergedRow(p, t, r)
      BY <1>1, <1>2, <1>3, <2>3, TargetRow DEF LoadedRow
    <3>2. Y \in Sides /\ id = s[Y].rows[r].ref
      <4>1. MergedRow(p, t, r).ref = s[Y].rows[r].ref
        BY <1>1, <1>2, <2>3, MergedParts
      <4>2. Y \in Sides
        BY <1>1, SideTaken
      <4> QED
        BY <3>1, <4>1, <4>2
    <3>3. s[O].rows[r] # None
      BY <1>1, <1>2, <2>3, RowsBySide
    <3>4. s[B].rows[r].ref # s[O].rows[r].ref
      BY <1>1, <2>1, <3>2, <3>3
    <3>5. ReferenceUnit(s, r) \in p.applied
      BY <1>1, <1>2, <1>3, <2>3, <3>4, UnitsOfRow DEF Open
    <3>6. Y = O
      BY <1>1, <3>5, SideTaken
    <3> QED
      BY <2>1, <3>2, <3>3, <3>6
  <2> QED
    BY <2>2, <2>3
<1> QED
  BY <1>1, <1>2, <1>6, <1>7, <1>8, ReferenceCanBeBrought

\* And so is what a row lacks that is not loaded: its structure or the row it
\* refers to.
LEMMA UnloadedRowIsRestored ==
  ASSUME NEW p, RequiresNothing(p), NEW r \in Unresolved(p, Target(p)),
         ~IsLoaded(p, Target(p), r)
  PROVE  UnchangedReference(p, Target(p), r, Open(p)) \in Open(p)
<1> DEFINE s == p.snapshot
           c == Target(p)
           B == p.base
           O == Opposite(B)
           t == TableOf(s, r)
           X == StructureSide(p, t)
           m == ReferencedTable(p, c, t)
           id == c.rows[r].ref
           finding == UnchangedReference(p, c, r, Open(p))
<1>1. /\ IsPlan(p) /\ s \in GoodSnapshots /\ B \in Sides /\ O \in Sides
      /\ \A Y \in Sides : Y = B \/ Y = O
      /\ O # B /\ Opposite(O) = B
  BY GoodSide, SideIs DEF RequiresNothing, IsPlan
<1>2. /\ r \in Rows /\ Exists(s, r) /\ t \in Tables
      /\ c.rows[r] # None /\ c.rows[r].table = t /\ id # None
      /\ X \in Sides /\ s[X].tables[t].ref # None
      /\ m = Identity(s[X], s[X].tables[t].ref) /\ m \in TablesOf(c)
      /\ \A q \in RowsOf(c, m) : c.rows[q].id # id
  BY UnresolvedIs
<1>3. r \notin Loaded(s, t) /\ c.rows[r] = s[X].rows[r]
  BY <1>1, <1>2, TargetRow DEF IsLoaded
<1>4. finding = IF (t \in OnOneSide(s) \/ ReferenceChanged(s, t)) /\ StructureUnit(s, t) \in Open(p)
                  THEN StructureUnit(s, t) ELSE ProviderOf(p, m, id)
  BY <1>2 DEF UnchangedReference
<1> HIDE DEF finding
<1> SUFFICES ASSUME ~((t \in OnOneSide(s) \/ ReferenceChanged(s, t)) /\ StructureUnit(s, t) \in Open(p))
             PROVE  ProviderOf(p, m, id) \in Open(p)
  BY <1>4 DEF finding
<1>5. s[O].rows[r] # None /\ s[O].rows[r].ref = id /\ m = Identity(s[O], s[O].tables[t].ref)
  <2>1. CASE X = O
    BY <1>2, <1>3, <2>1
  <2>2. CASE X # O
    <3>1. X = B /\ StructureUnit(s, t) \notin p.applied
      BY <1>1, <1>2, <2>2, SideTaken DEF StructureSide
    <3>2. t \notin OnOneSide(s) /\ ~ReferenceChanged(s, t)
      BY <1>1, <1>2, <3>1, UnitsOfTable DEF Open
    <3>3. t \in OnBothSides(s)
      <4>1. t \in TablesOf(s[B])
        BY <1>1, <1>2, <1>3, <3>1, RowsBySide
      <4> QED
        BY <1>1, <1>2, <3>2, <4>1, TablesBySide
    <3>4. s[O].rows[r] # None /\ s[O].rows[r].ref = s[X].rows[r].ref
      <4>1. s \in GoodSnapshots /\ X \in Sides /\ O \in Sides /\ r \in Rows
        BY <1>1, <1>2
      <4> HIDE DEF c, X, m, id
      <4> QED
        BY <1>2, <1>3, <3>2, <3>3, <4>1, UnloadedRow
    <3>5. Identity(s[O], s[O].tables[t].ref) = Identity(s[X], s[X].tables[t].ref)
      BY <1>1, <1>2, <3>2, <3>3, UnchangedField
    <3> QED
      BY <1>2, <1>3, <3>4, <3>5
  <2> QED
    BY <2>1, <2>2
<1> QED
  BY <1>1, <1>2, <1>5, ReferenceCanBeBrought

\* So a choice that requires nothing more is not blocked.
LEMMA NothingBlocks ==
  ASSUME NEW p, RequiresNothing(p)
  PROVE  Findings(p) = {}
<1> DEFINE c == Target(p)
<1>1. IsPlan(p)
  BY DEF RequiresNothing
<1>2. \A r \in Unresolved(p, c) : r \in Rows /\ c.rows[r] # None
  BY DEF Unresolved
<1>3. \A r \in Unresolved(p, c) :
        /\ ~IsLoaded(p, c, r)
        /\ ~BroughtWholesale(p, c.rows[r].table)
        /\ ~LosesId(p, ReferencedTable(p, c, c.rows[r].table), c.rows[r].ref)
  BY <1>2, RowsRequireNothing, LoadedRowIsRestored, UnloadedRowIsRestored
<1>4. \A t \in TablesOf(c) : c.tables[t].ref # None => ReferencedTable(p, c, t) # None
  <2> TAKE t \in TablesOf(c)
  <2> SUFFICES ASSUME c.tables[t].ref # None
               PROVE  ReferencedTable(p, c, t) # None
    OBVIOUS
  <2> QED
    BY MeantTableIsThere
<1>5. /\ DanglingRowReferences(p, c, Open(p)) = {}
      /\ UnchangedReferrersOfLostIds(p, c, Open(p)) = {}
      /\ WholesaleRowReferences(p, c, Open(p)) = {}
  <2> HIDE DEF c
  <2> QED
    BY <1>3 DEF DanglingRowReferences, UnchangedReferrersOfLostIds, WholesaleRowReferences
<1>6. TableReferences(p, c, Open(p)) = {}
  <2> HIDE DEF c
  <2> QED
    BY <1>4 DEF TableReferences
<1> QED
  BY <1>5, <1>6, NoTableIdCollides, NoRowIdCollides, FindingsAre DEF FindingsOf, Open

-----------------------------------------------------------------------------
(* A closure ends: the units are finitely many. *)

\* The values of a function on a finite set are finitely many.
LEMMA ValuesAreFinite ==
  ASSUME NEW S, IsFiniteSet(S), NEW f, f = [x \in S |-> f[x]]
  PROVE  IsFiniteSet({f[x] : x \in S})
<1> DEFINE T == {f[x] : x \in S}
<1>1. f \in Surjection(S, T)
  <2>1. f \in [S -> T]
    OBVIOUS
  <2>2. \A v \in T : \E x \in S : f[x] = v
    OBVIOUS
  <2> HIDE DEF T
  <2> QED
    BY <2>1, <2>2 DEF Surjection
<1> HIDE DEF T
<1>2. IsFiniteSet(T)
  BY <1>1, FS_Surjection
<1> QED
  BY <1>2 DEF T

LEMMA UnitsAreFinite ==
  ASSUME NEW s \in GoodSnapshots
  PROVE  IsFiniteSet(Units(s))
<1> DEFINE structure == [t \in Tables |-> StructureUnit(s, t)]
           existence == [r \in Rows |-> ExistenceUnit(s, r)]
           rename == [r \in Rows |-> RenameUnit(s, r)]
           value == [r \in Rows |-> ValueUnit(s, r)]
           reference == [r \in Rows |-> ReferenceUnit(s, r)]
           A == {structure[t] : t \in Tables}
           B == {existence[r] : r \in Rows}
           C == {rename[r] : r \in Rows}
           D == {value[r] : r \in Rows}
           E == {reference[r] : r \in Rows}
<1>1. IsFiniteSet(Tables) /\ IsFiniteSet(Rows)
  BY UnitAssumption DEF UnitAssumption
<1>2. /\ \A t \in Tables : StructureUnit(s, t) \in A
      /\ \A r \in Rows : /\ ExistenceUnit(s, r) \in B /\ RenameUnit(s, r) \in C
                         /\ ValueUnit(s, r) \in D /\ ReferenceUnit(s, r) \in E
  OBVIOUS
<1>3. /\ structure = [t \in Tables |-> structure[t]] /\ existence = [r \in Rows |-> existence[r]]
      /\ rename = [r \in Rows |-> rename[r]] /\ value = [r \in Rows |-> value[r]]
      /\ reference = [r \in Rows |-> reference[r]]
  OBVIOUS
<1> HIDE DEF structure, existence, rename, value, reference
<1>4. IsFiniteSet(A) /\ IsFiniteSet(B) /\ IsFiniteSet(C) /\ IsFiniteSet(D) /\ IsFiniteSet(E)
  <2>1. IsFiniteSet(A)
    BY <1>1, <1>3, ValuesAreFinite
  <2>2. IsFiniteSet(B)
    BY <1>1, <1>3, ValuesAreFinite
  <2>3. IsFiniteSet(C)
    BY <1>1, <1>3, ValuesAreFinite
  <2>4. IsFiniteSet(D)
    BY <1>1, <1>3, ValuesAreFinite
  <2>5. IsFiniteSet(E)
    BY <1>1, <1>3, ValuesAreFinite
  <2> QED
    BY <2>1, <2>2, <2>3, <2>4, <2>5
<1> HIDE DEF A, B, C, D, E
<1>5. IsFiniteSet((A \cup B) \cup ((C \cup D) \cup E))
  <2>1. IsFiniteSet(A \cup B) /\ IsFiniteSet(C \cup D)
    BY <1>4, FS_Union
  <2>2. IsFiniteSet((C \cup D) \cup E)
    BY <1>4, <2>1, FS_Union
  <2> QED
    BY <2>1, <2>2, FS_Union
<1>6. Units(s) \subseteq (A \cup B) \cup ((C \cup D) \cup E)
  <2>1. "head" \in Sides
    BY DEF Sides
  <2> SUFFICES ASSUME NEW u \in Units(s)
               PROVE  u \in A \/ u \in B \/ u \in C \/ u \in D \/ u \in E
    OBVIOUS
  <2>2. CASE \E t \in Tables : u = StructureUnit(s, t)
    BY <1>2, <2>2
  <2>3. CASE \E r \in Rows : u \in RowUnits(s, r)
    BY <1>2, <2>1, <2>3, RowUnitsBySide
  <2> QED
    BY <2>2, <2>3, UnitsAre
<1> QED
  BY <1>5, <1>6, FS_Subset

\* A set of numbers has a least one.
LEMMA LeastNumber ==
  ASSUME NEW S \in SUBSET Nat, S # {}
  PROVE  \E n \in S : \A k \in S : n <= k
<1>1. \E n \in S : \A k \in S : ~(<<k, n>> \in OpToRel(<, Nat))
  BY NatLessThanWellFounded, WFMin
<1>2. \A k, l \in Nat : k < l => <<k, l>> \in OpToRel(<, Nat)
  BY DEF OpToRel
<1>3. \E n \in S : \A k \in S : ~(k < n)
  BY <1>1, <1>2, Zenon
<1> QED
  BY <1>3

\* What a set of units requires beyond them, and what the closure of a set is.
RequiredOf(f, units) == f[units] \ (units \cup {None})
Closes(g, f, units) ==
  g[units] = IF RequiredOf(f, units) = {} THEN units ELSE g[units \cup RequiredOf(f, units)]

\* Each round of a closure leaves fewer units out.
LEMMA RoundAdds ==
  ASSUME NEW U, IsFiniteSet(U), NEW f \in [SUBSET U -> SUBSET (U \cup {None})],
         NEW units \in SUBSET U
  PROVE  LET more == units \cup RequiredOf(f, units)
         IN  /\ more \in SUBSET U
             /\ Cardinality(U \ units) \in Nat
             /\ RequiredOf(f, units) # {} => Cardinality(U \ more) < Cardinality(U \ units)
<1> DEFINE more == units \cup RequiredOf(f, units)
<1>1. f[units] \subseteq U \cup {None}
  OBVIOUS
<1>2. more \in SUBSET U /\ units \subseteq more /\ (RequiredOf(f, units) # {} => more # units)
  BY <1>1 DEF RequiredOf
<1> HIDE DEF more
<1>3. IsFiniteSet(U \ units)
  BY FS_Difference
<1>4. Cardinality(U \ units) \in Nat
  BY <1>3, FS_CardinalityType
<1>5. U \ more \in SUBSET (U \ units)
  BY <1>2
<1>6. /\ IsFiniteSet(U \ more)
      /\ Cardinality(U \ more) <= Cardinality(U \ units)
      /\ Cardinality(U \ units) = Cardinality(U \ more) => U \ units = U \ more
  BY <1>3, <1>5, FS_Subset
<1>7. Cardinality(U \ more) \in Nat
  BY <1>6, FS_CardinalityType
<1>8. U \ units = U \ more => units = more
  BY <1>2
<1> QED
  BY <1>2, <1>4, <1>6, <1>7, <1>8 DEF more

\* So a closing of every selection exists.
LEMMA ClosingExists ==
  ASSUME NEW U, IsFiniteSet(U), NEW f \in [SUBSET U -> SUBSET (U \cup {None})]
  PROVE  \E g \in [SUBSET U -> SUBSET U] : \A units \in SUBSET U : Closes(g, f, units)
<1> DEFINE D == SUBSET U
           left == [units \in D |-> Cardinality(U \ units)]
           To(n) == \E g \in [D -> D] :
                      \A units \in D : left[units] <= n => Closes(g, f, units)
           never == {n \in Nat : ~To(n)}
<1>1. \A units \in D : left[units] \in Nat /\ left[units] <= left[{}]
  <2> TAKE units \in D
  <2>1. left[units] \in Nat
    BY RoundAdds
  <2>2. IsFiniteSet(U \ {}) /\ U \ units \in SUBSET (U \ {})
    BY FS_Difference
  <2>3. {} \in D
    OBVIOUS
  <2> QED
    BY <2>1, <2>2, <2>3, FS_Subset
<1>2. \A units \in D :
        /\ units \cup RequiredOf(f, units) \in D
        /\ RequiredOf(f, units) # {} => left[units \cup RequiredOf(f, units)] < left[units]
  BY RoundAdds
<1> HIDE DEF D, left, To, never
<1>3. never = {}
  <2> SUFFICES ASSUME never # {}
               PROVE  FALSE
    OBVIOUS
  <2>1. PICK n \in never : \A k \in never : n <= k
    <3>1. never \in SUBSET Nat
      BY DEF never
    <3> QED
      BY <3>1, LeastNumber
  <2>2. n \in Nat /\ ~To(n)
    BY DEF never
  <2>3. PICK g \in [D -> D] :
          \A units \in D : left[units] < n => Closes(g, f, units)
    <3>1. CASE n = 0
      <4> DEFINE g == [units \in D |-> units]
      <4>1. g \in [D -> D]
        OBVIOUS
      <4>2. \A units \in D : ~(left[units] < n)
        BY <1>1, <3>1
      <4> HIDE DEF g
      <4> QED
        BY <4>1, <4>2
    <3>2. CASE n # 0
      <4>1. n - 1 \in Nat /\ n - 1 < n
        BY <2>2, <3>2
      <4>2. n - 1 \notin never
        BY <2>1, <2>2, <4>1
      <4>3. To(n - 1)
        BY <4>1, <4>2 DEF never
      <4>4. \A units \in D : left[units] < n => left[units] <= n - 1
        BY <1>1, <2>2
      <4>5. PICK g \in [D -> D] :
              \A units \in D : left[units] <= n - 1 => Closes(g, f, units)
        BY <4>3 DEF To
      <4> QED
        BY <4>4, <4>5
    <3> QED
      BY <3>1, <3>2
  <2> DEFINE next(units) == units \cup RequiredOf(f, units)
             h == [units \in D |->
                     IF RequiredOf(f, units) = {} THEN units ELSE g[next(units)]]
  <2>4. h \in [D -> D]
    BY <1>2
  <2>5. \A units \in D :
          h[units] = IF RequiredOf(f, units) = {} THEN units ELSE g[next(units)]
    OBVIOUS
  <2> HIDE DEF h
  <2>6. ASSUME NEW units \in D, left[units] <= n
        PROVE  Closes(h, f, units)
    <3>1. CASE RequiredOf(f, units) = {}
      BY <2>5, <3>1 DEF Closes
    <3>2. CASE RequiredOf(f, units) # {}
      <4>1. next(units) \in D /\ left[next(units)] < left[units]
        BY <1>2, <3>2
      <4>2. left[next(units)] < n
        BY <1>1, <2>2, <2>6, <4>1
      <4>3. Closes(g, f, next(units))
        BY <2>3, <4>1, <4>2
      <4>4. h[next(units)] = g[next(units)]
        BY <2>5, <4>1, <4>3 DEF Closes
      <4> QED
        BY <2>5, <3>2, <4>4 DEF Closes
    <3> QED
      BY <3>1, <3>2
  <2> QED
    BY <2>2, <2>4, <2>6 DEF To
<1>4. To(left[{}])
  <2>1. left[{}] \in Nat
    BY <1>1 DEF D
  <2> QED
    BY <1>3, <2>1 DEF never
<1> QED
  BY <1>1, <1>4 DEF To, D

\* And the closure of a selection is a set of units that requires no other.
LEMMA ClosureEnds ==
  ASSUME NEW U, IsFiniteSet(U), NEW f \in [SUBSET U -> SUBSET (U \cup {None})],
         NEW selected \in SUBSET U
  PROVE  /\ Closure(f, selected) \in SUBSET U
         /\ f[Closure(f, selected)] \subseteq Closure(f, selected) \cup {None}
<1> DEFINE D == SUBSET U
           Satisfies(g) == g = [units \in D |->
                IF RequiredOf(f, units) = {} THEN units ELSE g[units \cup RequiredOf(f, units)]]
           close == CHOOSE g : Satisfies(g)
           left == [units \in D |-> Cardinality(U \ units)]
           Ends(units) == close[units] \in D /\ f[close[units]] \subseteq close[units] \cup {None}
           never == {n \in Nat : \E units \in D : left[units] = n /\ ~Ends(units)}
<1>1. Closure(f, selected) = close[selected]
  BY DEF Closure, RequiredOf
<1>2. Satisfies(close)
  <2>1. PICK g \in [D -> D] : \A units \in D : Closes(g, f, units)
    BY ClosingExists
  <2>2. Satisfies(g)
    BY <2>1 DEF Closes
  <2> HIDE DEF Satisfies
  <2> QED
    BY <2>2
<1> HIDE DEF close
<1>3. \A units \in D : Closes(close, f, units)
  BY <1>2 DEF Closes
<1> HIDE DEF Satisfies
<1>4. \A units \in D : left[units] \in Nat
  BY RoundAdds
<1>5. \A units \in D :
        /\ units \cup RequiredOf(f, units) \in D
        /\ RequiredOf(f, units) # {} => left[units \cup RequiredOf(f, units)] < left[units]
  BY RoundAdds
<1> HIDE DEF D, left, Ends, never
<1>6. never = {}
  <2> SUFFICES ASSUME never # {}
               PROVE  FALSE
    OBVIOUS
  <2>1. PICK n \in never : \A k \in never : n <= k
    <3>1. never \in SUBSET Nat
      BY DEF never
    <3> QED
      BY <3>1, LeastNumber
  <2>2. PICK units \in D : left[units] = n /\ ~Ends(units)
    BY DEF never
  <2>3. CASE RequiredOf(f, units) = {}
    <3>1. close[units] = units
      BY <1>3, <2>3 DEF Closes
    <3>2. f[units] \subseteq units \cup {None}
      BY <2>3 DEF RequiredOf
    <3> QED
      BY <2>2, <3>1, <3>2 DEF Ends
  <2>4. CASE RequiredOf(f, units) # {}
    <3> DEFINE next == units \cup RequiredOf(f, units)
    <3>1. next \in D /\ left[next] < left[units] /\ left[next] \in Nat
      BY <1>4, <1>5, <2>4
    <3>2. close[units] = close[next]
      BY <1>3, <2>4 DEF Closes
    <3>3. ~Ends(next)
      BY <2>2, <3>2 DEF Ends
    <3>4. left[next] \in never
      BY <3>1, <3>3 DEF never
    <3> QED
      BY <1>4, <2>1, <2>2, <3>1, <3>4
  <2> QED
    BY <2>3, <2>4
<1>7. Ends(selected)
  <2>1. left[selected] \in Nat
    BY <1>4 DEF D
  <2> QED
    BY <1>6, <2>1 DEF never, D
<1> QED
  BY <1>1, <1>7 DEF Ends, D

\* A finding is a unit, or a blocker.
LEMMA FindingsAreUnits ==
  ASSUME NEW p, IsPlan(p)
  PROVE  Findings(p) \subseteq Units(p.snapshot) \cup {None}
<1> DEFINE s == p.snapshot
           c == Target(p)
           open == Open(p)
           required == Units(s) \cup {None}
<1>1. s \in GoodSnapshots /\ p.base \in Sides
  BY DEF IsPlan
<1>2. open \subseteq required /\ None \in required
  BY DEF Open
<1>3. \A m, id : ProviderOf(p, m, id) \in required
  BY ProviderIsUnit DEF Brings
<1> HIDE DEF open, required, c
<1>4. \A unit, otherwise : otherwise \in required => Orelse(unit, open, otherwise) \in required
  BY <1>2 DEF Orelse
<1>5. \A r : RestoredReference(p, c, r, open) \in required
  <2> TAKE r
  <2> DEFINE t == c.rows[r].table
             covering == IF OneSidedRow(s, r) THEN ExistenceUnit(s, r) ELSE ReferenceUnit(s, r)
             brought == {o \in covering.rows \cup {r} :
                           /\ s[Opposite(p.base)].rows[o] # None
                           /\ s[Opposite(p.base)].rows[o].ref = c.rows[r].ref}
  <2>1. RestoredReference(p, c, r, open) =
          IF ReferenceChanged(s, t) /\ StructureUnit(s, t) \in open THEN StructureUnit(s, t)
          ELSE IF covering \in open /\ brought = {} THEN covering
          ELSE ProviderOf(p, ReferencedTable(p, c, t), c.rows[r].ref)
    BY DEF RestoredReference
  <2> HIDE DEF t, covering, brought
  <2> QED
    BY <1>2, <1>3, <2>1
<1>6. \A r : UnchangedReference(p, c, r, open) \in required
  BY <1>2, <1>3 DEF UnchangedReference
<1>7. TableIdCollisions(p, c, open) \subseteq required /\ TableReferences(p, c, open) \subseteq required
  BY <1>2, <1>4 DEF TableIdCollisions, TableReferences
<1>8. RowIdCollisions(p, c, open) \subseteq required
  BY <1>2, <1>4 DEF RowIdCollisions
<1>9. /\ DanglingRowReferences(p, c, open) \subseteq required
      /\ UnchangedReferrersOfLostIds(p, c, open) \subseteq required
      /\ WholesaleRowReferences(p, c, open) \subseteq required
  BY <1>5, <1>6 DEF DanglingRowReferences, UnchangedReferrersOfLostIds, WholesaleRowReferences
<1>10. Findings(p) = FindingsOf(p, c, open)
  BY FindingsAre DEF c, open, Open
<1> QED
  BY <1>7, <1>8, <1>9, <1>10 DEF FindingsOf, required

\* The closure of a selection is made of units, and requires no other.
LEMMA ClosureIsClosed ==
  ASSUME NEW s \in GoodSnapshots, NEW operation \in Operations, NEW selected \in SUBSET Units(s)
  PROVE  LET plan == Close(s, operation, selected)
             p == Plan(s, operation, plan.units)
         IN  /\ plan.units \in SUBSET Units(s)
             /\ plan.blocked = (Findings(p) # {})
             /\ Findings(p) \subseteq plan.units \cup {None}
<1> DEFINE U == Units(s)
           f == [units \in SUBSET U |-> Findings(Plan(s, operation, units))]
           units == Closure(f, selected)
<1>1. f \in [SUBSET U -> SUBSET (U \cup {None})]
  <2>1. \A chosen : IsPlan(Plan(s, operation, chosen)) /\ Plan(s, operation, chosen).snapshot = s
    BY DEF IsPlan, Plan, BaseSide, Sides
  <2>2. \A chosen : Findings(Plan(s, operation, chosen)) \subseteq U \cup {None}
    BY <2>1, FindingsAreUnits
  <2> HIDE DEF U
  <2> QED
    BY <2>2
<1>2. \A chosen \in SUBSET U : f[chosen] = Findings(Plan(s, operation, chosen))
  OBVIOUS
<1>3. IsFiniteSet(U)
  BY UnitsAreFinite
<1>4. /\ Close(s, operation, selected).units = units
      /\ Close(s, operation, selected).blocked = (Findings(Plan(s, operation, units)) # {})
  BY DEF Close, Closed
<1> HIDE DEF U, f
<1>5. units \in SUBSET U /\ f[units] \subseteq units \cup {None}
  BY <1>1, <1>3, ClosureEnds DEF U
<1> HIDE DEF units
<1> QED
  BY <1>2, <1>4, <1>5 DEF U

\* So in a draft and a head without defaults it can be applied.
LEMMA ClosureIsNotBlocked ==
  ASSUME NEW s \in GoodSnapshots, WithoutDefaults(s.head), WithoutDefaults(s.draft),
         NEW operation \in Operations, NEW selected \in SUBSET Units(s)
  PROVE  ~Close(s, operation, selected).blocked
<1> DEFINE plan == Close(s, operation, selected)
           p == Plan(s, operation, plan.units)
<1>1. plan.blocked = (Findings(p) # {}) /\ Findings(p) \subseteq plan.units \cup {None}
  BY ClosureIsClosed
<1> HIDE DEF plan
<1>2. IsPlan(p) /\ p.snapshot = s /\ p.applied = plan.units
  BY DEF IsPlan, Plan, BaseSide, Sides
<1> HIDE DEF p
<1>3. RequiresNothing(p)
  BY <1>1, <1>2 DEF RequiresNothing
<1> QED
  BY <1>1, <1>2, <1>3, NothingBlocks DEF plan

\* When no reference is a default, the closure always finds a way: every single unit
\* can be committed, and reverted, with what it requires.
THEOREM EveryUnitCanAlwaysBeApplied ==
  Spec => []EveryUnitCanBeApplied
<1>1. ASSUME IInv, WithoutDefaults(head), WithoutDefaults(draft),
             NEW unit \in Units(Snapshot), NEW operation \in Operations
      PROVE  ~Close(Snapshot, operation, {unit}).blocked
  <2>1. Snapshot \in GoodSnapshots /\ Snapshot.head = head /\ Snapshot.draft = draft
    BY <1>1 DEF IInv, Snapshot
  <2>2. {unit} \in SUBSET Units(Snapshot)
    OBVIOUS
  <2> QED
    BY <1>1, <2>1, <2>2, ClosureIsNotBlocked
<1>2. IInv => EveryUnitCanBeApplied
  BY <1>1 DEF EveryUnitCanBeApplied
<1> QED
  BY <1>2, Inductive, PTL

-----------------------------------------------------------------------------
(* The abstract specification, which knows no closure. *)

\* Every behaviour of it keeps the invariant.
THEOREM ContentInductive ==
  ContentSpec => []IInv
<1>1. IInv /\ [ContentNext]_contentVars => IInv'
  BY StepKeeps DEF ContentNext
<1> QED
  BY <1>1, InitIsGood, PTL DEF ContentSpec

\* So whatever chooses the units that move together, as long as their target has no
\* findings: ids stay unique, no schema is without its table and no reference without
\* its row, and every difference belongs to a unit.
THEOREM ContentHoldsTogether ==
  ContentSpec => [](RevisionsHoldTogether /\ EveryDifferenceHasAUnit)
<1>1. IInv => RevisionsHoldTogether /\ EveryDifferenceHasAUnit
  BY IInvIs, DifferencesHaveUnits DEF RevisionsHoldTogether
<1> QED
  BY <1>1, ContentInductive, PTL

\* Closing a selection and applying it implements moving units: what is applied are
\* units of the difference, and their target has no findings.
THEOREM SelectionsImplementContent ==
  Spec => ContentSpec
<1>1. ASSUME IInv, [Next]_vars
      PROVE  [ContentNext]_contentVars
  <2>1. ASSUME NEW selected \in SUBSET Units(Snapshot), CommitDraftChanges(selected)
        PROVE  ContentNext
    <3>1. applied' = Close(Snapshot, "commit", selected).units
      BY <2>1 DEF CommitDraftChanges, Apply
    <3>2. applied' \in SUBSET Units(Snapshot)
      BY <1>1, <3>1, ClosureIsClosed DEF IInv, Operations
    <3> QED
      BY <2>1, <3>2, ApplyMoves DEF ContentNext, Operations
  <2>2. ASSUME NEW selected \in SUBSET Units(Snapshot), RevertDraftChanges(selected)
        PROVE  ContentNext
    <3>1. applied' = Close(Snapshot, "revert", selected).units
      BY <2>2 DEF RevertDraftChanges, Apply
    <3>2. applied' \in SUBSET Units(Snapshot)
      BY <1>1, <3>1, ClosureIsClosed DEF IInv, Operations
    <3> QED
      BY <2>2, <3>2, ApplyMoves DEF ContentNext, Operations
  <2>3. CASE EditDraft \/ CreateRevision \/ RevertChanges
    BY <2>3 DEF ContentNext
  <2>4. CASE UNCHANGED vars
    BY <2>4 DEF vars
  <2> QED
    BY <1>1, <2>1, <2>2, <2>3, <2>4 DEF Next
<1>2. Init => ContentInit
  BY DEF Init
<1> QED
  BY <1>1, <1>2, Inductive, PTL DEF Spec, ContentSpec
=============================================================================

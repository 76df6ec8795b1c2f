------------------------ MODULE AsyncMigrationProofs ------------------------
(***************************************************************************)
(* The migration of a table's rows, for any number of drivers, rows,       *)
(* schemas and batches of any size: the shadow holds what its checkpoint   *)
(* says, the swap finds what the migration began with, and readers of the  *)
(* draft see one change of schema.                                         *)
(***************************************************************************)
EXTENDS AsyncMigration, FiniteSetTheorems, WellFoundedInduction, TLAPS

-----------------------------------------------------------------------------
(* Counting rows. *)

CopiesOf(rows) == UNION {{r} \X (1..rows[r]) : r \in Rows}

\* Copies, seen as pairs.
LEMMA CopyIs ==
  ASSUME NEW rows \in Contents, NEW r, NEW i
  PROVE  <<r, i>> \in CopiesOf(rows) <=> r \in Rows /\ i \in 1..rows[r]
BY DEF CopiesOf, Contents

\* A table has finitely many rows.
LEMMA CopiesAreFinite ==
  ASSUME NEW rows \in Contents
  PROVE  IsFiniteSet(CopiesOf(rows))
<1> DEFINE of == [r \in Rows |-> {r} \X (1..rows[r])]
           parts == {{r} \X (1..rows[r]) : r \in Rows}
<1>1. of \in Surjection(Rows, parts)
  BY DEF Surjection
<1>2. IsFiniteSet(parts)
  <2> HIDE DEF of, parts
  <2>1. QED
    BY <1>1, FS_Surjection, NumbersAssumption
<1>3. \A r \in Rows : IsFiniteSet({r} \X (1..rows[r]))
  <2>1. ASSUME NEW r \in Rows
        PROVE  IsFiniteSet({r} \X (1..rows[r]))
    <3>1. rows[r] \in Int
      BY DEF Contents
    <3>2. IsFiniteSet(1..rows[r])
      BY <3>1, FS_Interval
    <3>3. IsFiniteSet({r})
      BY FS_Singleton, Zenon
    <3>4. QED
      BY <3>2, <3>3, FS_Product
  <2>2. QED
    BY <2>1
<1>4. \A part \in parts : IsFiniteSet(part)
  BY <1>3
<1>5. IsFiniteSet(UNION parts)
  <2> HIDE DEF parts
  <2>1. QED
    BY <1>2, <1>4, FS_UNION
<1>6. QED
  BY <1>5 DEF CopiesOf

\* Rows that are there once are counted once.
LEMMA OnceIsContents ==
  ASSUME NEW S
  PROVE  Once(S) \in Contents
BY DEF Once, Contents

\* An empty table has no rows.
LEMMA NoRows ==
  Cardinality(CopiesOf(Once({}))) = 0
<1>1. \A r \in Rows : Once({})[r] = 0
  BY DEF Once
<1>2. CopiesOf(Once({})) = {}
  BY <1>1 DEF CopiesOf
<1>3. QED
  BY <1>2, FS_EmptySet

\* What a batch adds to the number of rows is its size, whatever is there.
LEMMA RowsAdded ==
  ASSUME NEW rows \in Contents, NEW S \in SUBSET Rows
  PROVE  LET more == [r \in Rows |-> rows[r] + Once(S)[r]]
         IN  /\ more \in Contents
             /\ Cardinality(S) \in Nat
             /\ Cardinality(CopiesOf(more)) = Cardinality(CopiesOf(rows)) + Cardinality(S)
<1> DEFINE more == [r \in Rows |-> rows[r] + Once(S)[r]]
           added == {<<r, rows[r] + 1>> : r \in S}
           copy == [r \in S |-> <<r, rows[r] + 1>>]
<1>0. /\ \A r \in Rows : rows[r] \in Nat
      /\ \A r \in Rows : more[r] = IF r \in S THEN rows[r] + 1 ELSE rows[r]
  BY DEF Contents, Once
<1>1. more \in Contents
  BY <1>0 DEF Contents
<1>2. CopiesOf(more) = CopiesOf(rows) \cup added
  <2>1. ASSUME NEW c \in CopiesOf(more)
        PROVE  c \in CopiesOf(rows) \cup added
    <3>1. PICK r \in Rows : c \in {r} \X (1..more[r])
      BY <2>1 DEF CopiesOf
    <3>2. PICK i \in 1..more[r] : c = <<r, i>>
      BY <3>1
    <3>3. i \in 1..rows[r] \/ (r \in S /\ i = rows[r] + 1)
      BY <1>0, <3>2
    <3>4. QED
      BY <3>2, <3>3, CopyIs
  <2>2. ASSUME NEW c \in CopiesOf(rows)
        PROVE  c \in CopiesOf(more)
    <3>1. PICK r \in Rows : c \in {r} \X (1..rows[r])
      BY <2>2 DEF CopiesOf
    <3>2. PICK i \in 1..rows[r] : c = <<r, i>>
      BY <3>1
    <3>3. i \in 1..more[r]
      BY <1>0, <3>2
    <3>4. QED
      BY <1>1, <3>2, <3>3, CopyIs
  <2>3. ASSUME NEW r \in S
        PROVE  <<r, rows[r] + 1>> \in CopiesOf(more)
    <3>1. rows[r] + 1 \in 1..more[r]
      BY <1>0
    <3>2. QED
      BY <1>1, <3>1, CopyIs
  <2>4. QED
    BY <2>1, <2>2, <2>3
<1>3. CopiesOf(rows) \cap added = {}
  <2>1. ASSUME NEW r \in S, <<r, rows[r] + 1>> \in CopiesOf(rows)
        PROVE  FALSE
    <3>1. rows[r] + 1 \in 1..rows[r] /\ rows[r] \in Nat
      BY <1>0, <2>1, CopyIs
    <3>2. QED
      BY <3>1
  <2>2. QED
    BY <2>1
<1>4. IsFiniteSet(S) /\ Cardinality(S) \in Nat
  BY NumbersAssumption, FS_Subset, FS_CardinalityType
<1>5. IsFiniteSet(added) /\ Cardinality(added) = Cardinality(S)
  <2>1. copy \in Bijection(S, added)
    BY DEF Bijection, Injection, Surjection, IsInjective
  <2>2. ExistsBijection(S, added)
    <3> HIDE DEF copy, added
    <3>1. QED
      BY <2>1 DEF ExistsBijection
  <2>3. QED
    <3> HIDE DEF added
    <3>1. QED
      BY <1>4, <2>2, FS_Bijection
<1>6. IsFiniteSet(CopiesOf(rows)) /\ Cardinality(CopiesOf(rows)) \in Nat
  BY CopiesAreFinite, FS_CardinalityType
<1>7. Cardinality(CopiesOf(rows) \cup added) = Cardinality(CopiesOf(rows)) + Cardinality(S)
  <2> HIDE DEF added
  <2>1. Cardinality(CopiesOf(rows) \cup added) =
          Cardinality(CopiesOf(rows)) + Cardinality(added) - Cardinality(CopiesOf(rows) \cap added)
    BY <1>5, <1>6, FS_Union
  <2>2. Cardinality(CopiesOf(rows) \cap added) = 0
    BY <1>3, FS_EmptySet
  <2>3. QED
    BY <1>4, <1>5, <1>6, <2>1, <2>2
<1>8. QED
  <2> HIDE DEF added, more
  <2>1. Cardinality(CopiesOf(more)) = Cardinality(CopiesOf(rows)) + Cardinality(S)
    BY <1>2, <1>7
  <2>2. QED
    BY <1>1, <1>4, <2>1 DEF more

\* ... so that rows that are there once are counted once.
LEMMA OnceIsCounted ==
  ASSUME NEW S \in SUBSET Rows
  PROVE  Cardinality(CopiesOf(Once(S))) = Cardinality(S)
<1> DEFINE more == [r \in Rows |-> Once({})[r] + Once(S)[r]]
<1>1. more = Once(S)
  BY DEF Once
<1>2. Cardinality(CopiesOf(more)) = 0 + Cardinality(S) /\ Cardinality(S) \in Nat
  BY RowsAdded, NoRows, OnceIsContents
<1>3. QED
  BY <1>1, <1>2

-----------------------------------------------------------------------------
(* Batches. *)

BatchIn(R, last) ==
  LET rest == {r \in R : r > last}
  IN  {r \in rest : Cardinality({x \in rest : x < r}) < BatchSize}

\* A batch has a last row.
LEMMA LastRow ==
  ASSUME NEW S \in SUBSET Nat, IsFiniteSet(S), S # {}
  PROVE  Max(S) \in S /\ \A y \in S : y <= Max(S)
<1> DEFINE above(x) == {y \in S : y > x}
           sizes == {Cardinality(above(x)) : x \in S}
<1>1. \A x \in S : IsFiniteSet(above(x)) /\ Cardinality(above(x)) \in Nat
  <2>1. ASSUME NEW x \in S
        PROVE  IsFiniteSet(above(x)) /\ Cardinality(above(x)) \in Nat
    BY FS_Subset, FS_CardinalityType
  <2>2. QED
    BY <2>1
<1>2. sizes \subseteq Nat /\ sizes # {}
  BY <1>1
<1>3. \E n \in sizes : \A k \in sizes : ~(<<k, n>> \in OpToRel(<, Nat))
  <2> HIDE DEF sizes
  <2>1. QED
    BY <1>2, NatLessThanWellFounded, WFMin
<1>4. PICK n \in sizes : \A k \in sizes : ~(k < n)
  <2>1. \A k, l \in Nat : k < l => <<k, l>> \in OpToRel(<, Nat)
    BY DEF OpToRel
  <2>2. QED
    BY <1>2, <1>3, <2>1
<1>5. PICK x \in S : n = Cardinality(above(x))
  OBVIOUS
<1>6. ASSUME NEW z \in S, z > x
      PROVE  FALSE
  <2>0. x \in Nat /\ z \in Nat /\ (\A y \in S : y \in Nat) /\ \A y \in S : y > z => y > x
    BY <1>6
  <2>1. above(z) \subseteq above(x) /\ z \in above(x) /\ z \notin above(z)
    <3>1. z > x /\ ~(z > z)
      BY <1>6, <2>0
    <3>2. QED
      BY <2>0, <3>1, Zenon
  <2>2. Cardinality(above(z)) < Cardinality(above(x))
    <3>1. above(z) \in SUBSET above(x) /\ above(z) # above(x)
      BY <2>1
    <3>2. Cardinality(above(z)) <= Cardinality(above(x)) /\ Cardinality(above(z)) # Cardinality(above(x))
      <4> HIDE DEF above
      <4>1. QED
        BY <1>1, <3>1, FS_Subset
    <3>3. QED
      BY <1>1, <3>2
  <2>3. QED
    BY <1>4, <1>5, <2>2
<1>7. \A y \in S : x >= y
  <2>1. x \in Nat /\ \A y \in S : y \in Nat
    OBVIOUS
  <2>2. \A y \in S : ~(y > x)
    BY <1>6
  <2>3. QED
    BY <2>1, <2>2
<1>8. QED
  BY <1>7 DEF Max

\* What has few rows before it is not after what has more.
LEMMA FewerBefore ==
  ASSUME NEW rest \in SUBSET Nat, IsFiniteSet(rest), NEW n \in Nat,
         NEW m \in rest, Cardinality({x \in rest : x < m}) < n,
         NEW r \in rest, r <= m
  PROVE  Cardinality({x \in rest : x < r}) < n
<1> DEFINE before(y) == {x \in rest : x < y}
<1>1. before(r) \in SUBSET before(m)
  <2>1. ASSUME NEW x \in rest, x < r
        PROVE  x < m
    <3>1. x \in Nat /\ r \in Nat /\ m \in Nat
      OBVIOUS
    <3>2. QED
      BY <2>1, <3>1
  <2>2. QED
    BY <2>1
<1>2. before(r) \in SUBSET rest /\ before(m) \in SUBSET rest
  OBVIOUS
<1>3. Cardinality(before(m)) < n
  OBVIOUS
<1> HIDE DEF before
<1>4. IsFiniteSet(before(m)) /\ Cardinality(before(r)) <= Cardinality(before(m))
  BY <1>1, <1>2, FS_Subset
<1>5. Cardinality(before(r)) \in Nat /\ Cardinality(before(m)) \in Nat
  BY <1>2, FS_Subset, FS_CardinalityType
<1>6. Cardinality(before(r)) < n
  BY <1>3, <1>4, <1>5
<1>7. QED
  BY <1>6 DEF before

\* The rows up to a batch's last row are those up to the last batch's, and
\* those of the batch: none is left out.
LEMMA BatchIsNext ==
  ASSUME NEW R \in SUBSET Rows, NEW last \in Nat, NEW batch, batch # {},
         batch = BatchIn(R, last)
  PROVE  /\ batch \in SUBSET R
         /\ Max(batch) \in batch
         /\ \A r \in R : r <= Max(batch) <=> r <= last \/ r \in batch
         /\ \A r \in batch : r > last
<1> DEFINE rest == {r \in R : r > last}
           m == Max(batch)
<1>1. batch = {r \in rest : Cardinality({x \in rest : x < r}) < BatchSize}
  BY DEF BatchIn
<1>2. rest \in SUBSET Rows /\ (\A r \in R : r \in rest <=> r > last)
  OBVIOUS
<1> HIDE DEF rest
<1>3. rest \in SUBSET Nat /\ IsFiniteSet(rest) /\ BatchSize \in Nat
  BY <1>2, NumbersAssumption, FS_Subset
<1>4. batch \in SUBSET rest /\ IsFiniteSet(batch) /\ batch \in SUBSET Nat
  BY <1>1, <1>3, FS_Subset
<1>5. m \in batch /\ (\A y \in batch : y <= m)
  BY <1>4, LastRow
<1>6. \A r \in rest : r <= m => r \in batch
  <2> HIDE DEF m
  <2>1. m \in rest /\ Cardinality({x \in rest : x < m}) < BatchSize
    BY <1>1, <1>5
  <2>2. ASSUME NEW r \in rest, r <= m
        PROVE  r \in batch
    <3>1. Cardinality({x \in rest : x < r}) < BatchSize
      BY <1>3, <2>1, <2>2, FewerBefore
    <3>2. QED
      BY <1>1, <3>1
  <2>3. QED
    BY <2>2
<1>7. rest \in SUBSET R
  BY DEF rest
<1>8. \A r \in R : r <= m <=> r <= last \/ r \in batch
  <2> HIDE DEF m
  <2>1. ASSUME NEW r \in R
        PROVE  r <= m <=> r <= last \/ r \in batch
    <3>1. m \in Nat /\ m > last /\ r \in Nat
      BY <1>2, <1>4, <1>5, <1>7, NumbersAssumption
    <3>2. r \in rest <=> r > last
      BY <1>2
    <3>3. r \in batch => r <= m
      BY <1>5
    <3>4. r \in rest /\ r <= m => r \in batch
      BY <1>6
    <3>5. r \in batch => r > last
      BY <1>4, <3>2
    <3>6. QED
      BY <3>1, <3>2, <3>3, <3>4, <3>5
  <2>2. QED
    BY <2>1
<1>9. QED
  BY <1>2, <1>4, <1>5, <1>7, <1>8

-----------------------------------------------------------------------------
(* The inductive invariant. *)

\* What a table's version holds, whatever version it is.
CountOf(t) == IF t = None THEN 0 ELSE Cardinality(CopiesOf(t.rows))
RowsIn(t) == IF t = None THEN {} ELSE {r \in Rows : t.rows[r] > 0}
BatchOf(t, last) == BatchIn(RowsIn(t), last)

Viewing == {"init", "copy", "write", "beginSwap", "swap"}
Running == Viewing \cup {"step", "fail"}
Driver ==
  [at : Running \cup {"down", "idle", "takeover", "giveUp"},
   token : Tokens \cup {None}, view : View \cup {None}, batch : SUBSET Rows]
StatusAt(at) ==
  CASE at = "init" -> "PENDING" [] at = "swap" -> "SWAPPING" [] OTHER -> "COPYING"

\* Who holds the lease knows the record as it is.
Fits(d, r) ==
  /\ d.at \in Running => d.token # None
  /\ d.at \in Viewing => d.view # None
  /\ d.at = "write" => d.batch # {}
  /\ d.at \in Viewing /\ r # None /\ r.lockedBy = d.token =>
       d.view = r.view /\ r.status = StatusAt(d.at)
DriversFit == \A w \in Workers : Fits(worker[w], record)

\* No two of them hold it.
TokensDiffer ==
  \A u, w \in Workers :
    u # w /\ worker[u].at \in Running /\ worker[w].at \in Running =>
      worker[u].token # worker[w].token

HasShadow == record # None /\ record.status \in {"COPYING", "SWAPPING"}

RecordState ==
  record # None =>
    /\ record.status \notin Active => record.lockedBy = None
    /\ record.status = "PENDING" => record.view.copied = 0 /\ record.view.last = 0
    /\ record.status = "SWAPPING" => record.view.copied = record.view.total
    /\ record.view.from # record.view.to

\* The shadow is nobody else's, and has as many rows as the checkpoint says.
ShadowState ==
  HasShadow =>
    /\ record.view.shadow \in Versions \ Linked
    /\ table[record.view.shadow] # None
    /\ table[record.view.shadow].schema = record.view.to
    /\ CountOf(table[record.view.shadow]) = record.view.copied

DraftState ==
  /\ links.draft = None <=> links.head = None
  /\ DraftExists =>
       /\ \A v \in Linked : table[v] # None /\ table[v].rows \in {Once(S) : S \in Written}
       /\ table[links.draft].schema = schema

\* As long as the draft exists nothing of it changes under the migration, and
\* it is its rows that the shadow has.
SourceState ==
  IsActive /\ DraftExists =>
    /\ links.draft = record.view.source
    /\ schema = record.view.from
    /\ CountOf(table[record.view.source]) = record.view.total
    /\ HasShadow =>
         table[record.view.shadow].rows =
           Once({r \in RowsIn(table[record.view.source]) : r <= record.view.last})

BatchState ==
  IsActive /\ DraftExists =>
    \A w \in Workers :
      worker[w].at = "write" /\ Owns(w) =>
        worker[w].batch = BatchOf(table[record.view.source], record.view.last)

StoreState == RecordState /\ ShadowState /\ DraftState /\ SourceState
DriverState == DriversFit /\ TokensDiffer /\ BatchState
AInv == TypeOK /\ StoreState /\ DriverState

\* The set of drivers is the one that the type invariant gives.
LEMMA DriverIs ==
  Driver = [at : {"down", "idle", "takeover", "giveUp", "step", "init", "copy", "write",
                  "beginSwap", "swap", "fail"},
            token : Tokens \cup {None}, view : View \cup {None}, batch : SUBSET Rows]
<1>1. Running \cup {"down", "idle", "takeover", "giveUp"} =
        {"down", "idle", "takeover", "giveUp", "step", "init", "copy", "write",
         "beginSwap", "swap", "fail"}
  BY DEF Running, Viewing
<1>2. QED
  BY <1>1 DEF Driver

\* The type invariant, with it.
LEMMA TypesAre ==
  TypeOK <=>
    /\ table \in [Versions -> TableRecord \cup {None}]
    /\ links \in [head : Versions \cup {None}, draft : Versions \cup {None}]
    /\ schema \in Schemas
    /\ record \in MigrationRecord \cup {None}
    /\ worker \in [Workers -> Driver]
BY DriverIs DEF TypeOK

\* What the fields of a record are.
LEMMA RecordFields ==
  ASSUME NEW r \in MigrationRecord
  PROVE  /\ r.status \in Active \cup {"FAILED", "CANCELLED"}
         /\ r.lockedBy \in Tokens \cup {None} /\ r.retryCount \in 0..MaxRetries
         /\ r.view \in View /\ r.expired \in BOOLEAN /\ r.late \in BOOLEAN
         /\ r # None
BY NoneAssumption DEF MigrationRecord

\* What the fields of a view are.
LEMMA ViewFields ==
  ASSUME NEW v \in View
  PROVE  /\ v.source \in Versions /\ v.shadow \in Versions \cup {None}
         /\ v.from \in Schemas /\ v.to \in Schemas
         /\ v.total \in Nat /\ v.copied \in Nat /\ v.last \in Rows \cup {0} /\ v.last \in Nat
         /\ v # None
<1>1. /\ v.source \in Versions /\ v.shadow \in Versions \cup {None}
      /\ v.from \in Schemas /\ v.to \in Schemas
      /\ v.total \in Nat /\ v.copied \in Nat /\ v.last \in Rows \cup {0}
  BY DEF View
<1>2. v.last \in Nat
  <2>1. \A r \in Rows : r \in Nat
    BY NumbersAssumption
  <2>2. CASE v.last = 0
    BY <2>2
  <2>3. CASE v.last \in Rows
    BY <2>1, <2>3
  <2>4. QED
    BY <1>1, <2>2, <2>3
<1>3. v # None
  BY NoneAssumption, Zenon
<1>4. QED
  BY <1>1, <1>2, <1>3

\* What the fields of a driver are.
LEMMA DriverFields ==
  ASSUME NEW d \in Driver
  PROVE  /\ d.at \in Running \cup {"down", "idle", "takeover", "giveUp"}
         /\ d.token \in Tokens \cup {None} /\ d.view \in View \cup {None}
         /\ d.batch \in SUBSET Rows
BY DEF Driver

-----------------------------------------------------------------------------
(* Drivers. *)

\* What a step leaves of the lease to those that do not take it.
Leaves(d) ==
  d.at \in Viewing /\ record' # None /\ record'.lockedBy = d.token =>
    /\ record # None /\ record.lockedBy = d.token
    /\ record'.view = record.view /\ record'.status = record.status

\* A step that writes nothing where a migration reads.
SourceStays ==
  /\ DraftExists' => DraftExists
  /\ IsActive /\ DraftExists => table'[record.view.source] = table[record.view.source]

\* A step of one driver that disturbs no other.
LEMMA DriverMoves ==
  ASSUME TypeOK, DriverState, SourceStays,
         NEW w \in Workers, NEW d \in Driver, worker' = [worker EXCEPT ![w] = d],
         Fits(d, record'),
         d.at = "write" /\ record' # None /\ DraftExists' /\ record'.lockedBy = d.token =>
           d.batch = BatchOf(table'[record'.view.source], record'.view.last),
         d.at \in Running =>
           \/ worker[w].at \in Running /\ d.token = worker[w].token
           \/ \A u \in Workers \ {w} : worker[u].token # d.token,
         \A u \in Workers \ {w} : Leaves(worker[u])
  PROVE  worker' \in [Workers -> Driver] /\ DriverState'
<1>1. worker \in [Workers -> Driver]
  BY TypesAre
<1>2. worker' \in [Workers -> Driver] /\ worker'[w] = d
      /\ \A u \in Workers \ {w} : worker'[u] = worker[u]
  BY <1>1
<1>3. \A u \in Workers : Fits(worker[u], record)
  BY DEF DriverState, DriversFit
<1>4. ASSUME NEW u \in Workers
      PROVE  Fits(worker'[u], record')
  <2>1. CASE u = w
    BY <1>2, <2>1
  <2>2. CASE u # w
    <3>1. worker'[u] = worker[u] /\ Fits(worker[u], record) /\ Leaves(worker[u])
      BY <1>2, <1>3, <2>2
    <3>2. QED
      BY <3>1 DEF Fits, Leaves
  <2>3. QED
    BY <2>1, <2>2
<1>5. TokensDiffer'
  BY <1>2 DEF DriverState, TokensDiffer
<1>6. ASSUME IsActive', DraftExists', NEW u \in Workers,
             worker'[u].at = "write", record' # None, record'.lockedBy = worker'[u].token
      PROVE  worker'[u].batch = BatchOf(table'[record'.view.source], record'.view.last)
  <2>1. CASE u = w
    BY <1>2, <1>6, <2>1
  <2>2. CASE u # w
    <3>1. worker'[u] = worker[u] /\ Leaves(worker[u]) /\ worker[u].at \in Viewing
      BY <1>2, <1>6, <2>2 DEF Viewing
    <3>2. /\ record # None /\ record.lockedBy = worker[u].token
          /\ record'.view = record.view /\ record'.status = record.status
      BY <1>6, <3>1 DEF Leaves
    <3>3. IsActive /\ DraftExists /\ Owns(u)
      BY <1>6, <3>2 DEF IsActive, SourceStays, Owns
    <3>4. QED
      BY <1>6, <3>1, <3>2, <3>3 DEF DriverState, BatchState, SourceStays
  <2>3. QED
    BY <2>1, <2>2
<1>7. BatchState'
  BY <1>6 DEF BatchState, Owns
<1>8. QED
  BY <1>2, <1>4, <1>5, <1>7 DEF DriverState, DriversFit

\* A step of no driver that disturbs none.
LEMMA DriversStay ==
  ASSUME TypeOK, DriverState, SourceStays, UNCHANGED worker,
         \A u \in Workers : Leaves(worker[u])
  PROVE  worker' \in [Workers -> Driver] /\ DriverState'
<1>1. \A u \in Workers : Fits(worker[u], record) /\ worker'[u] = worker[u]
  BY DEF DriverState, DriversFit
<1>2. ASSUME NEW u \in Workers
      PROVE  Fits(worker'[u], record')
  BY <1>1 DEF Fits, Leaves
<1>3. ASSUME IsActive', DraftExists', NEW u \in Workers,
             worker'[u].at = "write", record' # None, record'.lockedBy = worker'[u].token
      PROVE  worker'[u].batch = BatchOf(table'[record'.view.source], record'.view.last)
  <2>1. worker'[u] = worker[u] /\ Leaves(worker[u]) /\ worker[u].at \in Viewing
    BY <1>1, <1>3 DEF Viewing
  <2>2. /\ record # None /\ record.lockedBy = worker[u].token
        /\ record'.view = record.view /\ record'.status = record.status
    BY <1>3, <2>1 DEF Leaves
  <2>3. IsActive /\ DraftExists /\ Owns(u)
    BY <1>3, <2>2 DEF IsActive, SourceStays, Owns
  <2>4. QED
    BY <1>3, <2>1, <2>2, <2>3 DEF DriverState, BatchState, SourceStays
<1>4. BatchState'
  BY <1>3 DEF BatchState, Owns
<1>5. QED
  BY <1>2, <1>4, TypesAre DEF DriverState, DriversFit, TokensDiffer

\* Nobody goes on under a record that is gone, or is nobody's.
LEMMA NobodysRecord ==
  ASSUME DriversFit, record' = None \/ record'.lockedBy = None
  PROVE  \A u \in Workers : Leaves(worker[u])
BY DEF DriversFit, Fits, Leaves, Running

\* ... nor is anybody disturbed where lease, status and progress stay.
LEMMA SameRecord ==
  ASSUME \/ UNCHANGED record
         \/ /\ record # None /\ record'.lockedBy = record.lockedBy
            /\ record'.view = record.view /\ record'.status = record.status
  PROVE  \A u \in Workers : Leaves(worker[u])
BY DEF Leaves

\* What the owner does disturbs nobody else.
LEMMA OwnerDisturbsNobody ==
  ASSUME DriverState, NEW w \in Workers, worker[w].at \in Running, Owns(w),
         record'.lockedBy = record.lockedBy
  PROVE  \A u \in Workers \ {w} : Leaves(worker[u])
<1>1. ASSUME NEW u \in Workers \ {w}, worker[u].at \in Viewing
      PROVE  worker[u].token # worker[w].token
  BY <1>1 DEF DriverState, TokensDiffer, Running
<1>2. QED
  BY <1>1 DEF Leaves, Owns

-----------------------------------------------------------------------------
(* The store. *)

\* A record whose lease or times change.
LEMMA StoreStays ==
  ASSUME StoreState, UNCHANGED <<table, links, schema>>,
         record # None, record' # None,
         record'.view = record.view, record'.status = record.status,
         record'.lockedBy # None => record.status \in Active
  PROVE  StoreState'
BY DEF StoreState, RecordState, ShadowState, DraftState, SourceState, HasShadow, IsActive,
       Linked, DraftExists

\* A record that ends or is deleted, with its shadow.
LEMMA StoreOfEnded ==
  ASSUME StoreState, UNCHANGED <<links, schema>>,
         \A v \in Linked : v # None => table'[v] = table[v],
         \/ record' = None
         \/ /\ record # None /\ record'.view = record.view /\ record'.lockedBy = None
            /\ record'.status \in {"FAILED", "CANCELLED"}
  PROVE  StoreState'
<1>1. DraftState'
  BY DEF StoreState, DraftState, DraftExists, Linked
<1>2. ~IsActive' /\ ~HasShadow'
  BY DEF IsActive, HasShadow, Active
<1>3. RecordState'
  BY DEF StoreState, RecordState, Active
<1>4. QED
  BY <1>1, <1>2, <1>3 DEF StoreState, ShadowState, SourceState

\* Nothing happens to the store.
LEMMA StoreUnchanged ==
  ASSUME StoreState, UNCHANGED <<table, links, schema, record>>
  PROVE  StoreState'
BY DEF StoreState, RecordState, ShadowState, DraftState, SourceState, HasShadow, IsActive,
       Linked, DraftExists

\* What is to be shown of a step.
LEMMA Assembled ==
  ASSUME table' \in [Versions -> TableRecord \cup {None}],
         links' \in [head : Versions \cup {None}, draft : Versions \cup {None}],
         schema' \in Schemas, record' \in MigrationRecord \cup {None},
         worker' \in [Workers -> Driver], StoreState', DriverState'
  PROVE  AInv'
<1>1. TypeOK'
  BY DriverIs DEF TypeOK
<1>2. QED
  BY <1>1 DEF AInv

-----------------------------------------------------------------------------
(* What becomes of a record. *)

\* Its times change,
LEMMA TimedRecord ==
  ASSUME NEW r \in MigrationRecord, NEW b \in BOOLEAN,
         NEW q \in {[r EXCEPT !.expired = b], [r EXCEPT !.late = b]}
  PROVE  /\ q \in MigrationRecord
         /\ q.lockedBy = r.lockedBy /\ q.status = r.status /\ q.view = r.view
BY DEF MigrationRecord

\* ... the lease is given back,
LEMMA ReleasedRecord ==
  ASSUME NEW r \in MigrationRecord
  PROVE  /\ Released(r) \in MigrationRecord
         /\ Released(r).lockedBy = None
         /\ Released(r).status = r.status /\ Released(r).view = r.view
         /\ Released(r).retryCount = r.retryCount
BY DEF MigrationRecord, Released

\* ... a retry is counted,
LEMMA RetriedRecord ==
  ASSUME NEW r \in MigrationRecord, r.retryCount < MaxRetries
  PROVE  LET next == [Released(r) EXCEPT !.retryCount = @ + 1]
         IN  /\ next \in MigrationRecord /\ next.lockedBy = None
             /\ next.status = r.status /\ next.view = r.view
<1>1. /\ Released(r) \in MigrationRecord /\ Released(r).lockedBy = None
      /\ Released(r).status = r.status /\ Released(r).view = r.view
      /\ Released(r).retryCount = r.retryCount
  BY ReleasedRecord
<1>2. r.retryCount + 1 \in 0..MaxRetries
  BY NumbersAssumption, RecordFields
<1> DEFINE q == Released(r)
<1> HIDE DEF q
<1>3. /\ [q EXCEPT !.retryCount = @ + 1] \in MigrationRecord
      /\ [q EXCEPT !.retryCount = @ + 1].lockedBy = q.lockedBy
      /\ [q EXCEPT !.retryCount = @ + 1].status = q.status
      /\ [q EXCEPT !.retryCount = @ + 1].view = q.view
  <2>1. q \in MigrationRecord /\ q.retryCount + 1 \in 0..MaxRetries
    BY <1>1, <1>2 DEF q
  <2>2. QED
    BY <2>1 DEF MigrationRecord
<1>4. QED
  BY <1>1, <1>3 DEF q

\* ... it ends,
LEMMA EndedRecord ==
  ASSUME record \in MigrationRecord, NEW s \in {"FAILED", "CANCELLED"}
  PROVE  /\ Ended(s) \in MigrationRecord
         /\ Ended(s).lockedBy = None /\ Ended(s).status = s /\ Ended(s).view = record.view
<1> DEFINE q == Released(record)
<1>1. q \in MigrationRecord /\ q.lockedBy = None /\ q.view = record.view
  BY ReleasedRecord
<1> HIDE DEF q
<1>2. /\ [q EXCEPT !.status = s, !.late = FALSE] \in MigrationRecord
      /\ [q EXCEPT !.status = s, !.late = FALSE].lockedBy = q.lockedBy
      /\ [q EXCEPT !.status = s, !.late = FALSE].status = s
      /\ [q EXCEPT !.status = s, !.late = FALSE].view = q.view
  BY <1>1 DEF MigrationRecord
<1>3. QED
  BY <1>1, <1>2 DEF Ended, q

\* ... its lease is taken,
Leased(r, t, n) ==
  [r EXCEPT !.lockedBy = t, !.expired = FALSE, !.late = FALSE, !.retryCount = n]

LEMMA LeasedRecord ==
  ASSUME NEW r \in MigrationRecord, NEW t \in Tokens, NEW n \in 0..MaxRetries
  PROVE  /\ Leased(r, t, n) \in MigrationRecord /\ Leased(r, t, n).lockedBy = t
         /\ Leased(r, t, n).status = r.status /\ Leased(r, t, n).view = r.view
BY DEF MigrationRecord, Leased

\* ... the copying begins,
Begun(r, v) == [r EXCEPT !.status = "COPYING", !.late = FALSE, !.view.shadow = v]

LEMMA BegunRecord ==
  ASSUME NEW r \in MigrationRecord, NEW v \in Versions
  PROVE  /\ Begun(r, v) \in MigrationRecord /\ Begun(r, v).lockedBy = r.lockedBy
         /\ Begun(r, v).status = "COPYING" /\ Begun(r, v).view = [r.view EXCEPT !.shadow = v]
<1>1. [r.view EXCEPT !.shadow = v] \in View
  BY RecordFields DEF View
<1>2. QED
  BY <1>1 DEF MigrationRecord, Active, Begun

\* ... gets on,
Continued(r, n, m) == [r EXCEPT !.view.copied = n, !.view.last = m, !.late = FALSE]

LEMMA CheckpointRecord ==
  ASSUME NEW r \in MigrationRecord, NEW n \in Nat, NEW m \in Rows
  PROVE  /\ Continued(r, n, m) \in MigrationRecord /\ Continued(r, n, m).lockedBy = r.lockedBy
         /\ Continued(r, n, m).status = r.status
         /\ Continued(r, n, m).view = [r.view EXCEPT !.copied = n, !.last = m]
<1>1. [r.view EXCEPT !.copied = n, !.last = m] \in View
  <2>1. ASSUME NEW v \in View
        PROVE  [v EXCEPT !.copied = n, !.last = m] \in View
    BY DEF View
  <2>2. QED
    BY <2>1, RecordFields
<1> DEFINE v == [r.view EXCEPT !.copied = n, !.last = m]
<1>2. [r EXCEPT !.view.copied = n, !.view.last = m, !.late = FALSE] =
        [r EXCEPT !.view = v, !.late = FALSE]
  BY RecordFields DEF MigrationRecord, View
<1> HIDE DEF v
<1>3. LET next == [r EXCEPT !.view = v, !.late = FALSE]
      IN  /\ next \in MigrationRecord /\ next.lockedBy = r.lockedBy
          /\ next.status = r.status /\ next.view = v
  <2>1. v \in View
    BY <1>1 DEF v
  <2>2. QED
    BY <2>1 DEF MigrationRecord
<1>4. QED
  BY <1>2, <1>3 DEF v, Continued

\* ... and comes to the swap.
LEMMA SwappingRecord ==
  ASSUME NEW r \in MigrationRecord
  PROVE  LET next == [r EXCEPT !.status = "SWAPPING", !.late = FALSE]
         IN  /\ next \in MigrationRecord /\ next.lockedBy = r.lockedBy
             /\ next.status = "SWAPPING" /\ next.view = r.view
BY DEF MigrationRecord, Active

-----------------------------------------------------------------------------
(* The draft's operations. *)

\* What an unlinked version leaves to the linked ones.
LEMMA LinkedKept ==
  ASSUME TypeOK, NEW v
  PROVE  /\ WithoutUnlinked(v) \in [Versions -> TableRecord \cup {None}]
         /\ \A u \in Versions : u \in Linked \/ u # v => WithoutUnlinked(v)[u] = table[u]
BY TypesAre DEF WithoutUnlinked

\* What has which type.
LEMMA Typed ==
  ASSUME AInv
  PROVE  /\ table \in [Versions -> TableRecord \cup {None}]
         /\ links \in [head : Versions \cup {None}, draft : Versions \cup {None}]
         /\ schema \in Schemas /\ record \in MigrationRecord \cup {None}
         /\ worker \in [Workers -> Driver]
         /\ TypeOK
         /\ \A v \in Versions : v # None
         /\ record # None => record \in MigrationRecord /\ record.view \in View
<1>1. TypeOK
  BY DEF AInv
<1>2. \A v \in Versions : v # None
  BY NumbersAssumption, NoneAssumption
<1>3. ASSUME record # None
      PROVE  record \in MigrationRecord /\ record.view \in View
  BY <1>1, <1>3, TypesAre, RecordFields
<1>4. QED
  BY <1>1, <1>2, <1>3, TypesAre

\* What the linked versions of a draft that exists are.
LEMMA LinkedIs ==
  ASSUME AInv, DraftExists
  PROVE  /\ links.head \in Versions /\ links.draft \in Versions
         /\ \A v \in Linked :
              /\ v \in Versions /\ v # None /\ table[v] \in TableRecord /\ table[v] # None
              /\ table[v].rows \in {Once(S) : S \in Written}
         /\ table[links.draft].schema = schema
<1>1. links.head # None /\ links.draft # None
  BY DEF AInv, StoreState, DraftState, DraftExists
<1>2. links.head \in Versions /\ links.draft \in Versions
  BY <1>1, Typed
<1>3. /\ \A v \in Linked : table[v] # None /\ table[v].rows \in {Once(S) : S \in Written}
      /\ table[links.draft].schema = schema
  BY DEF AInv, StoreState, DraftState
<1>4. \A v \in Linked : v \in Versions
  BY <1>2 DEF Linked
<1>5. \A v \in Linked : table[v] \in TableRecord
  BY <1>3, <1>4, Typed
<1>6. QED
  BY <1>2, <1>3, <1>4, <1>5, Typed

\* Rows are counted by what a version holds.
LEMMA CountIs ==
  ASSUME TypeOK, NEW v \in Versions
  PROVE  CountRows(v) = CountOf(table[v]) /\ CountRows(v) \in Nat
<1>1. CountRows(v) = CountOf(table[v])
  BY DEF CountRows, CountOf, Copies, CopiesOf
<1>2. CASE table[v] = None
  BY <1>1, <1>2 DEF CountRows
<1>3. CASE table[v] # None
  <2>1. table[v] \in TableRecord
    BY <1>3, TypesAre
  <2>2. table[v].rows \in Contents
    BY <2>1 DEF TableRecord
  <2>3. Cardinality(CopiesOf(table[v].rows)) \in Nat
    BY <2>2, CopiesAreFinite, FS_CardinalityType
  <2>4. QED
    BY <1>1, <1>3, <2>3 DEF CountOf
<1>4. QED
  BY <1>1, <1>2, <1>3

\* A draft operation.
LEMMA DraftWriteKeeps ==
  ASSUME AInv, NEW S \in Written, NEW s \in Schemas, DraftWrite(S, s)
  PROVE  AInv'
<1>1. PICK v \in IF links.draft = links.head THEN First(FreshVersions) ELSE {links.draft} :
        /\ links' = [links EXCEPT !.draft = v]
        /\ table' = [table EXCEPT ![v] = [rows |-> Once(S), schema |-> s]]
  BY DEF DraftWrite
<1>2. /\ DraftExists /\ ~IsActive /\ schema' = s /\ UNCHANGED <<record, worker>>
  BY DEF DraftWrite
<1>3. /\ table \in [Versions -> TableRecord \cup {None}]
      /\ links \in [head : Versions \cup {None}, draft : Versions \cup {None}]
      /\ schema \in Schemas /\ record \in MigrationRecord \cup {None}
      /\ worker \in [Workers -> Driver]
  BY TypesAre DEF AInv
<1>4. v \in Versions /\ v # links.head
  BY <1>1, <1>2, <1>3 DEF First, FreshVersions, Linked, DraftExists
<1>5. [rows |-> Once(S), schema |-> s] \in TableRecord
  BY OnceIsContents DEF TableRecord
<1>6. table' \in [Versions -> TableRecord \cup {None}] /\ table'[v] = [rows |-> Once(S), schema |-> s]
      /\ \A u \in Versions \ {v} : table'[u] = table[u]
  BY <1>1, <1>3, <1>4, <1>5
<1>7. /\ links' \in [head : Versions \cup {None}, draft : Versions \cup {None}]
      /\ links'.draft = v /\ links'.head = links.head
  BY <1>1, <1>3, <1>4
<1>8. v # None /\ table'[v] # None
  BY <1>4, <1>5, <1>6, NumbersAssumption, NoneAssumption
<1>9. worker' \in [Workers -> Driver] /\ DriverState'
  <2>1. SourceStays
    BY <1>2 DEF SourceStays
  <2>2. \A u \in Workers : Leaves(worker[u])
    BY <1>2, SameRecord
  <2>3. QED
    BY <1>2, <2>1, <2>2, DriversStay DEF AInv
<1>10. DraftState'
  <2>1. links.head # None /\ links.head \in Versions
    BY <1>2, <1>3 DEF AInv, StoreState, DraftState, DraftExists
  <2>2. table[links.head] # None /\ table[links.head].rows \in {Once(U) : U \in Written}
    BY <1>2, <2>1 DEF AInv, StoreState, DraftState, Linked
  <2>3. table'[links.head] = table[links.head]
    BY <1>4, <1>6, <2>1
  <2>4. table'[v].rows \in {Once(U) : U \in Written} /\ table'[v].schema = s
    BY <1>6
  <2>5. QED
    BY <1>2, <1>7, <1>8, <2>1, <2>2, <2>3, <2>4 DEF DraftState, DraftExists, Linked
<1>11. ~IsActive' /\ ~HasShadow' /\ RecordState'
  BY <1>2 DEF IsActive, HasShadow, Active, RecordState, AInv, StoreState
<1>12. StoreState'
  BY <1>10, <1>11 DEF StoreState, ShadowState, SourceState
<1>13. QED
  BY <1>2, <1>3, <1>6, <1>7, <1>9, <1>12, Assembled

\* A commit.
LEMMA CommitKeeps ==
  ASSUME AInv, Commit
  PROVE  AInv'
<1>1. /\ DraftExists /\ ~IsActive /\ links' = [links EXCEPT !.head = links.draft]
      /\ record' = None /\ UNCHANGED <<table, schema, worker>>
  BY DEF Commit
<1>2. /\ links' \in [head : Versions \cup {None}, draft : Versions \cup {None}]
      /\ links'.draft = links.draft /\ links'.head = links.draft
  BY <1>1, Typed
<1>3. worker' \in [Workers -> Driver] /\ DriverState'
  <2>1. SourceStays
    BY <1>1 DEF SourceStays
  <2>2. \A u \in Workers : Leaves(worker[u])
    BY <1>1, NobodysRecord DEF AInv, DriverState
  <2>3. QED
    BY <1>1, <2>1, <2>2, DriversStay DEF AInv
<1>4. DraftState'
  BY <1>1, <1>2 DEF AInv, StoreState, DraftState, DraftExists, Linked
<1>5. StoreState'
  BY <1>1, <1>4 DEF StoreState, RecordState, ShadowState, SourceState, HasShadow, IsActive
<1>6. QED
  BY <1>1, <1>2, <1>3, <1>5, Typed, Assembled

\* A revert, and what it cancels.
LEMMA RevertKeeps ==
  ASSUME AInv, Revert
  PROVE  AInv'
<1>1. /\ DraftExists /\ ~HasStatus("SWAPPING")
      /\ record' = IF IsActive THEN None ELSE record
      /\ table' = IF IsActive THEN WithoutUnlinked(record.view.shadow) ELSE table
      /\ links' = [links EXCEPT !.draft = links.head]
      /\ schema' = table[links.head].schema
      /\ UNCHANGED worker
  BY DEF Revert
<1>2. /\ links' \in [head : Versions \cup {None}, draft : Versions \cup {None}]
      /\ links'.draft = links.head /\ links'.head = links.head
  BY <1>1, Typed
<1>3. /\ table' \in [Versions -> TableRecord \cup {None}]
      /\ \A u \in Linked : table'[u] = table[u]
  BY <1>1, Typed, LinkedKept, LinkedIs
<1>4. links.head \in Linked /\ Linked' = {links.head}
  BY <1>2 DEF Linked
<1>5. schema' \in Schemas
  BY <1>1, <1>4, LinkedIs DEF TableRecord
<1>6. record' \in MigrationRecord \cup {None} /\ ~IsActive'
  BY <1>1, Typed DEF IsActive
<1>7. worker' \in [Workers -> Driver] /\ DriverState'
  <2>1. SourceStays
    <3>1. IsActive /\ DraftExists => record.view.source \in Linked
      BY DEF AInv, StoreState, SourceState, Linked
    <3>2. QED
      BY <1>1, <1>3, <3>1 DEF SourceStays
  <2>2. \A u \in Workers : Leaves(worker[u])
    <3>1. CASE IsActive
      BY <1>1, <3>1, NobodysRecord DEF AInv, DriverState
    <3>2. CASE ~IsActive
      BY <1>1, <3>2, SameRecord
    <3>3. QED
      BY <3>1, <3>2
  <2>3. QED
    BY <1>1, <2>1, <2>2, DriversStay DEF AInv
<1>8. DraftState'
  <2>1. links.head # None /\ table'[links.head] = table[links.head]
        /\ table[links.head] # None /\ table[links.head].rows \in {Once(S) : S \in Written}
    BY <1>1, <1>3, <1>4, LinkedIs
  <2>2. QED
    BY <1>1, <1>2, <1>4, <2>1 DEF DraftState, DraftExists
<1>9. RecordState'
  BY <1>1 DEF AInv, StoreState, RecordState
<1>10. ~HasShadow'
  BY <1>6 DEF HasShadow, IsActive, Active
<1>11. StoreState'
  BY <1>6, <1>8, <1>9, <1>10 DEF StoreState, ShadowState, SourceState
<1>12. QED
  BY <1>2, <1>3, <1>5, <1>6, <1>7, <1>11, Assembled

\* The deletion of the branch.
LEMMA DeleteBranchKeeps ==
  ASSUME AInv, DeleteBranch
  PROVE  AInv'
<1>1. /\ DraftExists /\ links' = [head |-> None, draft |-> None]
      /\ UNCHANGED <<table, schema, record, worker>>
  BY DEF DeleteBranch
<1>2. links' \in [head : Versions \cup {None}, draft : Versions \cup {None}] /\ ~DraftExists'
      /\ Linked' = {None}
  BY <1>1 DEF DraftExists, Linked
<1>3. worker' \in [Workers -> Driver] /\ DriverState'
  <2>1. SourceStays
    BY <1>1 DEF SourceStays
  <2>2. \A u \in Workers : Leaves(worker[u])
    BY <1>1, SameRecord
  <2>3. QED
    BY <1>1, <2>1, <2>2, DriversStay DEF AInv
<1>4. DraftState' /\ RecordState' /\ SourceState'
  BY <1>1, <1>2 DEF AInv, StoreState, DraftState, RecordState, SourceState
<1>5. ShadowState'
  <2>1. ASSUME HasShadow
        PROVE  record.view.shadow \in Versions \ {None}
    BY <2>1, Typed DEF AInv, StoreState, ShadowState
  <2>2. QED
    BY <1>1, <1>2, <2>1 DEF AInv, StoreState, ShadowState, HasShadow
<1>6. QED
  BY <1>1, <1>2, <1>3, <1>4, <1>5, Typed, Assembled DEF StoreState

\* The cleanup.
LEMMA DeleteOrphanTablesKeeps ==
  ASSUME AInv, DeleteOrphanTables
  PROVE  AInv'
<1> DEFINE kept == Linked \cup (IF IsActive THEN {record.view.shadow} ELSE {})
<1>1. /\ table' = [v \in Versions |-> IF v \in kept THEN table[v] ELSE None]
      /\ UNCHANGED <<links, schema, record, worker>>
  BY DEF DeleteOrphanTables
<1>2. /\ table' \in [Versions -> TableRecord \cup {None}]
      /\ \A u \in Linked \cap Versions : table'[u] = table[u]
      /\ IsActive /\ record.view.shadow \in Versions =>
           table'[record.view.shadow] = table[record.view.shadow]
  BY <1>1, Typed
<1>3. DraftExists => \A u \in Linked : table'[u] = table[u]
  BY <1>2, LinkedIs
<1>4. Linked' = Linked /\ DraftExists' = DraftExists /\ HasShadow' = HasShadow /\ IsActive' = IsActive
  BY <1>1 DEF Linked, DraftExists, HasShadow, IsActive
<1>5. IsActive /\ DraftExists => table'[record.view.source] = table[record.view.source]
  BY <1>3 DEF AInv, StoreState, SourceState, Linked
<1>6. worker' \in [Workers -> Driver] /\ DriverState'
  <2>1. SourceStays
    BY <1>1, <1>4, <1>5 DEF SourceStays
  <2>2. \A u \in Workers : Leaves(worker[u])
    BY <1>1, SameRecord
  <2>3. QED
    BY <1>1, <2>1, <2>2, DriversStay DEF AInv
<1>7. HasShadow => IsActive /\ record.view.shadow \in Versions
                   /\ table'[record.view.shadow] = table[record.view.shadow]
  BY <1>2 DEF AInv, StoreState, ShadowState, HasShadow, IsActive, Active
<1>8. DraftState' /\ RecordState' /\ ShadowState'
  BY <1>1, <1>3, <1>4, <1>7 DEF AInv, StoreState, DraftState, RecordState, ShadowState, Linked, DraftExists
<1>9. SourceState'
  BY <1>1, <1>4, <1>5, <1>7 DEF AInv, StoreState, SourceState
<1>10. QED
  BY <1>1, <1>2, <1>6, <1>8, <1>9, Typed, Assembled DEF StoreState

\* The start of a migration.
LEMMA StartKeeps ==
  ASSUME AInv, NEW to \in Schemas, Start(to)
  PROVE  AInv'
<1> DEFINE v == [source |-> links.draft, shadow |-> None, from |-> schema, to |-> to,
                 total |-> CountRows(links.draft), copied |-> 0, last |-> 0]
<1>1. /\ DraftExists /\ to # schema /\ UNCHANGED <<table, links, schema, worker>>
      /\ record' = [status |-> "PENDING", lockedBy |-> None, retryCount |-> 0, view |-> v,
                    expired |-> FALSE, late |-> FALSE]
  BY DEF Start
<1>2. v \in View
  <2>1. CountRows(links.draft) \in Nat /\ links.draft \in Versions
    BY <1>1, LinkedIs, CountIs DEF AInv
  <2>2. QED
    BY <2>1, Typed DEF View
<1>3. /\ v.source = links.draft /\ v.from = schema /\ v.to = to /\ v.copied = 0 /\ v.last = 0
      /\ v.total = CountOf(table[links.draft])
  <2>1. CountRows(links.draft) = CountOf(table[links.draft])
    BY <1>1, LinkedIs, CountIs DEF AInv
  <2>2. QED
    BY <2>1
<1> HIDE DEF v
<1>4. record' \in MigrationRecord
  BY <1>1, <1>2, NumbersAssumption DEF MigrationRecord, Active
<1>5. /\ record' # None /\ record'.lockedBy = None /\ record'.status = "PENDING" /\ record'.view = v
  BY <1>1, <1>4, RecordFields
<1>6. worker' \in [Workers -> Driver] /\ DriverState'
  <2>1. SourceStays
    BY <1>1 DEF SourceStays
  <2>2. \A u \in Workers : Leaves(worker[u])
    BY <1>5, NobodysRecord DEF AInv, DriverState
  <2>3. QED
    BY <1>1, <2>1, <2>2, DriversStay DEF AInv
<1>7. ~HasShadow' /\ Linked' = Linked /\ DraftExists' = DraftExists
  BY <1>1, <1>5 DEF HasShadow, Linked, DraftExists
<1>8. RecordState' /\ ShadowState'
  BY <1>1, <1>3, <1>5, <1>7 DEF RecordState, ShadowState, Active
<1>9. DraftState'
  BY <1>1, <1>7 DEF AInv, StoreState, DraftState, Linked, DraftExists
<1>10. SourceState'
  BY <1>1, <1>3, <1>5, <1>7 DEF SourceState
<1>11. QED
  BY <1>1, <1>4, <1>6, <1>8, <1>9, <1>10, Typed, Assembled DEF StoreState

\* The abort of a migration.
LEMMA AbortKeeps ==
  ASSUME AInv, Abort
  PROVE  AInv'
<1>1. /\ record # None /\ record' = None /\ table' = WithoutUnlinked(record.view.shadow)
      /\ UNCHANGED <<links, schema, worker>>
  BY DEF Abort
<1>2. /\ table' \in [Versions -> TableRecord \cup {None}]
      /\ \A u \in Versions : u \in Linked => table'[u] = table[u]
  BY <1>1, Typed, LinkedKept
<1>3. \A u \in Linked : u # None => table'[u] = table[u]
  BY <1>2, Typed DEF Linked
<1>4. StoreState'
  BY <1>1, <1>3, StoreOfEnded DEF AInv
<1>5. worker' \in [Workers -> Driver] /\ DriverState'
  <2>1. SourceStays
    <3>1. ASSUME IsActive, DraftExists
          PROVE  table'[record.view.source] = table[record.view.source]
      BY <1>3, <3>1, LinkedIs DEF AInv, StoreState, SourceState, Linked
    <3>2. QED
      BY <1>1, <3>1 DEF SourceStays, DraftExists
  <2>2. \A u \in Workers : Leaves(worker[u])
    BY <1>1, NobodysRecord DEF AInv, DriverState
  <2>3. QED
    BY <1>1, <2>1, <2>2, DriversStay DEF AInv
<1>6. QED
  BY <1>1, <1>2, <1>4, <1>5, Typed, Assembled

-----------------------------------------------------------------------------
(* Time. *)

\* What changes nothing but times.
LEMMA TimedKeeps ==
  ASSUME AInv, UNCHANGED <<table, links, schema, worker>>, record # None, NEW b \in BOOLEAN,
         record' = [record EXCEPT !.expired = b] \/ record' = [record EXCEPT !.late = b]
  PROVE  AInv'
<1>1. record \in MigrationRecord
  BY Typed
<1>2. /\ record' \in MigrationRecord
      /\ record'.lockedBy = record.lockedBy /\ record'.status = record.status
      /\ record'.view = record.view
  <2>1. record' \in {[record EXCEPT !.expired = b], [record EXCEPT !.late = b]}
    OBVIOUS
  <2>2. QED
    BY <1>1, <2>1, TimedRecord, Zenon
<1>3. record' # None
  BY <1>2, RecordFields
<1>4. record'.lockedBy # None => record.status \in Active
  BY <1>2 DEF AInv, StoreState, RecordState
<1>5. StoreState'
  BY <1>2, <1>3, <1>4, StoreStays DEF AInv
<1>6. SourceStays /\ \A u \in Workers : Leaves(worker[u])
  BY <1>2, SameRecord DEF SourceStays, DraftExists
<1>7. worker' \in [Workers -> Driver] /\ DriverState'
  BY <1>6, DriversStay DEF AInv
<1>8. QED
  BY <1>2, <1>5, <1>7, Typed, Assembled

\* What ends a record, or leaves it as it is, while no driver moves.
LEMMA CancelKeeps ==
  ASSUME AInv, CancelStalled
  PROVE  AInv'
<1>1. /\ record # None /\ record' = Ended("CANCELLED") /\ UNCHANGED <<table, links, schema, worker>>
  BY DEF CancelStalled, HasStatus
<1>2. /\ record' \in MigrationRecord /\ record'.lockedBy = None
      /\ record'.status = "CANCELLED" /\ record'.view = record.view
  BY <1>1, EndedRecord, Typed
<1>3. StoreState'
  BY <1>1, <1>2, StoreOfEnded DEF AInv
<1>4. SourceStays /\ \A u \in Workers : Leaves(worker[u])
  BY <1>1, <1>2, NobodysRecord DEF SourceStays, DraftExists, AInv, DriverState
<1>5. worker' \in [Workers -> Driver] /\ DriverState'
  BY <1>1, <1>4, DriversStay DEF AInv
<1>6. QED
  BY <1>1, <1>2, <1>3, <1>5, Typed, Assembled

-----------------------------------------------------------------------------
(* What a driver becomes. *)

\* It stops,
LEMMA StopMoves ==
  ASSUME TypeOK, DriverState, SourceStays, NEW w \in Workers, Stop(w),
         \A u \in Workers \ {w} : Leaves(worker[u])
  PROVE  worker' \in [Workers -> Driver] /\ DriverState'
<1>1. Idle \in Driver /\ Idle.at \notin Running /\ Fits(Idle, record')
  BY DEF Idle, Driver, Fits, Running, Viewing
<1>2. worker' = [worker EXCEPT ![w] = Idle]
  BY DEF Stop
<1>3. Idle.at # "write"
  BY DEF Idle
<1>4. QED
  BY <1>1, <1>2, <1>3, DriverMoves

\* ... goes on to its next step, or to its failure,
LEMMA ContinueMoves ==
  ASSUME TypeOK, DriverState, SourceStays, NEW w \in Workers, Continue(w) \/ FailLater(w),
         worker[w].at \in Running,
         \A u \in Workers \ {w} : Leaves(worker[u])
  PROVE  worker' \in [Workers -> Driver] /\ DriverState'
<1>1. PICK at \in {"step", "fail"} :
        worker' = [worker EXCEPT ![w] = [Idle EXCEPT !.at = at, !.token = worker[w].token]]
  BY DEF Continue, FailLater
<1> DEFINE d == [Idle EXCEPT !.at = at, !.token = worker[w].token]
<1>2. worker[w].token \in Tokens \cup {None} /\ worker[w].token # None
  BY TypesAre, DriverFields DEF DriverState, DriversFit, Fits
<1>3. /\ d \in Driver /\ d.at = at /\ d.token = worker[w].token /\ d.at \notin Viewing
  BY <1>2 DEF Idle, Driver, Running, Viewing
<1>4. worker' = [worker EXCEPT ![w] = d]
  BY <1>1
<1> HIDE DEF d
<1>5. Fits(d, record')
  BY <1>2, <1>3 DEF Fits, Viewing
<1>6. d.at # "write"
  BY <1>3
<1>7. QED
  BY <1>3, <1>4, <1>5, <1>6, DriverMoves

\* ... or changes what it knows, while the rest stays as it is.
LEMMA DriverAlone ==
  ASSUME AInv, UNCHANGED <<table, links, schema, record>>,
         NEW w \in Workers, NEW d \in Driver, worker' = [worker EXCEPT ![w] = d],
         Fits(d, record),
         d.at = "write" /\ record # None /\ DraftExists /\ record.lockedBy = d.token =>
           d.batch = BatchOf(table[record.view.source], record.view.last),
         d.at \in Running =>
           \/ worker[w].at \in Running /\ d.token = worker[w].token
           \/ \A u \in Workers \ {w} : worker[u].token # d.token
  PROVE  AInv'
<1>1. SourceStays /\ \A u \in Workers : Leaves(worker[u])
  BY SameRecord DEF SourceStays, DraftExists
<1>2. StoreState'
  BY StoreUnchanged DEF AInv
<1>3. Fits(d, record') /\ (DraftExists' <=> DraftExists)
  BY DEF Fits, DraftExists
<1>4. worker' \in [Workers -> Driver] /\ DriverState'
  <2>1. d.at = "write" /\ record' # None /\ DraftExists' /\ record'.lockedBy = d.token =>
          d.batch = BatchOf(table'[record'.view.source], record'.view.last)
    BY <1>3
  <2>2. TypeOK /\ DriverState
    BY DEF AInv
  <2>3. QED
    BY <1>1, <1>3, <2>1, <2>2, DriverMoves
<1>5. QED
  BY <1>2, <1>4, Typed, Assembled

\* A driver that is out of it.
LEMMA DriverOut ==
  ASSUME AInv, UNCHANGED <<table, links, schema, record>>,
         NEW w \in Workers, NEW d \in Driver, worker' = [worker EXCEPT ![w] = d],
         d.at \notin Running
  PROVE  AInv'
<1>1. Fits(d, record) /\ d.at # "write"
  BY DEF Fits, Running, Viewing
<1>2. QED
  BY <1>1, DriverAlone

\* A crash, a restart and an observation.
LEMMA OutsideKeeps ==
  ASSUME AInv, NEW w \in Workers,
         Crash(w) \/ Restart(w) \/ FindStalledSwap(w)
         \/ (Goto(w, "giveUp") /\ UNCHANGED <<table, links, schema, record>>)
  PROVE  AInv'
<1>1. CASE Crash(w)
  <2>1. [Idle EXCEPT !.at = "down"] \in Driver /\ [Idle EXCEPT !.at = "down"].at \notin Running
    BY DEF Idle, Driver, Running, Viewing
  <2>2. QED
    BY <1>1, <2>1, DriverOut DEF Crash
<1>2. CASE Restart(w)
  <2>1. Idle \in Driver /\ Idle.at \notin Running
    BY DEF Idle, Driver, Running, Viewing
  <2>2. QED
    BY <1>2, <2>1, DriverOut DEF Restart
<1>3. CASE FindStalledSwap(w)
  <2> DEFINE d == [Idle EXCEPT !.at = "takeover", !.token = record.lockedBy]
  <2>1. record.lockedBy \in Tokens \cup {None}
    BY <1>3, Typed, RecordFields DEF FindStalledSwap, HasStatus
  <2>2. d \in Driver /\ d.at \notin Running
    BY <2>1 DEF Idle, Driver, Running, Viewing
  <2>3. worker' = [worker EXCEPT ![w] = d] /\ UNCHANGED <<table, links, schema, record>>
    BY <1>3 DEF FindStalledSwap
  <2>4. QED
    <3> HIDE DEF d
    <3>1. QED
      BY <2>2, <2>3, DriverOut
<1>4. CASE Goto(w, "giveUp") /\ UNCHANGED <<table, links, schema, record>>
  <2> DEFINE d == [worker[w] EXCEPT !.at = "giveUp"]
  <2>1. d \in Driver /\ d.at \notin Running
    <3>1. worker[w] \in Driver
      BY Typed
    <3>2. QED
      BY <3>1 DEF Driver, Running, Viewing
  <2>2. worker' = [worker EXCEPT ![w] = d]
    BY <1>4, Typed DEF Goto
  <2>3. QED
    <3> HIDE DEF d
    <3>1. QED
      BY <1>4, <2>1, <2>2, DriverOut
<1>5. QED
  BY <1>1, <1>2, <1>3, <1>4

-----------------------------------------------------------------------------
(* Leases. *)

\* A token that nobody remembers makes the one owner.
LEMMA TakeLeaseKeeps ==
  ASSUME AInv, NEW w \in Workers, NEW n \in 0..MaxRetries, IsActive, TakeLease(w, n)
  PROVE  AInv'
<1>1. PICK t \in First(FreshTokens(w)) :
        /\ record' = [record EXCEPT !.lockedBy = t, !.expired = FALSE, !.late = FALSE,
                                    !.retryCount = n]
        /\ worker' = [worker EXCEPT ![w] = [Idle EXCEPT !.at = "step", !.token = t]]
        /\ UNCHANGED <<table, links, schema>>
  BY DEF TakeLease
<1>2. t \in Tokens /\ t # None /\ \A u \in Workers \ {w} : worker[u].token # t
  <2>1. t \in FreshTokens(w)
    BY <1>1 DEF First
  <2>2. t \in Tokens /\ \A u \in Workers \ {w} : worker[u].token # t
    BY <2>1 DEF FreshTokens
  <2>3. t # None
    BY <2>2, NumbersAssumption, NoneAssumption
  <2>4. QED
    BY <2>2, <2>3
<1>3. /\ record' \in MigrationRecord /\ record'.lockedBy = t
      /\ record'.status = record.status /\ record'.view = record.view
  <2>1. record \in MigrationRecord
    BY Typed DEF IsActive
  <2>2. t \in Tokens
    BY <1>2
  <2>3. record' = Leased(record, t, n)
    BY <1>1 DEF Leased
  <2>4. QED
    BY <2>1, <2>2, <2>3, LeasedRecord
<1>4. record # None /\ record' # None /\ record.status \in Active
  BY <1>3, RecordFields DEF IsActive
<1>5. StoreState'
  BY <1>1, <1>3, <1>4, StoreStays DEF AInv
<1> DEFINE d == [Idle EXCEPT !.at = "step", !.token = t]
<1>6. d \in Driver /\ d.at = "step" /\ d.token = t
  BY <1>2 DEF Idle, Driver, Running, Viewing
<1>7. worker' = [worker EXCEPT ![w] = d]
  BY <1>1
<1> HIDE DEF d
<1>8. Fits(d, record') /\ d.at # "write"
  BY <1>2, <1>6 DEF Fits, Viewing
<1>9. SourceStays /\ \A u \in Workers \ {w} : Leaves(worker[u])
  BY <1>1, <1>2, <1>3 DEF SourceStays, DraftExists, Leaves
<1>10. worker' \in [Workers -> Driver] /\ DriverState'
  <2>1. TypeOK /\ DriverState
    BY DEF AInv
  <2>2. \A u \in Workers \ {w} : worker[u].token # d.token
    BY <1>2, <1>6
  <2>3. QED
    BY <1>6, <1>7, <1>8, <1>9, <2>1, <2>2, DriverMoves
<1>11. QED
  BY <1>1, <1>3, <1>5, <1>10, Typed, Assembled

\* A claim, of a record or of its swap, and a takeover.
LEMMA ClaimKeeps ==
  ASSUME AInv, NEW w \in Workers, Claim(w) \/ ClaimSwap(w) \/ TakeOver(w)
  PROVE  AInv'
<1>1. ASSUME NEW owner, ReplaceSwapOwner(w, owner), owner => HasStatus("SWAPPING")
      PROVE  AInv'
  <2>1. CASE owner /\ record.retryCount < MaxRetries
    <3>1. record # None /\ IsActive
      BY <1>1, <2>1 DEF HasStatus, IsActive, Active
    <3>2. record.retryCount + 1 \in 0..MaxRetries
      BY <2>1, <3>1, Typed, RecordFields, NumbersAssumption
    <3>3. TakeLease(w, record.retryCount + 1)
      BY <1>1, <2>1 DEF ReplaceSwapOwner
    <3>4. QED
      BY <3>1, <3>2, <3>3, TakeLeaseKeeps
  <2>2. CASE ~(owner /\ record.retryCount < MaxRetries)
    BY <1>1, <2>2, OutsideKeeps DEF ReplaceSwapOwner
  <2>3. QED
    BY <2>1, <2>2
<1>2. CASE Claim(w)
  <2>1. IsActive /\ TakeLease(w, record.retryCount)
    BY <1>2 DEF Claim, HasStatus, IsActive, Active
  <2>2. record.retryCount \in 0..MaxRetries
    BY <2>1, Typed, RecordFields DEF IsActive
  <2>3. QED
    BY <2>1, <2>2, TakeLeaseKeeps
<1>3. CASE ClaimSwap(w)
  BY <1>1, <1>3 DEF ClaimSwap
<1>4. CASE TakeOver(w)
  <2>1. ReplaceSwapOwner(w, HasStatus("SWAPPING") /\ Owns(w))
    BY <1>4 DEF TakeOver
  <2>2. QED
    BY <1>1, <2>1
<1>5. QED
  BY <1>2, <1>3, <1>4

\* A swap that is given up.
LEMMA FailStalledSwapKeeps ==
  ASSUME AInv, NEW w \in Workers, FailStalledSwap(w)
  PROVE  AInv'
<1>1. /\ worker' = [worker EXCEPT ![w] = Idle] /\ UNCHANGED <<table, links, schema>>
      /\ record' = record \/ (HasStatus("SWAPPING") /\ record' = Ended("FAILED"))
  BY DEF FailStalledSwap
<1>2. CASE record' = record
  <2>1. Idle \in Driver /\ Idle.at \notin Running
    BY DEF Idle, Driver, Running, Viewing
  <2>2. QED
    BY <1>1, <1>2, <2>1, DriverOut
<1>3. CASE HasStatus("SWAPPING") /\ record' = Ended("FAILED")
  <2>1. /\ record # None /\ record' \in MigrationRecord /\ record'.lockedBy = None
        /\ record'.status = "FAILED" /\ record'.view = record.view
    BY <1>3, EndedRecord, Typed DEF HasStatus
  <2>2. StoreState'
    BY <1>1, <2>1, StoreOfEnded DEF AInv
  <2>3. SourceStays /\ \A u \in Workers : Leaves(worker[u])
    BY <1>1, <2>1, NobodysRecord DEF SourceStays, DraftExists, AInv, DriverState
  <2>4. worker' \in [Workers -> Driver] /\ DriverState'
    BY <1>1, <2>3, StopMoves DEF AInv, Stop
  <2>5. QED
    BY <1>1, <2>1, <2>2, <2>4, Typed, Assembled
<1>4. QED
  BY <1>1, <1>2, <1>3

\* A failure that ends the record, or whose driver has lost it.
LEMMA FailKeeps ==
  ASSUME AInv, NEW w \in Workers, Fail(w)
  PROVE  AInv'
<1>1. /\ worker' = [worker EXCEPT ![w] = Idle] /\ UNCHANGED <<table, links, schema>>
      /\ record' = record \/ (IsActive /\ record' = Ended("FAILED"))
  BY DEF Fail, Stop
<1>2. CASE record' = record
  <2>1. Idle \in Driver /\ Idle.at \notin Running
    BY DEF Idle, Driver, Running, Viewing
  <2>2. QED
    BY <1>1, <1>2, <2>1, DriverOut
<1>3. CASE IsActive /\ record' = Ended("FAILED")
  <2>1. /\ record # None /\ record' \in MigrationRecord /\ record'.lockedBy = None
        /\ record'.status = "FAILED" /\ record'.view = record.view
    BY <1>3, EndedRecord, Typed DEF IsActive
  <2>2. StoreState'
    BY <1>1, <2>1, StoreOfEnded DEF AInv
  <2>3. SourceStays /\ \A u \in Workers : Leaves(worker[u])
    BY <1>1, <2>1, NobodysRecord DEF SourceStays, DraftExists, AInv, DriverState
  <2>4. worker' \in [Workers -> Driver] /\ DriverState'
    BY <1>1, <2>3, StopMoves DEF AInv, Stop
  <2>5. QED
    BY <1>1, <2>1, <2>2, <2>4, Typed, Assembled
<1>4. QED
  BY <1>1, <1>2, <1>3

\* A lease that is given back, with a retry counted or without.
LEMMA ReleaseKeeps ==
  ASSUME AInv, NEW w \in Workers, IsActive, Stop(w), UNCHANGED <<table, links, schema>>,
         record' \in MigrationRecord, record'.lockedBy = None,
         record'.status = record.status, record'.view = record.view
  PROVE  AInv'
<1>1. record # None /\ record' # None
  BY RecordFields DEF IsActive
<1>2. StoreState'
  BY <1>1, StoreStays DEF AInv
<1>3. SourceStays /\ \A u \in Workers : Leaves(worker[u])
  BY NobodysRecord DEF SourceStays, DraftExists, AInv, DriverState
<1>4. worker' \in [Workers -> Driver] /\ DriverState'
  BY <1>3, StopMoves DEF AInv
<1>5. QED
  BY <1>2, <1>4, Typed, Assembled

\* A driver that stops, or fails later, with nothing changed.
LEMMA StopsOrFails ==
  ASSUME AInv, NEW w \in Workers, UNCHANGED <<table, links, schema, record>>,
         Stop(w) \/ (worker[w].at \in Running /\ (FailLater(w) \/ Continue(w)))
  PROVE  AInv'
<1>1. SourceStays /\ \A u \in Workers : Leaves(worker[u])
  BY SameRecord DEF SourceStays, DraftExists
<1>2. StoreState'
  BY StoreUnchanged DEF AInv
<1>3. worker' \in [Workers -> Driver] /\ DriverState'
  BY <1>1, StopMoves, ContinueMoves DEF AInv
<1>4. QED
  BY <1>2, <1>3, Typed, Assembled

\* A step that throws.
LEMMA RetryKeeps ==
  ASSUME AInv, NEW w \in Workers, worker[w].at \in Running, RetryOrFail(w),
         UNCHANGED <<table, links, schema>>
  PROVE  AInv'
<1>1. CASE /\ IsActive /\ Owns(w) /\ record.retryCount < MaxRetries
           /\ record' = [Released(record) EXCEPT !.retryCount = @ + 1]
           /\ Stop(w)
  <2>1. record \in MigrationRecord
    BY <1>1, Typed DEF IsActive
  <2>2. /\ record' \in MigrationRecord /\ record'.lockedBy = None
        /\ record'.status = record.status /\ record'.view = record.view
    BY <1>1, <2>1, RetriedRecord
  <2>3. QED
    BY <1>1, <2>2, ReleaseKeeps
<1>2. CASE FailLater(w) /\ UNCHANGED record
  BY <1>2, StopsOrFails
<1>3. CASE Stop(w) /\ UNCHANGED record
  BY <1>3, StopsOrFails
<1>4. QED
  BY <1>1, <1>2, <1>3 DEF RetryOrFail

\* A failure that cannot be recorded.
LEMMA FailureThrowsKeeps ==
  ASSUME AInv, NEW w \in Workers, FailureThrows(w)
  PROVE  AInv'
<1>1. /\ worker[w].at = "fail" /\ Owns(w) /\ record' = Released(record) /\ Stop(w)
      /\ UNCHANGED <<table, links, schema>>
  BY DEF FailureThrows
<1>2. record \in MigrationRecord /\ record.lockedBy # None
  <2>1. worker[w].token # None
    BY <1>1 DEF AInv, DriverState, DriversFit, Fits, Running
  <2>2. QED
    BY <1>1, <2>1, Typed DEF Owns
<1>3. IsActive
  BY <1>1, <1>2, RecordFields DEF AInv, StoreState, RecordState, IsActive
<1>4. /\ record' \in MigrationRecord /\ record'.lockedBy = None
      /\ record'.status = record.status /\ record'.view = record.view
  BY <1>1, <1>2, ReleasedRecord
<1>5. QED
  BY <1>1, <1>3, <1>4, ReleaseKeeps

-----------------------------------------------------------------------------
(* The owner's steps. *)

\* What an owner knows.
LEMMA OwnerKnows ==
  ASSUME AInv, NEW w \in Workers, worker[w].at \in Running, Owns(w)
  PROVE  /\ record \in MigrationRecord /\ record # None /\ IsActive
         /\ worker[w] \in Driver /\ worker[w].token # None
         /\ worker[w].at \in Viewing =>
              worker[w].view = record.view /\ record.status = StatusAt(worker[w].at)
<1>1. worker[w] \in Driver /\ Fits(worker[w], record)
  BY Typed DEF AInv, DriverState, DriversFit
<1>2. record # None /\ record \in MigrationRecord
  BY Typed DEF Owns
<1>3. worker[w].token # None
  BY <1>1 DEF Fits
<1>4. IsActive
  BY <1>2, <1>3, RecordFields DEF AInv, StoreState, RecordState, IsActive, Owns
<1>5. QED
  BY <1>1, <1>2, <1>3, <1>4 DEF Fits, Owns

\* Reading the record.
LEMMA ReadOwnedKeeps ==
  ASSUME AInv, NEW w \in Workers, ReadOwned(w)
  PROVE  AInv'
<1>1. worker[w].at = "step" /\ UNCHANGED <<table, links, schema, record>>
  BY DEF ReadOwned
<1>2. CASE Owns(w)
  <2>1. PICK at \in {"init", "copy", "beginSwap", "swap"} :
          /\ worker' = [worker EXCEPT ![w].at = at, ![w].view = record.view]
          /\ record.status = "PENDING" => at = "init"
          /\ record.status = "COPYING" => at \in {"copy", "beginSwap"}
          /\ record.status \notin {"PENDING", "COPYING"} => at = "swap"
    BY <1>2 DEF ReadOwned
  <2>2. /\ record \in MigrationRecord /\ record # None /\ IsActive
        /\ worker[w] \in Driver /\ worker[w].token # None
    BY <1>1, <1>2, OwnerKnows DEF Running
  <2> DEFINE d == [worker[w] EXCEPT !.at = at, !.view = record.view]
  <2>3. /\ d \in Driver /\ d.at = at /\ d.view = record.view /\ d.token = worker[w].token
        /\ d.view # None
    <3>1. record.view \in View /\ record.view # None
      BY <2>2, RecordFields, ViewFields
    <3>2. at \in Running
      BY DEF Running, Viewing
    <3>3. QED
      BY <2>2, <3>1, <3>2 DEF Driver
  <2>4. worker' = [worker EXCEPT ![w] = d]
    BY <2>1, Typed
  <2> HIDE DEF d
  <2>5. Fits(d, record)
    <3>1. record.status = StatusAt(at)
      BY <2>1, <2>2 DEF StatusAt, IsActive, Active
    <3>2. QED
      BY <2>2, <2>3, <3>1 DEF Fits
  <2>6. d.at # "write" /\ worker[w].at \in Running
    BY <1>1, <2>3 DEF Running
  <2>7. QED
    BY <1>1, <2>3, <2>4, <2>5, <2>6, DriverAlone
<1>3. CASE ~Owns(w)
  BY <1>1, <1>3, StopsOrFails DEF ReadOwned
<1>4. QED
  BY <1>2, <1>3

\* Reading a batch.
LEMMA LoadBatchKeeps ==
  ASSUME AInv, NEW w \in Workers, LoadBatch(w)
  PROVE  AInv'
<1> DEFINE v == worker[w].view
           batch == Batch(v.source, v.last)
<1>1. worker[w].at = "copy" /\ worker[w].at \in Running /\ worker[w].at \in Viewing
      /\ UNCHANGED <<table, links, schema>>
  BY DEF LoadBatch, Running, Viewing
<1>2. CASE batch = {}
  BY <1>1, <1>2, RetryKeeps DEF LoadBatch
<1>3. CASE batch # {}
  <2>1. worker' = [worker EXCEPT ![w].at = "write", ![w].batch = batch] /\ UNCHANGED record
    BY <1>3 DEF LoadBatch
  <2>2. batch = BatchOf(table[v.source], v.last) /\ batch \in SUBSET Rows
    BY DEF Batch, BatchOf, BatchIn, RowsOf, RowsIn
  <2>3. worker[w] \in Driver /\ Fits(worker[w], record)
    BY Typed DEF AInv, DriverState, DriversFit
  <2> HIDE DEF batch
  <2> DEFINE d == [worker[w] EXCEPT !.at = "write", !.batch = batch]
  <2>4. /\ d \in Driver /\ d.at = "write" /\ d.batch = batch /\ d.view = worker[w].view
        /\ d.token = worker[w].token
    BY <2>2, <2>3 DEF Driver, Running, Viewing
  <2>5. worker' = [worker EXCEPT ![w] = d]
    BY <2>1, Typed
  <2> HIDE DEF d
  <2>6. Fits(d, record)
    <3>1. StatusAt("copy") = StatusAt("write")
      BY DEF StatusAt
    <3>2. QED
      BY <1>1, <1>3, <2>3, <2>4, <3>1 DEF Fits, Running, Viewing
  <2>7. record # None /\ record.lockedBy = d.token => d.view = record.view
    BY <2>4, <2>6 DEF Fits, Viewing
  <2>8. record # None /\ record.lockedBy = d.token =>
          d.batch = BatchOf(table[record.view.source], record.view.last)
    BY <2>2, <2>4, <2>7
  <2>9. QED
    BY <1>1, <2>1, <2>4, <2>5, <2>6, <2>8, DriverAlone
<1>4. QED
  BY <1>2, <1>3

\* The beginning of the copy.
LEMMA BeginCopyKeeps ==
  ASSUME AInv, NEW w \in Workers, BeginCopy(w)
  PROVE  AInv'
<1> DEFINE v == worker[w].view
<1>1. worker[w].at = "init" /\ worker[w].at \in Running /\ UNCHANGED <<links, schema>>
  BY DEF BeginCopy, Running, Viewing
<1>2. CASE Stop(w) /\ UNCHANGED <<table, record>>
  BY <1>1, <1>2, StopsOrFails
<1>3. CASE RetryOrFail(w) /\ UNCHANGED table
  BY <1>1, <1>3, RetryKeeps
<1>4. ASSUME Owns(w), HasStatus("PENDING"), Continue(w), NEW shadow \in First(FreshVersions),
             record' = [record EXCEPT !.status = "COPYING", !.late = FALSE, !.view.shadow = shadow],
             table' = [table EXCEPT ![shadow] = [rows |-> Once({}), schema |-> v.to]]
      PROVE  AInv'
  <2>1. /\ record \in MigrationRecord /\ record # None /\ record.status = "PENDING"
        /\ v = record.view /\ record.view \in View
    BY <1>1, <1>4, OwnerKnows, RecordFields DEF HasStatus, Viewing
  <2>2. shadow \in Versions \ Linked /\ shadow # record.view.source
    BY <1>4, <2>1 DEF First, FreshVersions
  <2> DEFINE t == [rows |-> Once({}), schema |-> v.to]
  <2>3. t \in TableRecord /\ t # None /\ t.rows = Once({}) /\ t.schema = record.view.to
    BY <2>1, OnceIsContents, ViewFields, NoneAssumption DEF TableRecord
  <2>4. CountOf(t) = 0
    BY <2>3, NoRows DEF CountOf
  <2> HIDE DEF t
  <2>5. /\ table' \in [Versions -> TableRecord \cup {None}] /\ table'[shadow] = t
        /\ \A u \in Versions \ {shadow} : table'[u] = table[u]
    BY <1>4, <2>2, <2>3, Typed DEF t
  <2> DEFINE q == [record.view EXCEPT !.shadow = shadow]
  <2>6. /\ record' \in MigrationRecord /\ record'.lockedBy = record.lockedBy
        /\ record'.status = "COPYING" /\ record'.view = q /\ record' # None
    <3>1. record' = Begun(record, shadow) /\ shadow \in Versions
      BY <1>4, <2>1, <2>2 DEF Begun
    <3> HIDE DEF v
    <3>2. QED
      BY <2>1, <3>1, BegunRecord, RecordFields
  <2>7. /\ q.shadow = shadow /\ q.source = record.view.source /\ q.from = record.view.from
        /\ q.to = record.view.to /\ q.total = record.view.total
        /\ q.copied = record.view.copied /\ q.last = record.view.last
    BY <2>1 DEF View
  <2> HIDE DEF q
  <2>8. Linked' = Linked /\ DraftExists' = DraftExists
    BY <1>1 DEF Linked, DraftExists
  <2>9. DraftExists => \A u \in Linked : table'[u] = table[u]
    BY <2>2, <2>5, LinkedIs
  <2>10. IsActive /\ DraftExists =>
           /\ links.draft = record.view.source /\ table'[record.view.source] = table[record.view.source]
    BY <2>9 DEF AInv, StoreState, SourceState, Linked
  <2>11. worker' \in [Workers -> Driver] /\ DriverState'
    <3>1. SourceStays
      BY <2>8, <2>10 DEF SourceStays
    <3>2. \A u \in Workers \ {w} : Leaves(worker[u])
      BY <1>1, <1>4, <2>6, OwnerDisturbsNobody DEF AInv
    <3>3. QED
      BY <1>1, <1>4, <3>1, <3>2, ContinueMoves DEF AInv
  <2>12. record.view.copied = 0 /\ record.view.last = 0 /\ record.view.from # record.view.to /\ IsActive
    BY <2>1 DEF AInv, StoreState, RecordState, IsActive, Active
  <2>13. RecordState'
    BY <2>6, <2>7, <2>12 DEF RecordState, Active
  <2>14. ShadowState'
    BY <2>2, <2>3, <2>4, <2>5, <2>6, <2>7, <2>8, <2>12 DEF ShadowState
  <2>15. DraftState'
    BY <1>1, <2>8, <2>9 DEF AInv, StoreState, DraftState, Linked, DraftExists
  <2>16. SourceState'
    <3>1. \A R : Once({r \in RowsIn(R) : r <= 0}) = Once({})
      <4>1. \A r \in Rows : ~(r <= 0)
        BY NumbersAssumption
      <4>2. ASSUME NEW R
            PROVE  {r \in RowsIn(R) : r <= 0} = {}
        BY <4>1 DEF RowsIn
      <4>3. QED
        BY <4>2
    <3>2. CASE DraftExists
      <4>1. /\ links.draft = record.view.source /\ schema = record.view.from
            /\ CountOf(table[record.view.source]) = record.view.total
        BY <2>12, <3>2 DEF AInv, StoreState, SourceState
      <4>2. table'[record'.view.source] = table[record.view.source]
        BY <2>6, <2>7, <2>10, <2>12, <3>2
      <4>3. table'[record'.view.shadow].rows = Once({}) /\ record'.view.last = 0
        BY <2>3, <2>5, <2>6, <2>7, <2>12
      <4>4. table'[record'.view.shadow].rows =
              Once({r \in RowsIn(table'[record'.view.source]) : r <= record'.view.last})
        BY <3>1, <4>3
      <4>5. QED
        BY <1>1, <2>6, <2>7, <4>1, <4>2, <4>4 DEF SourceState
    <3>3. CASE ~DraftExists
      BY <2>8, <3>3 DEF SourceState
    <3>4. QED
      BY <3>2, <3>3
  <2>17. QED
    BY <1>1, <2>5, <2>6, <2>11, <2>13, <2>14, <2>15, <2>16, Typed, Assembled DEF StoreState
<1>5. QED
  BY <1>2, <1>3, <1>4 DEF BeginCopy

\* A batch that follows what was copied makes it what is copied.
LEMMA NextRows ==
  ASSUME NEW R \in SUBSET Rows, NEW last \in Nat, NEW batch, batch # {},
         batch = BatchIn(R, last)
  PROVE  [r \in Rows |-> Once({x \in R : x <= last})[r] + Once(batch)[r]] =
           Once({x \in R : x <= Max(batch)})
<1>1. /\ batch \in SUBSET R
      /\ \A r \in R : r <= Max(batch) <=> r <= last \/ r \in batch
      /\ \A r \in batch : r > last
  BY BatchIsNext
<1> DEFINE A == {x \in R : x <= last}
           B == {x \in R : x <= Max(batch)}
<1>2. \A r \in Rows : r \in B <=> r \in A \/ r \in batch
  BY <1>1
<1>3. \A r \in Rows : ~(r \in A /\ r \in batch)
  <2>1. \A r \in Rows : r \in Nat
    BY NumbersAssumption
  <2>2. ASSUME NEW r \in Rows, r <= last, r > last
        PROVE  FALSE
    BY <2>1, <2>2
  <2>3. QED
    BY <1>1, <2>2
<1> HIDE DEF A, B
<1>4. \A r \in Rows : Once(A)[r] + Once(batch)[r] = Once(B)[r]
  <2>1. ASSUME NEW r \in Rows
        PROVE  Once(A)[r] + Once(batch)[r] = Once(B)[r]
    <3>1. /\ Once(A)[r] = IF r \in A THEN 1 ELSE 0
          /\ Once(B)[r] = IF r \in B THEN 1 ELSE 0
          /\ Once(batch)[r] = IF r \in batch THEN 1 ELSE 0
      BY DEF Once
    <3>2. QED
      BY <1>2, <1>3, <3>1
  <2>2. QED
    BY <2>1
<1>5. Once(B) = [r \in Rows |-> Once(B)[r]]
  BY DEF Once
<1>6. [r \in Rows |-> Once(A)[r] + Once(batch)[r]] = Once(B)
  BY <1>4, <1>5
<1>7. QED
  BY <1>6 DEF A, B

\* The writing of a batch.
LEMMA WriteBatchKeeps ==
  ASSUME AInv, NEW w \in Workers, WriteBatch(w)
  PROVE  AInv' /\ (UNCHANGED record \/ record' # None)
<1> DEFINE v == worker[w].view
           batch == worker[w].batch
           n == v.copied + Cardinality(batch)
           m == Max(batch)
           more == [r \in Rows |-> table[v.shadow].rows[r] + Once(batch)[r]]
<1>1. worker[w].at = "write" /\ worker[w].at \in Running /\ worker[w].at \in Viewing
      /\ UNCHANGED <<links, schema>>
  BY DEF WriteBatch, Running, Viewing
<1>2. CASE Stop(w) /\ UNCHANGED <<table, record>>
  BY <1>1, <1>2, StopsOrFails
<1>3. ASSUME CheckpointAt(w), Continue(w), table[v.shadow] # None,
             record' = [record EXCEPT !.view.copied = n, !.view.last = m, !.late = FALSE],
             table' = [table EXCEPT ![v.shadow].rows = more]
      PROVE  AInv' /\ record' # None
  <2>0. Owns(w) /\ HasStatus("COPYING")
    BY <1>3 DEF CheckpointAt
  <2>1. /\ record \in MigrationRecord /\ record # None /\ record.status = "COPYING"
        /\ v = record.view /\ record.view \in View /\ HasShadow /\ IsActive
    BY <1>1, <2>0, OwnerKnows, RecordFields DEF HasStatus, HasShadow
  <2>2. batch \in SUBSET Rows /\ batch # {}
    <3>1. worker[w] \in Driver /\ Fits(worker[w], record)
      BY Typed DEF AInv, DriverState, DriversFit
    <3>2. QED
      BY <1>1, <3>1, DriverFields DEF Fits
  <2>3. m \in batch /\ m \in Rows
    <3>1. batch \in SUBSET Nat /\ IsFiniteSet(batch)
      BY <2>2, NumbersAssumption, FS_Subset
    <3>2. QED
      BY <2>2, <3>1, LastRow
  <2>4. /\ v.shadow \in Versions \ Linked /\ table[v.shadow] \in TableRecord
        /\ table[v.shadow].schema = v.to /\ table[v.shadow].rows \in Contents
        /\ Cardinality(CopiesOf(table[v.shadow].rows)) = v.copied
    <3>1. /\ v.shadow \in Versions \ Linked /\ table[v.shadow] # None
          /\ table[v.shadow].schema = v.to /\ CountOf(table[v.shadow]) = v.copied
      BY <2>1 DEF AInv, StoreState, ShadowState
    <3>2. table[v.shadow] \in TableRecord
      BY <3>1, Typed
    <3>3. QED
      BY <3>1, <3>2 DEF TableRecord, CountOf
  <2>5. more \in Contents /\ Cardinality(batch) \in Nat
        /\ Cardinality(CopiesOf(more)) = n
    BY <2>2, <2>4, RowsAdded
  <2>6. n \in Nat
    BY <2>1, <2>5, ViewFields
  <2> HIDE DEF n, m, more, batch
  <2> DEFINE t == [table[v.shadow] EXCEPT !.rows = more]
  <2>7. t \in TableRecord /\ t.rows = more /\ t.schema = v.to
    BY <2>4, <2>5 DEF TableRecord
  <2>8. t # None /\ CountOf(t) = n
    BY <2>5, <2>7, NoneAssumption DEF CountOf
  <2>9. table' = [table EXCEPT ![v.shadow] = t]
    BY <1>3, <2>4, Typed
  <2> HIDE DEF t
  <2>10. /\ table' \in [Versions -> TableRecord \cup {None}] /\ table'[v.shadow] = t
         /\ \A u \in Versions \ {v.shadow} : table'[u] = table[u]
    BY <2>4, <2>7, <2>9, Typed
  <2> DEFINE q == [record.view EXCEPT !.copied = n, !.last = m]
  <2>11. /\ record' \in MigrationRecord /\ record'.lockedBy = record.lockedBy
         /\ record'.status = record.status /\ record'.view = q /\ record' # None
    <3>1. record' = Continued(record, n, m)
      BY <1>3 DEF n, m, Continued
    <3>2. /\ record' \in MigrationRecord /\ record'.lockedBy = record.lockedBy
          /\ record'.status = record.status /\ record'.view = q
      BY <2>1, <2>3, <2>6, <3>1, CheckpointRecord
    <3>3. QED
      BY <3>2, RecordFields
  <2>12. /\ q.shadow = v.shadow /\ q.source = v.source /\ q.from = v.from /\ q.to = v.to
         /\ q.total = v.total /\ q.copied = n /\ q.last = m
    BY <2>1 DEF View
  <2> HIDE DEF q
  <2>13. Linked' = Linked /\ DraftExists' = DraftExists
    BY <1>1 DEF Linked, DraftExists
  <2>14. DraftExists => \A u \in Linked : table'[u] = table[u]
    BY <2>4, <2>10, LinkedIs
  <2>15. DraftExists =>
           /\ links.draft = v.source /\ table'[v.source] = table[v.source]
    BY <2>1, <2>14 DEF AInv, StoreState, SourceState, Linked
  <2>16. worker' \in [Workers -> Driver] /\ DriverState'
    <3>1. SourceStays
      BY <2>1, <2>13, <2>15 DEF SourceStays
    <3>2. \A u \in Workers \ {w} : Leaves(worker[u])
      BY <1>1, <2>0, <2>11, OwnerDisturbsNobody DEF AInv
    <3>3. QED
      BY <1>1, <1>3, <3>1, <3>2, ContinueMoves DEF AInv
  <2>17. RecordState'
    BY <2>1, <2>11, <2>12 DEF RecordState, Active, AInv, StoreState
  <2>18. ShadowState'
    BY <2>4, <2>7, <2>8, <2>10, <2>11, <2>12, <2>13 DEF ShadowState
  <2>19. DraftState'
    BY <1>1, <2>13, <2>14 DEF AInv, StoreState, DraftState, Linked, DraftExists
  <2>20. SourceState'
    <3>1. CASE DraftExists
      <4> DEFINE R == RowsIn(table[v.source])
      <4>1. /\ links.draft = v.source /\ schema = v.from /\ CountOf(table[v.source]) = v.total
            /\ table[v.shadow].rows = Once({r \in R : r <= v.last})
        BY <2>1, <3>1 DEF AInv, StoreState, SourceState
      <4>2. batch = BatchOf(table[v.source], v.last)
        BY <1>1, <2>0, <2>1, <3>1 DEF AInv, DriverState, BatchState, batch
      <4>3. more = Once({r \in R : r <= m})
        <5>1. R \in SUBSET Rows /\ v.last \in Nat
          BY <2>1, ViewFields DEF RowsIn
        <5>2. batch = BatchIn(R, v.last)
          BY <4>2 DEF BatchOf
        <5> HIDE DEF R
        <5>3. [r \in Rows |-> Once({x \in R : x <= v.last})[r] + Once(batch)[r]] =
                Once({x \in R : x <= Max(batch)})
          BY <2>2, <5>1, <5>2, NextRows
        <5>4. QED
          BY <4>1, <5>3 DEF more, m
      <4>4. /\ table'[record'.view.source] = table[v.source]
            /\ table'[record'.view.shadow].rows = more /\ record'.view.last = m
        BY <2>7, <2>10, <2>11, <2>12, <2>15, <3>1
      <4>5. table'[record'.view.shadow].rows =
              Once({r \in RowsIn(table'[record'.view.source]) : r <= record'.view.last})
        BY <4>3, <4>4
      <4>6. QED
        BY <1>1, <2>11, <2>12, <4>1, <4>4, <4>5 DEF SourceState
    <3>2. CASE ~DraftExists
      BY <2>13, <3>2 DEF SourceState
    <3>3. QED
      BY <3>1, <3>2
  <2>21. QED
    BY <1>1, <2>10, <2>11, <2>16, <2>17, <2>18, <2>19, <2>20, Typed, Assembled DEF StoreState
<1>4. QED
  BY <1>2, <1>3 DEF WriteBatch

\* The beginning of the swap.
LEMMA BeginSwapKeeps ==
  ASSUME AInv, NEW w \in Workers, BeginSwap(w)
  PROVE  AInv'
<1>1. worker[w].at = "beginSwap" /\ worker[w].at \in Running /\ UNCHANGED <<table, links, schema>>
  BY DEF BeginSwap, Running, Viewing
<1>2. CASE Stop(w) /\ UNCHANGED record
  BY <1>1, <1>2, StopsOrFails
<1>3. ASSUME Owns(w), HasStatus("COPYING"), record.view.copied = record.view.total, Continue(w),
             record' = [record EXCEPT !.status = "SWAPPING", !.late = FALSE]
      PROVE  AInv'
  <2>1. record \in MigrationRecord /\ record # None /\ record.status = "COPYING"
        /\ HasShadow /\ IsActive
    BY <1>1, <1>3, OwnerKnows DEF HasStatus, HasShadow
  <2>2. /\ record' \in MigrationRecord /\ record'.lockedBy = record.lockedBy
        /\ record'.status = "SWAPPING" /\ record'.view = record.view /\ record' # None
    BY <1>3, <2>1, SwappingRecord, RecordFields
  <2>3. Linked' = Linked /\ DraftExists' = DraftExists /\ HasShadow'
    BY <1>1, <2>2 DEF Linked, DraftExists, HasShadow
  <2>4. worker' \in [Workers -> Driver] /\ DriverState'
    <3>1. SourceStays
      BY <1>1, <2>3 DEF SourceStays
    <3>2. \A u \in Workers \ {w} : Leaves(worker[u])
      BY <1>1, <1>3, <2>2, OwnerDisturbsNobody DEF AInv
    <3>3. QED
      BY <1>1, <1>3, <3>1, <3>2, ContinueMoves DEF AInv
  <2>5. RecordState' /\ ShadowState'
    BY <1>1, <1>3, <2>1, <2>2, <2>3 DEF AInv, StoreState, RecordState, ShadowState, Active
  <2>6. DraftState' /\ SourceState'
    BY <1>1, <2>1, <2>2, <2>3 DEF AInv, StoreState, DraftState, SourceState
  <2>7. QED
    BY <1>1, <2>2, <2>4, <2>5, <2>6, Typed, Assembled DEF StoreState
<1>4. QED
  BY <1>2, <1>3 DEF BeginSwap

\* What a swap that is made puts in the draft: the rows of before, all of
\* them, under the new schema.
LEMMA SwapLinksAll ==
  ASSUME AInv, IsActive, DraftExists, record.status = "SWAPPING"
  PROVE  /\ record.view.shadow \in Versions /\ table[record.view.shadow] # None
         /\ table[record.view.shadow].schema = record.view.to
         /\ table[record.view.shadow].rows = table[links.draft].rows
<1> DEFINE v == record.view
           R == RowsIn(table[v.source])
           C == {r \in R : r <= v.last}
<1>1. HasShadow /\ record \in MigrationRecord /\ v \in View
  BY Typed DEF IsActive, HasShadow
<1>2. /\ v.shadow \in Versions \ Linked /\ table[v.shadow] # None
      /\ table[v.shadow].schema = v.to /\ CountOf(table[v.shadow]) = v.copied
      /\ v.copied = v.total
  BY <1>1 DEF AInv, StoreState, ShadowState, RecordState, HasShadow
<1>3. /\ links.draft = v.source /\ CountOf(table[v.source]) = v.total
      /\ table[v.shadow].rows = Once(C)
  BY <1>1 DEF AInv, StoreState, SourceState
<1>4. PICK S \in Written : table[v.source].rows = Once(S)
  BY <1>3, LinkedIs DEF Linked
<1>5. S \in SUBSET Rows /\ table[v.source] # None
  BY <1>3, LinkedIs, NumbersAssumption DEF Linked
<1>6. R = S
  BY <1>4, <1>5 DEF RowsIn, Once
<1>7. C \in SUBSET S /\ C \in SUBSET Rows /\ IsFiniteSet(S)
  BY <1>5, <1>6, NumbersAssumption, FS_Subset
<1> HIDE DEF R, C
<1>8. Cardinality(S) = v.total /\ Cardinality(C) = v.total
  BY <1>2, <1>3, <1>4, <1>5, <1>7, OnceIsCounted DEF CountOf
<1>9. S = C
  BY <1>7, <1>8, FS_Subset
<1>10. QED
  BY <1>2, <1>3, <1>4, <1>9

\* The swap.
LEMMA SwapKeeps ==
  ASSUME AInv, NEW w \in Workers, Swap(w)
  PROVE  AInv'
<1> DEFINE v == worker[w].view
<1>1. worker[w].at = "swap" /\ worker[w].at \in Running /\ worker[w].at \in Viewing /\ UNCHANGED table
  BY DEF Swap, Running, Viewing
<1>2. CASE (FailLater(w) \/ Stop(w)) /\ UNCHANGED <<links, schema, record>>
  BY <1>1, <1>2, StopsOrFails
<1>3. ASSUME Owns(w), HasStatus("SWAPPING"), Rechecked(v), links' = [links EXCEPT !.draft = v.shadow],
             schema' = v.to, record' = None, Stop(w)
      PROVE  AInv'
  <2>1. record \in MigrationRecord /\ record # None /\ IsActive /\ v = record.view /\ v \in View
        /\ record.status = "SWAPPING" /\ DraftExists
    BY <1>1, <1>3, OwnerKnows, RecordFields DEF HasStatus, Rechecked
  <2>2. /\ v.shadow \in Versions /\ table[v.shadow] # None /\ table[v.shadow].schema = v.to
        /\ table[v.shadow].rows = table[links.draft].rows
    BY <2>1, SwapLinksAll
  <2>3. /\ links' \in [head : Versions \cup {None}, draft : Versions \cup {None}]
        /\ links'.draft = v.shadow /\ links'.head = links.head
    BY <1>3, <2>2, Typed
  <2>4. worker' \in [Workers -> Driver] /\ DriverState'
    <3>1. SourceStays
      BY <1>1, <2>1 DEF SourceStays
    <3>2. \A u \in Workers : Leaves(worker[u])
      BY <1>3, NobodysRecord DEF AInv, DriverState
    <3>3. QED
      BY <1>3, <3>1, <3>2, StopMoves DEF AInv
  <2>5. DraftState'
    <3>1. links.draft \in Linked /\ links.head \in Linked /\ Linked' = {links.head, v.shadow}
      BY <2>3 DEF Linked
    <3>2. links.head # None /\ v.shadow # None
      BY <2>1, <2>2, <3>1, LinkedIs, Typed
    <3>3. \A u \in Linked : table[u] # None /\ table[u].rows \in {Once(S) : S \in Written}
      BY <2>1, LinkedIs
    <3>4. QED
      BY <1>1, <1>3, <2>2, <2>3, <3>1, <3>2, <3>3 DEF DraftState
  <2>6. StoreState'
    BY <1>3, <2>5 DEF StoreState, RecordState, ShadowState, SourceState, HasShadow, IsActive
  <2>7. schema' \in Schemas
    BY <1>3, <2>1, ViewFields
  <2>8. QED
    BY <1>1, <1>3, <2>3, <2>4, <2>6, <2>7, Typed, Assembled
<1>4. QED
  BY <1>2, <1>3 DEF Swap

-----------------------------------------------------------------------------
(* The invariant. *)

\* A draft with one table satisfies it.
LEMMA InitHolds ==
  ASSUME Init
  PROVE  AInv
<1>1. PICK v \in First(Versions), S \in Written, s \in Schemas :
        /\ table = [u \in Versions |-> IF u = v THEN [rows |-> Once(S), schema |-> s] ELSE None]
        /\ links = [head |-> v, draft |-> v]
        /\ schema = s /\ record = None
        /\ worker = [w \in Workers |-> Idle]
  BY DEF Init
<1>2. v \in Versions /\ v # None
  <2>1. v \in Versions
    BY DEF First
  <2>2. QED
    BY <2>1, NumbersAssumption, NoneAssumption
<1> DEFINE t == [rows |-> Once(S), schema |-> s]
<1>3. t \in TableRecord /\ t # None /\ t.rows = Once(S) /\ t.schema = s
  BY OnceIsContents, NoneAssumption DEF TableRecord
<1> HIDE DEF t
<1>4. /\ table \in [Versions -> TableRecord \cup {None}] /\ table[v] = t
      /\ links \in [head : Versions \cup {None}, draft : Versions \cup {None}]
      /\ schema \in Schemas /\ record \in MigrationRecord \cup {None}
  BY <1>1, <1>2, <1>3 DEF t
<1>5. /\ Idle \in Driver /\ Idle.at = "idle" /\ "idle" \notin Running
  BY DEF Idle, Driver, Running, Viewing
<1>6. worker \in [Workers -> Driver] /\ \A w \in Workers : worker[w].at = "idle"
  BY <1>1, <1>5
<1>7. DriverState
  BY <1>5, <1>6 DEF DriverState, DriversFit, Fits, TokensDiffer, BatchState, Running
<1>8. DraftState
  BY <1>1, <1>2, <1>3, <1>4 DEF DraftState, DraftExists, Linked
<1>9. StoreState
  BY <1>1, <1>8 DEF StoreState, RecordState, ShadowState, SourceState, HasShadow, IsActive
<1>10. TypeOK
  BY <1>4, <1>6, TypesAre
<1>11. QED
  BY <1>7, <1>9, <1>10 DEF AInv

\* What a driver does, kind by kind.
WorkerStep(w) ==
  \/ Claim(w) \/ ClaimSwap(w) \/ TakeOver(w) \/ FindStalledSwap(w) \/ Crash(w) \/ Restart(w)
  \/ FailStalledSwap(w) \/ ReadOwned(w) \/ BeginCopy(w) \/ LoadBatch(w) \/ RefuseBatch(w)
  \/ WriteBatch(w) \/ BeginSwap(w) \/ Swap(w) \/ StepThrows(w) \/ Fail(w) \/ FailureThrows(w)
TimeStep ==
  LeaseExpires \/ Stall \/ \E w \in Workers : Suspend(w) \/ Renew(w)

\* These are all the steps there are.
LEMMA StepsAre ==
  ASSUME Next
  PROVE  Draft \/ TimeStep \/ CancelStalled \/ \E w \in Workers : WorkerStep(w)
BY DEF Next, Time, Run, Disturb, WorkerStep, TimeStep

\* The passing of time keeps it.
LEMMA TimeKeeps ==
  ASSUME AInv, TimeStep
  PROVE  AInv'
<1>1. /\ record # None /\ UNCHANGED <<table, links, schema, worker>>
      /\ \E b \in BOOLEAN :
           record' = [record EXCEPT !.expired = b] \/ record' = [record EXCEPT !.late = b]
  BY DEF TimeStep, LeaseExpires, Stall, Suspend, Renew, IsActive, RunsAs, Owns
<1>2. QED
  BY <1>1, TimedKeeps

\* A driver's step keeps it.
LEMMA WorkerKeeps ==
  ASSUME AInv, NEW w \in Workers, WorkerStep(w)
  PROVE  AInv'
<1>1. CASE RefuseBatch(w)
  BY <1>1, StopsOrFails DEF RefuseBatch, Running, Viewing
<1>2. CASE StepThrows(w)
  BY <1>2, RetryKeeps DEF StepThrows, Running, Viewing
<1>3. QED
  BY <1>1, <1>2, ClaimKeeps, OutsideKeeps, FailStalledSwapKeeps, ReadOwnedKeeps, BeginCopyKeeps,
     LoadBatchKeeps, WriteBatchKeeps, BeginSwapKeeps, SwapKeeps, FailKeeps, FailureThrowsKeeps
     DEF WorkerStep

\* Every step keeps it.
LEMMA NextKeeps ==
  ASSUME AInv, [Next]_vars
  PROVE  AInv'
<1>1. CASE UNCHANGED vars
  <2>1. StoreState'
    BY <1>1, StoreUnchanged DEF vars, AInv
  <2>2. SourceStays /\ \A u \in Workers : Leaves(worker[u])
    BY <1>1, SameRecord DEF vars, SourceStays, DraftExists
  <2>3. worker' \in [Workers -> Driver] /\ DriverState'
    BY <1>1, <2>2, DriversStay DEF vars, AInv
  <2>4. QED
    BY <1>1, <2>1, <2>3, Typed, Assembled DEF vars
<1>2. CASE Draft
  BY <1>2, DraftWriteKeeps, StartKeeps, CommitKeeps, RevertKeeps, AbortKeeps, DeleteBranchKeeps,
     DeleteOrphanTablesKeeps DEF Draft
<1>3. QED
  BY <1>1, <1>2, StepsAre, TimeKeeps, CancelKeeps, WorkerKeeps

\* So it always holds.
LEMMA MigrationInvariant == Spec => []AInv
BY InitHolds, NextKeeps, PTL DEF Spec

-----------------------------------------------------------------------------
(* What a migration is for. *)

\* Columns have their types, and no failure, crash or takeover makes a
\* migration try more often than its retries allow.
THEOREM MigrationTypeCorrect == Spec => []TypeOK
BY MigrationInvariant, PTL DEF AInv

\* However many drivers write to a shadow, and however often each of them
\* tries, dies and comes back late, the rows in it are those up to the
\* checkpoint of TableMigration, each once.
THEOREM ShadowsHoldCheckpoints == Spec => []ShadowHoldsCheckpoint
<1>1. AInv => ShadowHoldsCheckpoint
  <2>1. SUFFICES ASSUME AInv, HasShadow
                 PROVE  /\ table[record.view.shadow] # None
                        /\ CountRows(record.view.shadow) = record.view.copied
                        /\ record.view.source \in Linked =>
                             table[record.view.shadow].rows =
                               Once({r \in RowsOf(record.view.source) : r <= record.view.last})
    BY DEF ShadowHoldsCheckpoint, HasStatus, HasShadow
  <2>2. /\ record.view.shadow \in Versions /\ table[record.view.shadow] # None
        /\ CountOf(table[record.view.shadow]) = record.view.copied
    BY <2>1 DEF AInv, StoreState, ShadowState
  <2>3. CountRows(record.view.shadow) = record.view.copied
    BY <2>1, <2>2, CountIs DEF AInv
  <2>4. ASSUME record.view.source \in Linked
        PROVE  table[record.view.shadow].rows =
                 Once({r \in RowsOf(record.view.source) : r <= record.view.last})
    <3>1. record.view.source \in Versions /\ record.view.source # None
      BY <2>1, Typed, ViewFields DEF HasShadow
    <3>2. DraftExists
      BY <2>1, <2>4, <3>1 DEF AInv, StoreState, DraftState, DraftExists, Linked
    <3>3. IsActive
      BY <2>1 DEF HasShadow, IsActive, Active
    <3>4. table[record.view.shadow].rows =
            Once({r \in RowsIn(table[record.view.source]) : r <= record.view.last})
      BY <2>1, <3>2, <3>3 DEF AInv, StoreState, SourceState
    <3>5. RowsIn(table[record.view.source]) = RowsOf(record.view.source)
      BY DEF RowsIn, RowsOf
    <3>6. QED
      BY <3>4, <3>5
  <2>5. QED
    BY <2>2, <2>3, <2>4
<1>2. QED
  BY <1>1, MigrationInvariant, PTL

\* SwapRecheckService finds nothing to object to in a draft that exists: from
\* the start of a migration to its swap nobody was admitted that could have
\* changed the table, its schema or its rows.
THEOREM SwapsFindTheirSource == Spec => []SwapFindsItsSource
<1>1. AInv => SwapFindsItsSource
  <2>1. SUFFICES ASSUME AInv, HasStatus("SWAPPING"), DraftExists
                 PROVE  Rechecked(record.view)
    BY DEF SwapFindsItsSource
  <2>2. HasShadow /\ IsActive /\ record # None /\ record.status = "SWAPPING"
    BY <2>1 DEF HasStatus, HasShadow, IsActive, Active
  <2>3. links.draft = record.view.source /\ schema = record.view.from
    BY <2>1, <2>2 DEF AInv, StoreState, SourceState
  <2>4. /\ record.view.shadow \in Versions
        /\ CountOf(table[record.view.shadow]) = record.view.total
    BY <2>1, <2>2 DEF AInv, StoreState, ShadowState, RecordState
  <2>5. CountRows(record.view.shadow) = record.view.total
    BY <2>1, <2>4, CountIs DEF AInv
  <2>6. QED
    BY <2>1, <2>3, <2>5 DEF Rechecked
<1>2. QED
  BY <1>1, MigrationInvariant, PTL

-----------------------------------------------------------------------------
(* What nobody but a draft operation writes. *)

\* Whatever else is written, no linked version is.
LEMMA LinkedUntouched ==
  ASSUME AInv,
         \/ UNCHANGED table \/ Revert \/ Abort \/ DeleteOrphanTables
         \/ \E w \in Workers : BeginCopy(w) \/ WriteBatch(w)
  PROVE  \A v \in Linked : v # None => table'[v] = table[v]
<1>0. \A v \in Linked : v # None => v \in Versions
  BY Typed DEF Linked
<1>1. CASE Revert \/ Abort
  <2>1. UNCHANGED table \/ \E u : table' = WithoutUnlinked(u)
    BY <1>1 DEF Revert, Abort
  <2>2. QED
    BY <1>0, <2>1, LinkedKept DEF AInv
<1>2. CASE DeleteOrphanTables
  BY <1>0, <1>2 DEF DeleteOrphanTables
<1>3. ASSUME NEW w \in Workers, BeginCopy(w)
      PROVE  \A v \in Linked : v # None => table'[v] = table[v]
  <2>1. \/ UNCHANGED table
        \/ \E s \in First(FreshVersions) : \E t : table' = [table EXCEPT ![s] = t]
    BY <1>3 DEF BeginCopy
  <2>2. \A s \in First(FreshVersions) : s \notin Linked
    BY DEF First, FreshVersions
  <2>3. QED
    BY <1>0, <2>1, <2>2, Typed
<1>4. ASSUME NEW w \in Workers, WriteBatch(w)
      PROVE  \A v \in Linked : v # None => table'[v] = table[v]
  <2>1. CASE UNCHANGED table
    BY <2>1
  <2>2. CASE CheckpointAt(w) /\ ~UNCHANGED table
    <3>1. /\ worker[w].at = "write" /\ Owns(w) /\ HasStatus("COPYING")
          /\ \E rows : table' = [table EXCEPT ![worker[w].view.shadow].rows = rows]
      BY <1>4, <2>2 DEF WriteBatch, CheckpointAt
    <3>2. worker[w].view = record.view /\ HasShadow
      BY <3>1, OwnerKnows DEF Running, Viewing, HasStatus, HasShadow
    <3>3. worker[w].view.shadow \notin Linked
      BY <3>2 DEF AInv, StoreState, ShadowState
    <3>4. QED
      BY <1>0, <3>1, <3>3, Typed
  <2>3. QED
    BY <1>4, <2>1, <2>2 DEF WriteBatch
<1>5. CASE UNCHANGED table
  BY <1>5
<1>6. QED
  BY <1>1, <1>2, <1>3, <1>4, <1>5

\* Which are all the steps that write, but for a draft operation.
LEMMA WritesAre ==
  ASSUME [Next]_vars
  PROVE  \/ \E S \in Written, s \in Schemas : DraftWrite(S, s)
         \/ UNCHANGED table \/ Revert \/ Abort \/ DeleteOrphanTables
         \/ \E w \in Workers : BeginCopy(w) \/ WriteBatch(w)
<1>1. CASE Draft
  BY <1>1 DEF Draft, Start, Commit, DeleteBranch
<1>2. CASE TimeStep \/ CancelStalled
  BY <1>2 DEF TimeStep, LeaseExpires, Stall, Suspend, Renew, CancelStalled
<1>3. ASSUME NEW w \in Workers, WorkerStep(w)
      PROVE  UNCHANGED table \/ BeginCopy(w) \/ WriteBatch(w)
  BY <1>3 DEF WorkerStep, Claim, ClaimSwap, TakeOver, ReplaceSwapOwner, TakeLease, FindStalledSwap,
     Crash, Restart, FailStalledSwap, ReadOwned, LoadBatch, RefuseBatch, BeginSwap, Swap,
     StepThrows, Fail, FailureThrows
<1>4. CASE UNCHANGED vars
  BY <1>4 DEF vars
<1>5. QED
  BY <1>1, <1>2, <1>3, <1>4, StepsAre

\* A draft operation does not write what the head links.
LEMMA HeadUntouched ==
  ASSUME AInv, [Next]_vars, links'.head # None
  PROVE  table'[links'.head] = table[links'.head]
<1>1. ASSUME NEW S \in Written, NEW s \in Schemas, DraftWrite(S, s)
      PROVE  table'[links'.head] = table[links'.head]
  <2>1. PICK v \in IF links.draft = links.head THEN First(FreshVersions) ELSE {links.draft} :
          /\ links' = [links EXCEPT !.draft = v]
          /\ \E t : table' = [table EXCEPT ![v] = t]
    BY <1>1 DEF DraftWrite
  <2>2. v # links.head
    BY <2>1 DEF First, FreshVersions, Linked
  <2>3. links'.head = links.head
    BY <2>1, Typed
  <2>4. QED
    BY <2>1, <2>2, <2>3, Typed
<1>2. links'.head \in Linked
  <2>1. CASE Commit
    BY <2>1, Typed DEF Commit, Linked
  <2>2. CASE DeleteBranch
    BY <2>2 DEF DeleteBranch
  <2>3. CASE Draft /\ ~Commit /\ ~DeleteBranch
    BY <2>3, Typed DEF Draft, DraftWrite, Start, Revert, Abort, DeleteOrphanTables, Linked
  <2>4. CASE TimeStep \/ CancelStalled
    BY <2>4 DEF TimeStep, LeaseExpires, Stall, Suspend, Renew, CancelStalled, Linked
  <2>5. ASSUME NEW w \in Workers, WorkerStep(w)
        PROVE  links'.head = links.head
    <3>1. UNCHANGED links \/ Swap(w)
      BY <2>5 DEF WorkerStep, Claim, ClaimSwap, TakeOver, ReplaceSwapOwner, TakeLease,
         FindStalledSwap, Crash, Restart, FailStalledSwap, ReadOwned, BeginCopy, LoadBatch,
         RefuseBatch, WriteBatch, BeginSwap, StepThrows, Fail, FailureThrows
    <3>2. QED
      BY <3>1, Typed DEF Swap
  <2>6. CASE UNCHANGED vars
    BY <2>6 DEF vars, Linked
  <2>7. QED
    BY <2>1, <2>2, <2>3, <2>4, <2>5, <2>6, StepsAre DEF Linked
<1>3. QED
  BY <1>1, <1>2, LinkedUntouched, WritesAre

\* No abort, revert, cleanup or late driver deletes or writes what the head
\* revision links.
THEOREM HeadsNeverChange == Spec => HeadNeverChanges
<1>1. AInv /\ [Next]_vars => (links'.head # None => table'[links'.head] = table[links'.head])
  BY HeadUntouched
<1>2. QED
  BY <1>1, MigrationInvariant, PTL DEF Spec, HeadNeverChanges

-----------------------------------------------------------------------------
(* What a reader of the draft sees. *)

\* The schema row is the schema that the linked rows have.
LEMMA SeenIs ==
  ASSUME AInv
  PROVE  /\ SeenRows = IF DraftExists THEN table[links.draft].rows ELSE None
         /\ SeenSchema = IF DraftExists THEN schema ELSE None
         /\ DraftExists =>
              /\ SeenRows \in {Once(S) : S \in Written} /\ SeenRows # None
              /\ SeenSchema \in Schemas
<1>1. CASE DraftExists
  <2>1. /\ table[links.draft].schema = schema
        /\ table[links.draft].rows \in {Once(S) : S \in Written}
    BY <1>1, LinkedIs DEF Linked
  <2>2. table[links.draft].rows # None
    BY <2>1, OnceIsContents, NoneAssumption
  <2>3. QED
    BY <1>1, <2>1, <2>2, Typed DEF SeenRows, SeenSchema
<1>2. CASE ~DraftExists
  BY <1>2 DEF SeenRows, SeenSchema
<1>3. QED
  BY <1>1, <1>2

SeenTyped == SeenRows \in {Once(S) : S \in Written} /\ SeenSchema \in Schemas

\* A draft that exists has rows and a schema.
LEMMA SeenIsTyped == AInv /\ DraftExists => SeenTyped
BY SeenIs DEF SeenTyped

\* What writes no linked version, and links none, is not seen.
LEMMA SeenStays ==
  ASSUME AInv, UNCHANGED <<links, schema>>,
         \A v \in Linked : v # None => table'[v] = table[v]
  PROVE  UNCHANGED <<SeenRows, SeenSchema>>
<1>1. CASE DraftExists
  <2>1. table'[links.draft] = table[links.draft]
    BY <1>1 DEF Linked, DraftExists
  <2>2. QED
    BY <1>1, <2>1 DEF SeenRows, SeenSchema, DraftExists
<1>2. CASE ~DraftExists
  BY <1>2 DEF SeenRows, SeenSchema, DraftExists
<1>3. QED
  BY <1>1, <1>2

\* The draft's operations are the promised ones.
LEMMA DraftImplements ==
  ASSUME AInv, AInv', Draft
  PROVE  [Seen!Next]_<<SeenRows, SeenSchema, SeenPhase>>
<1>1. ASSUME NEW S \in Written, NEW s \in Schemas, DraftWrite(S, s)
      PROVE  Seen!Write
  <2>1. DraftExists /\ ~IsActive /\ UNCHANGED record /\ DraftExists'
    <3>1. /\ DraftExists /\ ~IsActive /\ UNCHANGED record
          /\ \E v \in IF links.draft = links.head THEN First(FreshVersions) ELSE {links.draft} :
               links' = [links EXCEPT !.draft = v]
      BY <1>1 DEF DraftWrite
    <3>2. PICK v \in IF links.draft = links.head THEN First(FreshVersions) ELSE {links.draft} :
            links' = [links EXCEPT !.draft = v]
      BY <3>1
    <3>3. v # None
      BY <3>1, <3>2, Typed DEF First, FreshVersions, DraftExists
    <3>4. links'.draft = v
      BY <3>2, Typed
    <3>5. QED
      BY <3>1, <3>3, <3>4 DEF DraftExists
  <2>2. SeenRows' \in {Once(U) : U \in Written} /\ SeenSchema' \in Schemas
    <3>1. AInv' /\ DraftExists' => SeenTyped'
      BY SeenIsTyped, PTL
    <3>2. QED
      BY <2>1, <3>1 DEF SeenTyped
  <2>3. SeenRows # None
    BY <2>1, SeenIs
  <2>4. SeenPhase' = SeenPhase
    BY <2>1 DEF SeenPhase
  <2>5. SeenPhase \in {"NONE", "FAILED", "CANCELLED"}
    BY <2>1, Typed, RecordFields DEF SeenPhase, IsActive
  <2>6. QED
    BY <2>2, <2>3, <2>4, <2>5 DEF Seen!Write, Seen!Ended
<1>2. CASE Commit
  <2>1. /\ DraftExists /\ ~IsActive /\ links' = [links EXCEPT !.head = links.draft] /\ record' = None
        /\ UNCHANGED <<table, schema>>
    BY <1>2 DEF Commit
  <2>2. links'.draft = links.draft
    BY <2>1, Typed
  <2>3. UNCHANGED <<SeenRows, SeenSchema>>
    BY <2>1, <2>2 DEF SeenRows, SeenSchema, DraftExists
  <2>4. SeenPhase \in {"NONE", "FAILED", "CANCELLED"} /\ SeenPhase' = "NONE"
    BY <2>1, Typed, RecordFields DEF SeenPhase, IsActive
  <2>5. /\ SeenRows \in {Once(U) : U \in Written} /\ SeenSchema \in Schemas /\ SeenRows # None
    BY <2>1, SeenIs
  <2>6. Seen!Write
    BY <2>3, <2>4, <2>5 DEF Seen!Write, Seen!Ended
  <2>7. QED
    BY <2>6 DEF Seen!Next
<1>3. CASE Revert
  <2>1. /\ DraftExists /\ ~HasStatus("SWAPPING") /\ links' = [links EXCEPT !.draft = links.head]
        /\ record' = IF IsActive THEN None ELSE record
    BY <1>3 DEF Revert
  <2>2. DraftExists'
    BY <2>1, Typed, LinkedIs DEF DraftExists
  <2>3. SeenRows' \in {Once(U) : U \in Written} /\ SeenSchema' \in Schemas
    <3>1. AInv' /\ DraftExists' => SeenTyped'
      BY SeenIsTyped, PTL
    <3>2. QED
      BY <2>2, <3>1 DEF SeenTyped
  <2>4. SeenRows # None
    BY <2>1, SeenIs
  <2>5. SeenPhase # "SWAPPING"
    BY <2>1 DEF SeenPhase, HasStatus
  <2>6. SeenPhase' = IF SeenPhase \in {"NONE", "FAILED", "CANCELLED"} THEN SeenPhase ELSE "NONE"
    <3>1. CASE IsActive
      BY <2>1, <3>1 DEF SeenPhase, IsActive, Active
    <3>2. CASE ~IsActive
      BY <2>1, <3>2, Typed, RecordFields DEF SeenPhase, IsActive
    <3>3. QED
      BY <3>1, <3>2
  <2>7. Seen!Revert
    BY <2>3, <2>4, <2>5, <2>6 DEF Seen!Revert, Seen!Ended
  <2>8. QED
    BY <2>7 DEF Seen!Next
<1>4. CASE DeleteBranch
  <2>1. ~DraftExists' /\ UNCHANGED record
    BY <1>4 DEF DeleteBranch, DraftExists
  <2>2. SeenRows' = None /\ SeenSchema' = None /\ SeenPhase' = SeenPhase
    BY <2>1 DEF SeenRows, SeenSchema, SeenPhase
  <2>3. Seen!DeleteBranch
    BY <2>2 DEF Seen!DeleteBranch
  <2>4. QED
    BY <2>3 DEF Seen!Next
<1>5. CASE DeleteOrphanTables
  <2>1. UNCHANGED <<links, schema, record>>
    BY <1>5 DEF DeleteOrphanTables
  <2>2. UNCHANGED <<SeenRows, SeenSchema>>
    BY <1>5, <2>1, LinkedUntouched, SeenStays
  <2>3. QED
    BY <2>1, <2>2 DEF SeenPhase
<1>6. ASSUME NEW s \in Schemas, Start(s)
      PROVE  Seen!Start
  <2>1. /\ DraftExists /\ ~IsActive /\ UNCHANGED <<table, links, schema>>
        /\ record'.status = "PENDING"
    BY <1>6 DEF Start
  <2>2. record' # None
    <3>1. CountRows(links.draft) \in Nat /\ links.draft \in Versions
      BY <2>1, LinkedIs, CountIs DEF AInv
    <3>2. record'.view \in View
      BY <1>6, <3>1, Typed, NumbersAssumption DEF Start, View
    <3>3. record' \in MigrationRecord
      BY <1>6, <3>2, NumbersAssumption DEF Start, MigrationRecord, Active
    <3>4. QED
      BY <3>3, RecordFields
  <2>3. UNCHANGED <<SeenRows, SeenSchema>>
    BY <2>1, SeenStays
  <2>4. SeenPhase \in {"NONE", "FAILED", "CANCELLED"} /\ SeenPhase' = "PENDING"
    BY <2>1, <2>2, Typed, RecordFields DEF SeenPhase, IsActive
  <2>5. SeenRows # None
    BY <2>1, SeenIs
  <2>6. QED
    BY <2>3, <2>4, <2>5 DEF Seen!Start, Seen!Ended, Seen!seen
<1>7. CASE Abort
  <2>1. /\ record # None /\ record.status \in {"PENDING", "COPYING", "FAILED"} /\ record' = None
        /\ UNCHANGED <<links, schema>>
    BY <1>7 DEF Abort
  <2>2. UNCHANGED <<SeenRows, SeenSchema>>
    BY <1>7, <2>1, LinkedUntouched, SeenStays
  <2>3. Seen!Abort
    BY <2>1, <2>2 DEF Seen!Abort, Seen!seen, SeenPhase
  <2>4. QED
    BY <2>3 DEF Seen!Next
<1>8. QED
  BY <1>1, <1>2, <1>3, <1>4, <1>5, <1>6, <1>7 DEF Draft, Seen!Next

\* Time, and what it cancels.
LEMMA TimeImplements ==
  ASSUME AInv, TimeStep \/ CancelStalled
  PROVE  [Seen!Next]_<<SeenRows, SeenSchema, SeenPhase>>
<1>1. UNCHANGED <<table, links, schema>> /\ record # None /\ record \in MigrationRecord
  BY Typed DEF TimeStep, CancelStalled, LeaseExpires, Stall, Suspend, Renew, IsActive, RunsAs,
     Owns, HasStatus
<1>2. UNCHANGED <<SeenRows, SeenSchema>>
  BY <1>1, SeenStays
<1>3. CASE TimeStep
  <2>1. PICK b \in BOOLEAN :
          record' = [record EXCEPT !.expired = b] \/ record' = [record EXCEPT !.late = b]
    BY <1>3 DEF TimeStep, LeaseExpires, Stall, Suspend, Renew
  <2>2. record' \in {[record EXCEPT !.expired = b], [record EXCEPT !.late = b]}
    BY <2>1
  <2>3. record' \in MigrationRecord /\ record'.status = record.status
    BY <1>1, <2>2, TimedRecord, Zenon
  <2>4. UNCHANGED SeenPhase
    BY <1>1, <2>3, RecordFields DEF SeenPhase
  <2>5. QED
    BY <1>2, <2>4
<1>4. CASE CancelStalled
  <2>1. record.status \in {"PENDING", "COPYING"} /\ record' = Ended("CANCELLED")
    BY <1>4 DEF CancelStalled, HasStatus
  <2>2. record' # None /\ record'.status = "CANCELLED"
    BY <1>1, <2>1, EndedRecord, RecordFields
  <2>3. Seen!Cancel
    BY <1>1, <1>2, <2>1, <2>2 DEF Seen!Cancel, Seen!seen, SeenPhase
  <2>4. QED
    BY <2>3 DEF Seen!Next
<1>5. QED
  BY <1>3, <1>4

\* A record that ends is a migration that fails.
LEMMA EndImplements ==
  ASSUME AInv, UNCHANGED <<table, links, schema>>,
         record' = record \/ (IsActive /\ record' = Ended("FAILED"))
  PROVE  [Seen!Next]_<<SeenRows, SeenSchema, SeenPhase>>
<1>1. UNCHANGED <<SeenRows, SeenSchema>>
  BY SeenStays
<1>2. CASE record' = record
  BY <1>1, <1>2 DEF SeenPhase
<1>3. CASE IsActive /\ record' = Ended("FAILED")
  <2>1. record # None /\ record \in MigrationRecord /\ record.status \in {"PENDING", "COPYING", "SWAPPING"}
    BY <1>3, Typed DEF IsActive, Active
  <2>2. record' # None /\ record'.status = "FAILED"
    BY <1>3, <2>1, EndedRecord, RecordFields
  <2>3. Seen!Fail
    BY <1>1, <2>1, <2>2 DEF Seen!Fail, Seen!Active, Seen!seen, SeenPhase
  <2>4. QED
    BY <2>3 DEF Seen!Next
<1>4. QED
  BY <1>2, <1>3

\* A lease is not seen, taken or given back.
LEMMA LeaseImplements ==
  ASSUME AInv, UNCHANGED <<table, links, schema>>, record # None,
         record' \in MigrationRecord, record'.status = record.status
  PROVE  [Seen!Next]_<<SeenRows, SeenSchema, SeenPhase>>
<1>1. UNCHANGED <<SeenRows, SeenSchema>>
  BY SeenStays
<1>2. record' # None
  BY RecordFields
<1>3. QED
  BY <1>1, <1>2 DEF SeenPhase

\* Nor is a retry.
LEMMA RetryImplements ==
  ASSUME AInv, NEW w \in Workers, RetryOrFail(w), UNCHANGED <<table, links, schema>>
  PROVE  [Seen!Next]_<<SeenRows, SeenSchema, SeenPhase>>
<1>1. CASE UNCHANGED record
  BY <1>1, EndImplements
<1>2. CASE /\ IsActive /\ record.retryCount < MaxRetries
           /\ record' = [Released(record) EXCEPT !.retryCount = @ + 1]
  <2>1. record \in MigrationRecord /\ record # None
    BY <1>2, Typed DEF IsActive
  <2>2. record' \in MigrationRecord /\ record'.status = record.status
    BY <1>2, <2>1, RetriedRecord
  <2>3. QED
    BY <2>1, <2>2, LeaseImplements
<1>3. QED
  BY <1>1, <1>2 DEF RetryOrFail

\* A claim is not seen.
LEMMA ClaimImplements ==
  ASSUME AInv, NEW w \in Workers, Claim(w) \/ ClaimSwap(w) \/ TakeOver(w)
  PROVE  [Seen!Next]_<<SeenRows, SeenSchema, SeenPhase>>
<1>1. ASSUME NEW n \in 0..MaxRetries, TakeLease(w, n), IsActive
      PROVE  [Seen!Next]_<<SeenRows, SeenSchema, SeenPhase>>
  <2>1. PICK t \in First(FreshTokens(w)) :
          /\ record' = [record EXCEPT !.lockedBy = t, !.expired = FALSE, !.late = FALSE,
                                      !.retryCount = n]
          /\ UNCHANGED <<table, links, schema>>
    BY <1>1 DEF TakeLease
  <2>2. t \in Tokens
    BY DEF First, FreshTokens
  <2>3. record \in MigrationRecord /\ record # None
    BY <1>1, Typed DEF IsActive
  <2> DEFINE q == [record EXCEPT !.lockedBy = t, !.expired = FALSE, !.late = FALSE,
                                 !.retryCount = n]
  <2>4. record' \in MigrationRecord /\ record'.status = record.status
    <3>1. q \in MigrationRecord /\ q.status = record.status
      BY <2>2, <2>3 DEF MigrationRecord
    <3>2. QED
      BY <2>1, <3>1
  <2>5. QED
    BY <2>1, <2>3, <2>4, LeaseImplements
<1>2. ASSUME NEW owner, ReplaceSwapOwner(w, owner), owner => HasStatus("SWAPPING")
      PROVE  [Seen!Next]_<<SeenRows, SeenSchema, SeenPhase>>
  <2>1. CASE owner /\ record.retryCount < MaxRetries
    <3>1. record # None /\ IsActive
      BY <1>2, <2>1 DEF HasStatus, IsActive, Active
    <3>2. record.retryCount + 1 \in 0..MaxRetries
      BY <2>1, <3>1, Typed, RecordFields, NumbersAssumption
    <3>3. TakeLease(w, record.retryCount + 1)
      BY <1>2, <2>1 DEF ReplaceSwapOwner
    <3>4. QED
      BY <1>1, <3>1, <3>2, <3>3
  <2>2. CASE ~(owner /\ record.retryCount < MaxRetries)
    BY <1>2, <2>2, EndImplements DEF ReplaceSwapOwner
  <2>3. QED
    BY <2>1, <2>2
<1>3. CASE Claim(w)
  <2>1. IsActive /\ TakeLease(w, record.retryCount)
    BY <1>3 DEF Claim, HasStatus, IsActive, Active
  <2>2. record.retryCount \in 0..MaxRetries
    BY <2>1, Typed, RecordFields DEF IsActive
  <2>3. QED
    BY <1>1, <2>1, <2>2
<1>4. CASE ClaimSwap(w)
  BY <1>2, <1>4 DEF ClaimSwap
<1>5. CASE TakeOver(w)
  <2>1. ReplaceSwapOwner(w, HasStatus("SWAPPING") /\ Owns(w))
    BY <1>5 DEF TakeOver
  <2>2. QED
    BY <1>2, <2>1
<1>6. QED
  BY <1>3, <1>4, <1>5

\* The shadow is not seen while it fills.
LEMMA CopyImplements ==
  ASSUME AInv, NEW w \in Workers, BeginCopy(w) \/ WriteBatch(w) \/ BeginSwap(w)
  PROVE  [Seen!Next]_<<SeenRows, SeenSchema, SeenPhase>>
<1>1. UNCHANGED <<links, schema>>
  BY DEF BeginCopy, WriteBatch, BeginSwap
<1>2. \A v \in Linked : v # None => table'[v] = table[v]
  BY LinkedUntouched DEF BeginSwap
<1>3. UNCHANGED <<SeenRows, SeenSchema>>
  BY <1>1, <1>2, SeenStays
<1>4. ASSUME record # None, record \in MigrationRecord, record' \in MigrationRecord,
             \/ record'.status = record.status
             \/ record.status = "PENDING" /\ record'.status = "COPYING"
             \/ record.status = "COPYING" /\ record'.status = "SWAPPING"
      PROVE  [Seen!Next]_<<SeenRows, SeenSchema, SeenPhase>>
  <2>1. SeenPhase = record.status /\ SeenPhase' = record'.status
    BY <1>4, RecordFields DEF SeenPhase
  <2>2. CASE SeenPhase' = SeenPhase
    BY <1>3, <2>2
  <2>3. CASE SeenPhase' # SeenPhase
    <3>1. Seen!Advance
      BY <1>3, <1>4, <2>1, <2>3 DEF Seen!Advance, Seen!seen
    <3>2. QED
      BY <3>1 DEF Seen!Next
  <2>4. QED
    BY <2>2, <2>3
<1>5. CASE UNCHANGED record
  BY <1>3, <1>5 DEF SeenPhase
<1>6. ASSUME BeginCopy(w), ~UNCHANGED record
      PROVE  [Seen!Next]_<<SeenRows, SeenSchema, SeenPhase>>
  <2>1. CASE RetryOrFail(w) /\ UNCHANGED table
    BY <1>1, <2>1, RetryImplements
  <2>2. ASSUME HasStatus("PENDING"), NEW v \in First(FreshVersions),
               record' = [record EXCEPT !.status = "COPYING", !.late = FALSE, !.view.shadow = v]
        PROVE  [Seen!Next]_<<SeenRows, SeenSchema, SeenPhase>>
    <3>1. record # None /\ record \in MigrationRecord /\ record.status = "PENDING"
      BY <2>2, Typed DEF HasStatus
    <3>2. v \in Versions
      BY DEF First, FreshVersions
    <3>3. record' \in MigrationRecord /\ record'.status = "COPYING"
      BY <2>2, <3>1, <3>2, BegunRecord DEF Begun
    <3>4. QED
      BY <1>4, <3>1, <3>3
  <2>3. QED
    BY <1>6, <2>1, <2>2 DEF BeginCopy
<1>7. ASSUME WriteBatch(w), ~UNCHANGED record
      PROVE  [Seen!Next]_<<SeenRows, SeenSchema, SeenPhase>>
  <2>1. HasStatus("COPYING") /\ record # None /\ record \in MigrationRecord
    BY <1>7, Typed DEF WriteBatch, CheckpointAt, HasStatus
  <2>2. \E n, m : record' = [record EXCEPT !.view.copied = n, !.view.last = m, !.late = FALSE]
    BY <1>7 DEF WriteBatch
  <2>3. record'.status = record.status
    BY <2>1, <2>2 DEF MigrationRecord
  <2>4. record' # None => record' \in MigrationRecord
    BY <1>7, WriteBatchKeeps DEF AInv, TypeOK
  <2>5. record' # None
    BY <1>7, WriteBatchKeeps
  <2>6. QED
    BY <1>4, <2>1, <2>3, <2>4, <2>5
<1>8. ASSUME BeginSwap(w), ~UNCHANGED record
      PROVE  [Seen!Next]_<<SeenRows, SeenSchema, SeenPhase>>
  <2>1. /\ HasStatus("COPYING") /\ record # None /\ record \in MigrationRecord
        /\ record.status = "COPYING"
        /\ record' = [record EXCEPT !.status = "SWAPPING", !.late = FALSE]
    BY <1>8, Typed DEF BeginSwap, HasStatus
  <2>2. record' \in MigrationRecord /\ record'.status = "SWAPPING"
    BY <2>1, SwappingRecord
  <2>3. QED
    BY <1>4, <2>1, <2>2
<1>9. QED
  BY <1>5, <1>6, <1>7, <1>8

\* The swap is the change.
LEMMA SwapImplements ==
  ASSUME AInv, AInv', NEW w \in Workers, Swap(w)
  PROVE  [Seen!Next]_<<SeenRows, SeenSchema, SeenPhase>>
<1> DEFINE v == worker[w].view
<1>1. worker[w].at = "swap" /\ worker[w].at \in Running /\ worker[w].at \in Viewing /\ UNCHANGED table
  BY DEF Swap, Running, Viewing
<1>2. CASE UNCHANGED <<links, schema, record>>
  BY <1>1, <1>2, EndImplements
<1>3. ASSUME Owns(w), HasStatus("SWAPPING"), Rechecked(v), links' = [links EXCEPT !.draft = v.shadow],
             schema' = v.to, record' = None
      PROVE  Seen!Complete
  <2>1. record # None /\ IsActive /\ v = record.view /\ v \in View
        /\ record.status = "SWAPPING" /\ DraftExists
    BY <1>1, <1>3, OwnerKnows, RecordFields DEF HasStatus, Rechecked
  <2>2. /\ v.shadow \in Versions /\ table[v.shadow].schema = v.to
        /\ table[v.shadow].rows = table[links.draft].rows
    BY <2>1, SwapLinksAll
  <2>3. links'.draft = v.shadow /\ DraftExists'
    BY <1>3, <2>2, Typed DEF DraftExists
  <2>4. SeenRows' = SeenRows /\ SeenSchema' = v.to
    BY <1>1, <1>3, <2>1, <2>2, <2>3 DEF SeenRows, SeenSchema
  <2>5. SeenSchema = schema /\ SeenRows # None
    BY <2>1, SeenIs
  <2>6. schema = v.from /\ v.from # v.to /\ v.to \in Schemas
    BY <2>1, ViewFields DEF AInv, StoreState, SourceState, RecordState
  <2>7. SeenPhase = "SWAPPING" /\ SeenPhase' = "NONE"
    BY <1>3, <2>1 DEF SeenPhase
  <2>8. QED
    BY <2>4, <2>5, <2>6, <2>7 DEF Seen!Complete
<1>4. QED
  BY <1>2, <1>3 DEF Swap, Seen!Next

\* Every step is promised, or not seen.
LEMMA SeenStep ==
  ASSUME AInv, AInv', [Next]_vars
  PROVE  [Seen!Next]_<<SeenRows, SeenSchema, SeenPhase>>
<1>1. CASE UNCHANGED vars
  BY <1>1, EndImplements DEF vars
<1>2. ASSUME NEW w \in Workers, WorkerStep(w)
      PROVE  [Seen!Next]_<<SeenRows, SeenSchema, SeenPhase>>
  <2>1. CASE Crash(w) \/ Restart(w) \/ FindStalledSwap(w) \/ ReadOwned(w) \/ RefuseBatch(w)
    BY <2>1, EndImplements DEF Crash, Restart, FindStalledSwap, ReadOwned, RefuseBatch
  <2>2. CASE FailStalledSwap(w)
    BY <2>2, EndImplements DEF FailStalledSwap, HasStatus, IsActive, Active
  <2>3. CASE Fail(w)
    BY <2>3, EndImplements DEF Fail
  <2>4. CASE LoadBatch(w)
    <3>1. UNCHANGED <<table, links, schema>> /\ (RetryOrFail(w) \/ UNCHANGED record)
      BY <2>4 DEF LoadBatch
    <3>2. QED
      BY <3>1, RetryImplements, EndImplements
  <2>5. CASE StepThrows(w)
    BY <2>5, RetryImplements DEF StepThrows
  <2>6. CASE FailureThrows(w)
    <3>1. worker[w].at = "fail" /\ Owns(w) /\ record' = Released(record) /\ UNCHANGED <<table, links, schema>>
      BY <2>6 DEF FailureThrows
    <3>2. record \in MigrationRecord /\ record # None
      BY <3>1, OwnerKnows DEF Running
    <3>3. record' \in MigrationRecord /\ record'.status = record.status
      BY <3>1, <3>2, ReleasedRecord
    <3>4. QED
      BY <3>1, <3>2, <3>3, LeaseImplements
  <2>7. QED
    BY <1>2, <2>1, <2>2, <2>3, <2>4, <2>5, <2>6, ClaimImplements, CopyImplements, SwapImplements
       DEF WorkerStep
<1>3. QED
  BY <1>1, <1>2, StepsAre, DraftImplements, TimeImplements

\* Nothing has begun.
LEMMA SeenInit ==
  ASSUME Init
  PROVE  Seen!Init
<1>1. AInv /\ record = None
  BY InitHolds DEF Init
<1>2. DraftExists
  <2>1. PICK v \in First(Versions) : links = [head |-> v, draft |-> v]
    BY DEF Init
  <2>2. QED
    BY <1>1, <2>1, Typed DEF First, DraftExists
<1>3. QED
  BY <1>1, <1>2, SeenIs DEF Seen!Init, SeenPhase

\* An asynchronous migration is a change of schema in one step: whatever its
\* drivers do, readers of the draft see the rows and the schema of before until
\* they see the same rows under the new schema, and no write comes in between.
THEOREM MigrationsImplementSchemaChange == Spec => ImplementsSchemaChange
<1>1. AInv /\ AInv' /\ [Next]_vars => [Seen!Next]_<<SeenRows, SeenSchema, SeenPhase>>
  BY SeenStep
<1>2. QED
  BY <1>1, SeenInit, MigrationInvariant, PTL DEF Spec, ImplementsSchemaChange, Seen!Spec
=============================================================================

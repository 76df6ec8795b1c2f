-------------------------- MODULE FileUsageProofs --------------------------
(***************************************************************************)
(* File usage, for any number of projects, contents of any size, rows and  *)
(* overlapping sweeps: a project's counter is never below the bytes of its *)
(* active blobs, and without sweeps it equals them.                        *)
(***************************************************************************)
EXTENDS FileUsage, FiniteSetTheorems, TLAPS

-----------------------------------------------------------------------------
(* Counting bytes. *)

\* All blobs that a project can have.
Own(p) == {p} \X Hashes

\* A byte is a blob and a position in it.
LEMMA ByteIs ==
  ASSUME NEW S, NEW b, NEW i
  PROVE  <<b, i>> \in BytesOf(S) <=> b \in S /\ i \in 1..Size[HashOf(b)]
BY DEF BytesOf

\* Every byte is one.
LEMMA BytesArePairs ==
  ASSUME NEW S, NEW y \in BytesOf(S)
  PROVE  \E b \in S : \E i \in 1..Size[HashOf(b)] : y = <<b, i>>
<1>1. PICK b \in S : y \in {b} \X (1..Size[HashOf(b)])
  BY DEF BytesOf
<1>2. PICK i \in 1..Size[HashOf(b)] : y = <<b, i>>
  BY <1>1
<1>3. QED
  BY <1>2

\* A project's blobs have finitely many bytes.
LEMMA BytesAreFinite ==
  ASSUME NEW p, NEW S \in SUBSET Own(p)
  PROVE  IsFiniteSet(BytesOf(S)) /\ Bytes(S) \in Nat
<1> DEFINE of == [b \in S |-> {b} \X (1..Size[HashOf(b)])]
           parts == {{b} \X (1..Size[HashOf(b)]) : b \in S}
<1>1. IsFiniteSet(S)
  <2>1. IsFiniteSet({p})
    BY FS_Singleton, Zenon
  <2>2. IsFiniteSet({p} \X Hashes)
    BY <2>1, SizeAssumption, FS_Product
  <2>3. QED
    BY <2>2, FS_Subset DEF Own
<1>2. of \in Surjection(S, parts)
  BY DEF Surjection
<1>3. IsFiniteSet(parts)
  <2> HIDE DEF of, parts
  <2>1. QED
    BY <1>1, <1>2, FS_Surjection
<1>4. ASSUME NEW b \in S
      PROVE  IsFiniteSet({b} \X (1..Size[HashOf(b)]))
  <2>1. Size[HashOf(b)] \in Int
    BY SizeAssumption DEF Own, HashOf
  <2>2. IsFiniteSet(1..Size[HashOf(b)])
    BY <2>1, FS_Interval
  <2>3. IsFiniteSet({b})
    BY FS_Singleton, Zenon
  <2>4. QED
    BY <2>2, <2>3, FS_Product
<1>5. \A part \in parts : IsFiniteSet(part)
  BY <1>4
<1>6. IsFiniteSet(UNION parts)
  <2> HIDE DEF parts
  <2>1. QED
    BY <1>3, <1>5, FS_UNION
<1>7. IsFiniteSet(BytesOf(S))
  BY <1>6 DEF BytesOf
<1>8. QED
  BY <1>7, FS_CardinalityType DEF Bytes

\* Nothing takes no bytes.
LEMMA NoBytes == Bytes({}) = 0
<1>1. BytesOf({}) = {}
  BY DEF BytesOf
<1>2. QED
  BY <1>1, FS_EmptySet DEF Bytes

\* Blobs that are not the same do not share bytes.
LEMMA BytesAdd ==
  ASSUME NEW p, NEW S \in SUBSET Own(p), NEW T \in SUBSET Own(p), S \cap T = {}
  PROVE  Bytes(S \cup T) = Bytes(S) + Bytes(T)
<1>1. BytesOf(S \cup T) = BytesOf(S) \cup BytesOf(T)
  BY DEF BytesOf
<1>2. BytesOf(S) \cap BytesOf(T) = {}
  <2>1. ASSUME NEW y \in BytesOf(S), y \in BytesOf(T)
        PROVE  FALSE
    <3>1. PICK b \in S : \E i \in 1..Size[HashOf(b)] : y = <<b, i>>
      BY BytesArePairs
    <3>2. PICK i \in 1..Size[HashOf(b)] : y = <<b, i>>
      BY <3>1
    <3>3. b \in T
      BY <2>1, <3>2, ByteIs
    <3>4. QED
      BY <3>3
  <2>2. QED
    BY <2>1
<1>3. /\ IsFiniteSet(BytesOf(S)) /\ Bytes(S) \in Nat
      /\ IsFiniteSet(BytesOf(T)) /\ Bytes(T) \in Nat
  BY BytesAreFinite
<1>4. Cardinality(BytesOf(S) \cup BytesOf(T)) =
        Cardinality(BytesOf(S)) + Cardinality(BytesOf(T)) - Cardinality({})
  BY <1>2, <1>3, FS_Union
<1>5. Cardinality({}) = 0
  BY FS_EmptySet
<1>6. Bytes(S \cup T) = Bytes(S) + Bytes(T) - 0
  BY <1>1, <1>4, <1>5, Zenon DEF Bytes
<1>7. QED
  BY <1>3, <1>6

\* A part takes no more than the whole.
LEMMA BytesGrow ==
  ASSUME NEW p, NEW S \in SUBSET Own(p), NEW T \in SUBSET S
  PROVE  Bytes(T) =< Bytes(S)
<1>1. BytesOf(T) \in SUBSET BytesOf(S)
  <2>1. ASSUME NEW y \in BytesOf(T)
        PROVE  y \in BytesOf(S)
    <3>1. PICK b \in T : \E i \in 1..Size[HashOf(b)] : y = <<b, i>>
      BY BytesArePairs
    <3>2. PICK i \in 1..Size[HashOf(b)] : y = <<b, i>>
      BY <3>1
    <3>3. QED
      BY <3>2, ByteIs
  <2>2. QED
    BY <2>1
<1>2. IsFiniteSet(BytesOf(S))
  BY BytesAreFinite
<1>3. QED
  BY <1>1, <1>2, FS_Subset DEF Bytes

-----------------------------------------------------------------------------
(* What the sweeps together have taken out of a project and not yet off its  *)
(* counter: each blob once for each sweep that will pay for it.              *)

Owed(f) == UNION {{s} \X BytesOf(f[s]) : s \in Sweepers}
Debt(f) == Cardinality(Owed(f))
Debts(p) == [Sweepers -> SUBSET Own(p)]

\* What is owed are bytes, each to a sweep.
LEMMA OwedIs ==
  ASSUME NEW f, NEW s, NEW y
  PROVE  <<s, y>> \in Owed(f) <=> s \in Sweepers /\ y \in BytesOf(f[s])
BY DEF Owed

\* Everything owed is such a pair.
LEMMA OwedArePairs ==
  ASSUME NEW f, NEW o \in Owed(f)
  PROVE  \E s \in Sweepers : \E y \in BytesOf(f[s]) : o = <<s, y>>
<1>1. PICK s \in Sweepers : o \in {s} \X BytesOf(f[s])
  BY DEF Owed
<1>2. PICK y \in BytesOf(f[s]) : o = <<s, y>>
  BY <1>1
<1>3. QED
  BY <1>2

\* No more calls of the sweep than connections owe anything.
LEMMA DebtIsFinite ==
  ASSUME NEW p, NEW f \in Debts(p)
  PROVE  IsFiniteSet(Owed(f)) /\ Debt(f) \in Nat
<1> DEFINE of == [s \in Sweepers |-> {s} \X BytesOf(f[s])]
           parts == {{s} \X BytesOf(f[s]) : s \in Sweepers}
<1>1. of \in Surjection(Sweepers, parts)
  BY DEF Surjection
<1>2. IsFiniteSet(parts)
  <2> HIDE DEF of, parts
  <2>1. QED
    BY <1>1, FS_Surjection, SizeAssumption
<1>3. ASSUME NEW s \in Sweepers
      PROVE  IsFiniteSet({s} \X BytesOf(f[s]))
  <2>1. f[s] \in SUBSET Own(p)
    BY DEF Debts
  <2>2. IsFiniteSet(BytesOf(f[s]))
    BY <2>1, BytesAreFinite
  <2>3. IsFiniteSet({s})
    BY FS_Singleton, Zenon
  <2>4. QED
    BY <2>2, <2>3, FS_Product
<1>4. \A part \in parts : IsFiniteSet(part)
  BY <1>3
<1>5. IsFiniteSet(UNION parts)
  <2> HIDE DEF parts
  <2>1. QED
    BY <1>2, <1>4, FS_UNION
<1>6. IsFiniteSet(Owed(f))
  BY <1>5 DEF Owed
<1>7. QED
  BY <1>6, FS_CardinalityType DEF Debt

OwedBy(f, s) == {s} \X BytesOf(f[s])
OwedElsewhere(f, s) == {o \in Owed(f) : o[1] # s}

\* One sweep's debt and that of the others.
LEMMA DebtSplits ==
  ASSUME NEW p, NEW f \in Debts(p), NEW s \in Sweepers
  PROVE  /\ IsFiniteSet(OwedElsewhere(f, s)) /\ Cardinality(OwedElsewhere(f, s)) \in Nat
         /\ Bytes(f[s]) \in Nat
         /\ Debt(f) = Cardinality(OwedElsewhere(f, s)) + Bytes(f[s])
<1>1. f[s] \in SUBSET Own(p)
  BY DEF Debts
<1>2. IsFiniteSet(BytesOf(f[s])) /\ Bytes(f[s]) \in Nat
  BY <1>1, BytesAreFinite
<1>3. IsFiniteSet({s}) /\ Cardinality({s}) = 1
  BY FS_Singleton, Zenon
<1>4. /\ IsFiniteSet({s} \X BytesOf(f[s]))
      /\ Cardinality({s} \X BytesOf(f[s])) = Cardinality({s}) * Cardinality(BytesOf(f[s]))
  BY <1>2, <1>3, FS_Product
<1>5. IsFiniteSet(OwedBy(f, s)) /\ Cardinality(OwedBy(f, s)) = Bytes(f[s])
  BY <1>2, <1>3, <1>4 DEF OwedBy, Bytes
<1>6. Owed(f) = OwedElsewhere(f, s) \cup OwedBy(f, s)
  <2>1. ASSUME NEW o \in Owed(f), o \notin OwedElsewhere(f, s)
        PROVE  o \in OwedBy(f, s)
    <3>1. PICK t \in Sweepers : \E y \in BytesOf(f[t]) : o = <<t, y>>
      BY OwedArePairs
    <3>2. PICK y \in BytesOf(f[t]) : o = <<t, y>>
      BY <3>1
    <3>3. t = s
      BY <2>1, <3>2 DEF OwedElsewhere
    <3>4. QED
      BY <3>2, <3>3 DEF OwedBy
  <2>2. OwedBy(f, s) \subseteq Owed(f)
    BY DEF OwedBy, Owed
  <2>3. QED
    BY <2>1, <2>2 DEF OwedElsewhere
<1>7. OwedElsewhere(f, s) \cap OwedBy(f, s) = {}
  BY DEF OwedElsewhere, OwedBy
<1>8. IsFiniteSet(OwedElsewhere(f, s)) /\ Cardinality(OwedElsewhere(f, s)) \in Nat
  <2>1. IsFiniteSet(Owed(f))
    BY DebtIsFinite
  <2>2. OwedElsewhere(f, s) \in SUBSET Owed(f)
    BY DEF OwedElsewhere
  <2>3. QED
    BY <2>1, <2>2, FS_Subset, FS_CardinalityType
<1>9. Cardinality(OwedElsewhere(f, s) \cup OwedBy(f, s)) =
        Cardinality(OwedElsewhere(f, s)) + Cardinality(OwedBy(f, s)) - Cardinality({})
  BY <1>5, <1>7, <1>8, FS_Union
<1>10. Cardinality({}) = 0
  BY FS_EmptySet
<1>11. QED
  BY <1>2, <1>5, <1>6, <1>8, <1>9, <1>10 DEF Debt

\* When one sweep's debt changes and those of others do not grow, the whole
\* changes at most by as much.
LEMMA DebtMoves ==
  ASSUME NEW p, NEW f \in Debts(p), NEW g \in Debts(p), NEW s \in Sweepers,
         \A t \in Sweepers : t # s => g[t] \subseteq f[t]
  PROVE  /\ Debt(f) \in Nat /\ Debt(g) \in Nat /\ Bytes(f[s]) \in Nat /\ Bytes(g[s]) \in Nat
         /\ Bytes(f[s]) =< Debt(f)
         /\ Debt(g) + Bytes(f[s]) =< Debt(f) + Bytes(g[s])
<1>1. OwedElsewhere(g, s) \in SUBSET OwedElsewhere(f, s)
  <2>1. ASSUME NEW o \in OwedElsewhere(g, s)
        PROVE  o \in OwedElsewhere(f, s)
    <3>1. PICK t \in Sweepers : \E y \in BytesOf(g[t]) : o = <<t, y>>
      BY OwedArePairs DEF OwedElsewhere
    <3>2. PICK y \in BytesOf(g[t]) : o = <<t, y>>
      BY <3>1
    <3>3. t # s
      BY <3>2 DEF OwedElsewhere
    <3>4. y \in BytesOf(f[t])
      BY <3>2, <3>3 DEF BytesOf
    <3>5. o \in Owed(f)
      BY <3>2, <3>4, OwedIs
    <3>6. QED
      BY <3>2, <3>3, <3>5 DEF OwedElsewhere
  <2>2. QED
    BY <2>1
<1>2. /\ IsFiniteSet(OwedElsewhere(f, s)) /\ Cardinality(OwedElsewhere(f, s)) \in Nat
      /\ Bytes(f[s]) \in Nat
      /\ Debt(f) = Cardinality(OwedElsewhere(f, s)) + Bytes(f[s])
  BY DebtSplits
<1>3. /\ Cardinality(OwedElsewhere(g, s)) \in Nat
      /\ Bytes(g[s]) \in Nat
      /\ Debt(g) = Cardinality(OwedElsewhere(g, s)) + Bytes(g[s])
  BY DebtSplits
<1>4. Cardinality(OwedElsewhere(g, s)) =< Cardinality(OwedElsewhere(f, s))
  BY <1>1, <1>2, FS_Subset
<1>5. QED
  BY <1>2, <1>3, <1>4

\* Debts that do not grow do not add up to more.
LEMMA DebtShrinks ==
  ASSUME NEW p, NEW f \in Debts(p), NEW g \in Debts(p),
         \A s \in Sweepers : g[s] \subseteq f[s]
  PROVE  Debt(f) \in Nat /\ Debt(g) \in Nat /\ Debt(g) =< Debt(f)
<1>1. Owed(g) \in SUBSET Owed(f)
  <2>1. ASSUME NEW o \in Owed(g)
        PROVE  o \in Owed(f)
    <3>1. PICK t \in Sweepers : \E y \in BytesOf(g[t]) : o = <<t, y>>
      BY OwedArePairs
    <3>2. PICK y \in BytesOf(g[t]) : o = <<t, y>>
      BY <3>1
    <3>3. y \in BytesOf(f[t])
      BY <3>2 DEF BytesOf
    <3>4. QED
      BY <3>2, <3>3, OwedIs
  <2>2. QED
    BY <2>1
<1>2. IsFiniteSet(Owed(f)) /\ Debt(f) \in Nat /\ Debt(g) \in Nat
  BY DebtIsFinite
<1>3. QED
  BY <1>1, <1>2, FS_Subset DEF Debt

-----------------------------------------------------------------------------
(* The invariant. *)

Paying == {"decrement", "reconcile", "retry", "clamp"}

\* What sweep s, at r, has taken out of p or will find that it has, and not
\* paid for.
Claim(r, B, s, p) ==
  {b \in Own(p) : \/ r.at = "marked" /\ r.project = None /\ b \in r.found /\ B[b] = s
                  \/ r.at \in Paying /\ p \in r.due /\ b \in r.stamped}
Claims(w, B, p) == [s \in Sweepers |-> Claim(w[s], B, s, p)]

ActiveOf(B, p) == {b \in Own(p) : B[b] = Active}
Counted(c) == IF c = None THEN 0 ELSE c

\* The counter covers what is active and what sweeps will take off it.
Covers(c, w, B, p) == Counted(c) >= Bytes(ActiveOf(B, p)) + Debt(Claims(w, B, p))

\* The project is gone and nothing of it is active any more.
Settled(D, B, p) == p \in D /\ ActiveOf(B, p) = {}

\* Where a sweep is and what it holds agree; nothing found carries its mark
\* before it stamps; and it leaves nothing active of a project that is gone.
SweepFits(r, B, D, s) ==
  /\ r.at = "drop" => r.project # None
  /\ r.at \in Paying => r.project = None /\ r.due # {}
  /\ r.at = "found" => \A b \in r.found : B[b] # s
  /\ r.project # None =>
       /\ r.project \in D
       /\ r.at = "found" => ActiveOf(B, r.project) \subseteq r.found
       /\ r.at \in {"marked", "drop"} => ActiveOf(B, r.project) = {}

SweepsFit == \A s \in Sweepers : SweepFits(sweep[s], blob, deleted, s)
FilesCovered ==
  \A p \in Projects : Settled(deleted, blob, p) \/ Covers(fileBytes[p], sweep, blob, p)

\* The counter is what is active.
Exact == \A p \in Projects : Counted(fileBytes[p]) = Bytes(ActiveOf(blob, p))
UnsweptExact == NeverSwept => Exact /\ ReferencedIsActive

UInv == TypeOK /\ SweepsFit /\ FilesCovered /\ UnsweptExact

SweepRecord ==
  [at : {"never", "idle", "found", "marked", "drop", "decrement", "reconcile", "retry",
         "clamp", "report"},
   project : Projects \cup {None}, found : SUBSET Blobs, stamped : SUBSET Blobs,
   due : SUBSET Projects]

\* A project's blobs are blobs.
LEMMA OwnBlobs ==
  ASSUME NEW p \in Projects
  PROVE  /\ Own(p) \in SUBSET Blobs
         /\ \A b \in Blobs : b \in Own(p) <=> ProjectOf(b) = p
BY DEF Own, Blobs, ProjectOf

\* What the counter is compared with.
LEMMA ActiveBytesAre ==
  ASSUME NEW p \in Projects
  PROVE  ActiveBytes(p) = Bytes(ActiveOf(blob, p)) /\ Counter(p) = Counted(fileBytes[p])
<1>1. {b \in ActiveBlobs : ProjectOf(b) = p} = ActiveOf(blob, p)
  BY OwnBlobs DEF ActiveBlobs, ActiveOf
<1>2. QED
  BY <1>1 DEF ActiveBytes, Counter, Counted

\* Claims are debts of the project.
LEMMA ClaimsAreDebts ==
  ASSUME NEW w, NEW B, NEW p
  PROVE  /\ Claims(w, B, p) \in Debts(p)
         /\ \A s \in Sweepers : Claims(w, B, p)[s] = Claim(w[s], B, s, p)
BY DEF Claims, Claim, Debts

\* The numbers that are compared.
LEMMA NumbersOf ==
  ASSUME NEW w, NEW B, NEW p, NEW c \in Nat \cup {None}
  PROVE  /\ Counted(c) \in Nat /\ Bytes(ActiveOf(B, p)) \in Nat
         /\ Debt(Claims(w, B, p)) \in Nat
<1>1. Bytes(ActiveOf(B, p)) \in Nat
  <2>1. ActiveOf(B, p) \in SUBSET Own(p)
    BY DEF ActiveOf
  <2>2. QED
    BY <2>1, BytesAreFinite
<1>2. Debt(Claims(w, B, p)) \in Nat
  BY ClaimsAreDebts, DebtIsFinite
<1>3. QED
  BY <1>1, <1>2 DEF Counted

\* Claims that do not grow add up to no more.
LEMMA ClaimsShrink ==
  ASSUME NEW w, NEW B, NEW v, NEW C, NEW p,
         \A s \in Sweepers : Claim(v[s], C, s, p) \subseteq Claim(w[s], B, s, p)
  PROVE  Debt(Claims(v, C, p)) =< Debt(Claims(w, B, p))
<1>1. /\ Claims(w, B, p) \in Debts(p) /\ Claims(v, C, p) \in Debts(p)
      /\ \A s \in Sweepers : Claims(v, C, p)[s] \subseteq Claims(w, B, p)[s]
  BY ClaimsAreDebts
<1>2. QED
  BY <1>1, DebtShrinks

\* Where those of others do not grow, the whole changes by what one's do.
LEMMA ClaimsMove ==
  ASSUME NEW w, NEW B, NEW v, NEW C, NEW p, NEW s \in Sweepers,
         \A t \in Sweepers : t # s => Claim(v[t], C, t, p) \subseteq Claim(w[t], B, t, p)
  PROVE  /\ Bytes(Claim(w[s], B, s, p)) \in Nat /\ Bytes(Claim(v[s], C, s, p)) \in Nat
         /\ Bytes(Claim(w[s], B, s, p)) =< Debt(Claims(w, B, p))
         /\ Debt(Claims(v, C, p)) + Bytes(Claim(w[s], B, s, p)) =<
              Debt(Claims(w, B, p)) + Bytes(Claim(v[s], C, s, p))
<1>1. /\ Claims(w, B, p) \in Debts(p) /\ Claims(v, C, p) \in Debts(p)
      /\ \A t \in Sweepers : t # s => Claims(v, C, p)[t] \subseteq Claims(w, B, p)[t]
      /\ Claims(w, B, p)[s] = Claim(w[s], B, s, p) /\ Claims(v, C, p)[s] = Claim(v[s], C, s, p)
  BY ClaimsAreDebts
<1>2. /\ Bytes(Claims(w, B, p)[s]) \in Nat /\ Bytes(Claims(v, C, p)[s]) \in Nat
      /\ Bytes(Claims(w, B, p)[s]) =< Debt(Claims(w, B, p))
      /\ Debt(Claims(v, C, p)) + Bytes(Claims(w, B, p)[s]) =<
           Debt(Claims(w, B, p)) + Bytes(Claims(v, C, p)[s])
  BY <1>1, DebtMoves
<1>3. QED
  BY <1>1, <1>2

\* The invariant has what the properties say.
LEMMA InvariantImplies ==
  ASSUME UInv
  PROVE  CounterCoversActive /\ WritesKeepFilesExact
<1>1. ASSUME NEW p \in Projects
      PROVE  Counter(p) >= ActiveBytes(p)
  <2>1. fileBytes[p] \in Nat \cup {None}
    BY DEF UInv, TypeOK
  <2>2. /\ Counted(fileBytes[p]) \in Nat /\ Bytes(ActiveOf(blob, p)) \in Nat
        /\ Debt(Claims(sweep, blob, p)) \in Nat
    BY <2>1, NumbersOf
  <2>3. CASE Settled(deleted, blob, p)
    BY <2>2, <2>3, ActiveBytesAre, NoBytes DEF Settled
  <2>4. CASE Covers(fileBytes[p], sweep, blob, p)
    BY <2>2, <2>4, ActiveBytesAre DEF Covers
  <2>5. QED
    BY <2>3, <2>4 DEF UInv, FilesCovered
<1>2. Exact => CounterIsExact
  BY ActiveBytesAre DEF Exact, CounterIsExact
<1>3. QED
  BY <1>1, <1>2 DEF CounterCoversActive, WritesKeepFilesExact, UInv, UnsweptExact

-----------------------------------------------------------------------------
(* Steps that change no blob, no counter and no sweep. *)

\* They disturb only what rows refer to.
LEMMA QuietStep ==
  ASSUME SweepsFit, FilesCovered, UNCHANGED <<blob, fileBytes, sweep>>,
         deleted \subseteq deleted'
  PROVE  SweepsFit' /\ FilesCovered' /\ (Exact => Exact') /\ (NeverSwept' => NeverSwept)
<1>1. SweepsFit'
  <2>1. ASSUME NEW s \in Sweepers
        PROVE  SweepFits(sweep'[s], blob', deleted', s)
    BY DEF SweepsFit, SweepFits
  <2>2. QED
    BY <2>1 DEF SweepsFit
<1>2. FilesCovered'
  <2>1. ASSUME NEW p \in Projects
        PROVE  Settled(deleted', blob', p) \/ Covers(fileBytes'[p], sweep', blob', p)
    BY DEF FilesCovered, Settled
  <2>2. QED
    BY <2>1 DEF FilesCovered
<1>3. QED
  BY <1>1, <1>2 DEF Exact, NeverSwept

-----------------------------------------------------------------------------
(* Writes: some of a project's blobs become active, others that are stop. *)

Written(B, W, O) == [b \in Blobs |-> IF b \in W THEN Active ELSE IF b \in O THEN InWrite ELSE B[b]]

\* What is active of the project afterwards.
LEMMA ActiveAfterWrite ==
  ASSUME NEW B, NEW p \in Projects, NEW W \in SUBSET Own(p),
         NEW O \in SUBSET ActiveOf(B, p), W \cap O = {}
  PROVE  ActiveOf(Written(B, W, O), p) = (ActiveOf(B, p) \ O) \cup (W \ ActiveOf(B, p))
<1>1. ASSUME NEW b \in Own(p)
      PROVE  Written(B, W, O)[b] = Active <=> b \in W \/ (B[b] = Active /\ b \notin O)
  <2>1. b \in Blobs
    BY OwnBlobs
  <2>2. QED
    BY <2>1, MarkerAssumption DEF Written, ActiveOf
<1>2. QED
  BY <1>1 DEF ActiveOf

\* And of another project.
LEMMA OthersActiveAfterWrite ==
  ASSUME NEW B, NEW p \in Projects, NEW W \in SUBSET Own(p),
         NEW O \in SUBSET ActiveOf(B, p), NEW q \in Projects, q # p
  PROVE  ActiveOf(Written(B, W, O), q) = ActiveOf(B, q)
<1>1. ASSUME NEW b \in Own(q)
      PROVE  Written(B, W, O)[b] = B[b]
  <2>1. b \notin Own(p) /\ b \in Blobs
    BY OwnBlobs DEF Own
  <2>2. QED
    BY <2>1 DEF Written, ActiveOf
<1>2. QED
  BY <1>1 DEF ActiveOf

\* The bytes that are active afterwards.
LEMMA BytesAfterWrite ==
  ASSUME NEW B, NEW p \in Projects, NEW W \in SUBSET Own(p),
         NEW O \in SUBSET ActiveOf(B, p), W \cap O = {}
  PROVE  /\ Bytes(ActiveOf(B, p)) \in Nat /\ Bytes(O) \in Nat /\ Bytes(W \ ActiveOf(B, p)) \in Nat
         /\ Bytes(O) =< Bytes(ActiveOf(B, p))
         /\ Bytes(ActiveOf(Written(B, W, O), p)) =
              Bytes(ActiveOf(B, p)) - Bytes(O) + Bytes(W \ ActiveOf(B, p))
<1> DEFINE kept == ActiveOf(B, p) \ O
           more == W \ ActiveOf(B, p)
<1>1. /\ ActiveOf(B, p) \in SUBSET Own(p) /\ O \in SUBSET Own(p)
      /\ kept \in SUBSET Own(p) /\ more \in SUBSET Own(p)
      /\ kept \cup O = ActiveOf(B, p) /\ kept \cap O = {} /\ kept \cap more = {}
  BY DEF ActiveOf
<1>2. ActiveOf(Written(B, W, O), p) = kept \cup more
  BY ActiveAfterWrite
<1> HIDE DEF kept, more
<1>3. /\ Bytes(ActiveOf(B, p)) \in Nat /\ Bytes(O) \in Nat
      /\ Bytes(kept) \in Nat /\ Bytes(more) \in Nat
  BY <1>1, BytesAreFinite
<1>4. Bytes(ActiveOf(B, p)) = Bytes(kept) + Bytes(O)
  BY <1>1, BytesAdd
<1>5. Bytes(kept \cup more) = Bytes(kept) + Bytes(more)
  BY <1>1, BytesAdd
<1>6. QED
  BY <1>2, <1>3, <1>4, <1>5 DEF more

\* What the write does to the counter, which covers what it takes off.
LEMMA CounterAfterWrite ==
  ASSUME NEW c \in Nat \cup {None}, NEW more \in Nat, NEW less \in Nat
  PROVE  /\ Decremented(Incremented(c, more), less) \in Nat \cup {None}
         /\ less =< Counted(c) + more =>
              Counted(Decremented(Incremented(c, more), less)) = Counted(c) + more - less
BY MarkerAssumption DEF Decremented, Incremented, Counted

\* A write marks nothing as a sweep does.
LEMMA ClaimsAfterWrite ==
  ASSUME NEW w, NEW B, NEW W, NEW O, NEW p \in Projects
  PROVE  Debt(Claims(w, Written(B, W, O), p)) =< Debt(Claims(w, B, p))
<1>1. ASSUME NEW s \in Sweepers
      PROVE  Claim(w[s], Written(B, W, O), s, p) \subseteq Claim(w[s], B, s, p)
  <2>1. ASSUME NEW b \in Own(p), Written(B, W, O)[b] = s
        PROVE  B[b] = s
    BY <2>1, OwnBlobs, MarkerAssumption DEF Written
  <2>2. QED
    BY <2>1 DEF Claim
<1>2. QED
  BY <1>1, ClaimsShrink

\* The whole of what a write does to blobs and counters.
LEMMA WriteStep ==
  ASSUME TypeOK, SweepsFit, FilesCovered,
         NEW p \in Projects, NEW W \in SUBSET Own(p), NEW O \in SUBSET ActiveOf(blob, p),
         W \cap O = {}, W = {} \/ p \notin deleted,
         blob' = Written(blob, W, O),
         fileBytes' = [fileBytes EXCEPT ![p] =
                         Decremented(Incremented(fileBytes[p], Bytes(W \ ActiveOf(blob, p))), Bytes(O))],
         UNCHANGED <<sweep, deleted>>
  PROVE  /\ blob' \in [Blobs -> {None, Active} \cup Marks]
         /\ fileBytes' \in [Projects -> Nat \cup {None}]
         /\ SweepsFit' /\ FilesCovered' /\ (Exact => Exact') /\ (NeverSwept' => NeverSwept)
<1> DEFINE more == Bytes(W \ ActiveOf(blob, p))
           less == Bytes(O)
<1>1. /\ Bytes(ActiveOf(blob, p)) \in Nat /\ less \in Nat /\ more \in Nat
      /\ less =< Bytes(ActiveOf(blob, p))
      /\ Bytes(ActiveOf(blob', p)) = Bytes(ActiveOf(blob, p)) - less + more
  BY BytesAfterWrite
<1>2. \A q \in Projects : q # p => ActiveOf(blob', q) = ActiveOf(blob, q)
  <2>1. ASSUME NEW q \in Projects, q # p
        PROVE  ActiveOf(Written(blob, W, O), q) = ActiveOf(blob, q)
    BY <2>1, OthersActiveAfterWrite
  <2>2. QED
    BY <2>1
<1>3. ActiveOf(blob', p) = (ActiveOf(blob, p) \ O) \cup (W \ ActiveOf(blob, p))
  BY ActiveAfterWrite
<1>4. \A q \in deleted : q \in Projects => ActiveOf(blob', q) \subseteq ActiveOf(blob, q)
  <2>1. p \in deleted => ActiveOf(blob', p) = ActiveOf(blob, p) \ O
    <3>1. W = {} => ActiveOf(blob', p) = ActiveOf(blob, p) \ O
      BY <1>3
    <3>2. QED
      BY <3>1
  <2>2. p \in deleted => ActiveOf(blob', p) \subseteq ActiveOf(blob, p)
    BY <2>1
  <2>3. QED
    BY <1>2, <2>2
<1>5. blob' \in [Blobs -> {None, Active} \cup Marks]
  BY DEF Written, TypeOK, Marks
<1>6. \A q \in Projects : fileBytes[q] \in Nat \cup {None}
  BY DEF TypeOK
<1> HIDE DEF more, less
<1>7. /\ Decremented(Incremented(fileBytes[p], more), less) \in Nat \cup {None}
      /\ less =< Counted(fileBytes[p]) + more =>
           Counted(Decremented(Incremented(fileBytes[p], more), less)) =
             Counted(fileBytes[p]) + more - less
  BY <1>1, <1>6, CounterAfterWrite
<1>8. /\ fileBytes' \in [Projects -> Nat \cup {None}]
      /\ fileBytes'[p] = Decremented(Incremented(fileBytes[p], more), less)
      /\ \A q \in Projects : q # p => fileBytes'[q] = fileBytes[q]
  BY <1>7 DEF TypeOK, more, less
<1>9. SweepsFit'
  <2>1. ASSUME NEW s \in Sweepers
        PROVE  SweepFits(sweep'[s], blob', deleted', s)
    <3>1. SweepFits(sweep[s], blob, deleted, s)
      BY DEF SweepsFit
    <3>2. sweep[s] \in SweepRecord
      BY DEF TypeOK, SweepRecord
    <3>3. ASSUME NEW b \in sweep[s].found, blob[b] # s
          PROVE  blob'[b] # s
      <4>1. b \in Blobs
        BY <3>2 DEF SweepRecord
      <4>2. QED
        BY <3>3, <4>1, MarkerAssumption DEF Written
    <3>4. sweep[s].project # None => sweep[s].project \in Projects
      BY <3>2 DEF SweepRecord
    <3>5. QED
      BY <1>4, <3>1, <3>3, <3>4 DEF SweepFits
  <2>2. QED
    BY <2>1 DEF SweepsFit
<1>10. FilesCovered'
  <2>1. ASSUME NEW q \in Projects
        PROVE  Settled(deleted', blob', q) \/ Covers(fileBytes'[q], sweep', blob', q)
    <3>1. CASE Settled(deleted, blob, q)
      BY <1>4, <3>1 DEF Settled
    <3>2. CASE Covers(fileBytes[q], sweep, blob, q)
      <4>1. Debt(Claims(sweep', blob', q)) =< Debt(Claims(sweep, blob, q))
        BY ClaimsAfterWrite
      <4>2. /\ Debt(Claims(sweep', blob', q)) \in Nat /\ Debt(Claims(sweep, blob, q)) \in Nat
            /\ Counted(fileBytes[q]) \in Nat /\ Bytes(ActiveOf(blob, q)) \in Nat
        BY <1>6, NumbersOf
      <4>3. CASE q # p
        BY <1>2, <1>8, <3>2, <4>1, <4>2, <4>3 DEF Covers
      <4>4. CASE q = p
        BY <1>1, <1>7, <1>8, <3>2, <4>1, <4>2, <4>4 DEF Covers
      <4>5. QED
        BY <4>3, <4>4
    <3>3. QED
      BY <3>1, <3>2 DEF FilesCovered
  <2>2. QED
    BY <2>1 DEF FilesCovered
<1>11. ASSUME Exact
       PROVE  Exact'
  <2>1. ASSUME NEW q \in Projects
        PROVE  Counted(fileBytes'[q]) = Bytes(ActiveOf(blob', q))
    <3>1. Counted(fileBytes[q]) = Bytes(ActiveOf(blob, q))
      BY <1>11 DEF Exact
    <3>2. CASE q # p
      BY <1>2, <1>8, <3>1, <3>2
    <3>3. CASE q = p
      BY <1>1, <1>7, <1>8, <3>1, <3>3
    <3>4. QED
      BY <3>2, <3>3
  <2>2. QED
    BY <2>1 DEF Exact
<1>12. QED
  BY <1>5, <1>8, <1>9, <1>10, <1>11 DEF NeverSwept

\* The parts of the type invariant that a step of the files' own can break.
FilesTyped ==
  /\ blob \in [Blobs -> {None, Active} \cup Marks]
  /\ links \subseteq Blobs \X RowVersions
  /\ rows \in [RowVersions -> RowRecord \cup {None}]
  /\ fileBytes \in [Projects -> Nat \cup {None}]
  /\ \A l \in links : blob[l[1]] # None /\ rows[l[2]] # None

\* A row that is registered.
LEMMA RegisterKeepsTypes ==
  ASSUME TypeOK, SweepsFit, FilesCovered, NEW x \in RowVersions, NEW p \in Projects,
         NEW refs \in SUBSET Hashes, Register(x, p, refs)
  PROVE  /\ FilesTyped' /\ SweepsFit' /\ FilesCovered'
         /\ (Exact => Exact') /\ (NeverSwept' => NeverSwept)
<1> DEFINE wanted == {p} \X refs
           joins == WithoutRows({x}) \cup (wanted \X {x})
           orphans == ScopedOrphans(LinkedTo(x) \ wanted, p, joins)
<1>1. wanted \in SUBSET Own(p) /\ wanted \in SUBSET Blobs
  BY DEF Own, Blobs
<1>2. orphans \in SUBSET ActiveOf(blob, p) /\ wanted \cap orphans = {}
  <2>1. orphans \in SUBSET Own(p)
    BY OwnBlobs DEF ScopedOrphans, LinkedTo
  <2>2. QED
    BY <2>1 DEF ScopedOrphans, ActiveOf
<1>3. AddedBytes(x, wanted) = Bytes(wanted \ ActiveOf(blob, p))
  <2>1. wanted \ ActiveBlobs = wanted \ ActiveOf(blob, p)
    BY <1>1 DEF ActiveBlobs, ActiveOf
  <2>2. QED
    BY <2>1 DEF AddedBytes
<1>4. /\ p \notin deleted
      /\ rows' = [rows EXCEPT ![x] = [project |-> p, refs |-> refs, reachable |-> TRUE]]
      /\ links' = joins
      /\ UNCHANGED <<sweep, reported, deleted, restore, backfill>>
  BY DEF Register, consumer, repair
<1>5. blob' = Written(blob, wanted, orphans)
  BY DEF Register, Written
<1>6. fileBytes' = [fileBytes EXCEPT ![p] =
        Decremented(Incremented(fileBytes[p], AddedBytes(x, wanted)), Bytes(orphans))]
  BY DEF Register
<1> HIDE DEF wanted, orphans
<1>7. /\ blob' \in [Blobs -> {None, Active} \cup Marks]
      /\ fileBytes' \in [Projects -> Nat \cup {None}]
      /\ SweepsFit' /\ FilesCovered' /\ (Exact => Exact') /\ (NeverSwept' => NeverSwept)
  BY <1>1, <1>2, <1>3, <1>4, <1>5, <1>6, WriteStep
<1>8. links' \subseteq Blobs \X RowVersions
  BY <1>1, <1>4 DEF TypeOK, WithoutRows
<1>9. [project |-> p, refs |-> refs, reachable |-> TRUE] \in RowRecord
  BY DEF RowRecord
<1>10. rows' \in [RowVersions -> RowRecord \cup {None}]
  BY <1>4, <1>9 DEF TypeOK
<1>11. ASSUME NEW l \in links'
       PROVE  blob'[l[1]] # None /\ rows'[l[2]] # None
  <2>1. CASE l \in WithoutRows({x})
    <3>1. l \in links /\ l[2] # x /\ l[1] \in Blobs /\ l[2] \in RowVersions
      BY <2>1 DEF WithoutRows, TypeOK
    <3>2. blob[l[1]] # None /\ rows[l[2]] # None
      BY <3>1 DEF TypeOK
    <3>3. blob'[l[1]] # None
      BY <1>5, <3>1, <3>2, MarkerAssumption DEF Written
    <3>4. rows'[l[2]] = rows[l[2]]
      BY <1>4, <3>1 DEF TypeOK
    <3>5. QED
      BY <3>2, <3>3, <3>4
  <2>2. CASE l \in wanted \X {x}
    <3>1. l[1] \in wanted /\ l[2] = x
      BY <2>2
    <3>2. blob'[l[1]] = Active
      BY <1>1, <1>5, <3>1 DEF Written
    <3>3. rows'[l[2]] \in RowRecord
      BY <1>4, <1>9, <3>1 DEF TypeOK
    <3>4. QED
      BY <3>2, <3>3, MarkerAssumption, NoRowAssumption
  <2>3. QED
    BY <1>4, <2>1, <2>2
<1>12. QED
  BY <1>7, <1>8, <1>10, <1>11 DEF FilesTyped

\* What other rows refer to is linked by them, so no orphan.
LEMMA RegisterKeepsReferences ==
  ASSUME TypeOK, NEW x \in RowVersions, NEW p \in Projects,
         NEW refs \in SUBSET Hashes, Register(x, p, refs), ReferencedIsActive
  PROVE  ReferencedIsActive'
<1> DEFINE wanted == {p} \X refs
           joins == WithoutRows({x}) \cup (wanted \X {x})
           orphans == ScopedOrphans(LinkedTo(x) \ wanted, p, joins)
<1>1. /\ rows' = [rows EXCEPT ![x] = [project |-> p, refs |-> refs, reachable |-> TRUE]]
      /\ links' = joins
      /\ blob' = Written(blob, wanted, orphans)
  BY DEF Register, Written
<1>2. ASSUME NEW y \in RowVersions, rows'[y] # None, rows'[y].reachable,
             NEW c \in rows'[y].refs
      PROVE  <<<<rows'[y].project, c>>, y>> \in links' /\ blob'[<<rows'[y].project, c>>] = Active
  <2>1. CASE y = x
    <3>1. rows'[y].project = p /\ rows'[y].refs = refs
      BY <1>1, <2>1 DEF TypeOK
    <3>2. <<p, c>> \in wanted /\ <<p, c>> \in Blobs
      BY <1>2, <3>1 DEF Blobs
    <3>3. <<<<p, c>>, y>> \in joins
      BY <2>1, <3>2
    <3>4. blob'[<<p, c>>] = Active
      <4> HIDE DEF wanted, orphans
      <4>1. QED
        BY <1>1, <3>2 DEF Written
    <3>5. QED
      BY <1>1, <3>1, <3>3, <3>4
  <2>2. CASE y # x
    <3>1. rows'[y] = rows[y]
      BY <1>1, <2>2 DEF TypeOK
    <3> DEFINE b == <<rows[y].project, c>>
    <3>2. <<b, y>> \in links /\ blob[b] = Active
      BY <1>2, <3>1 DEF ReferencedIsActive
    <3>3. <<b, y>> \in WithoutRows({x})
      BY <2>2, <3>2 DEF WithoutRows
    <3>4. b \in Blobs
      BY <3>2 DEF TypeOK
    <3>5. <<b, y>> \in joins
      BY <3>3
    <3>6. b \notin orphans
      BY <3>5 DEF ScopedOrphans, Linked
    <3>7. blob'[b] = Active
      <4> HIDE DEF wanted, orphans, b
      <4>1. QED
        BY <1>1, <3>2, <3>4, <3>6 DEF Written
    <3>8. QED
      BY <1>1, <3>1, <3>5, <3>7
  <2>3. QED
    BY <2>1, <2>2
<1>3. QED
  BY <1>2 DEF ReferencedIsActive

\* A row that is removed.
LEMMA RemoveRowKeepsTypes ==
  ASSUME TypeOK, SweepsFit, FilesCovered, NEW x \in RowVersions, RemoveRow(x)
  PROVE  /\ FilesTyped' /\ SweepsFit' /\ FilesCovered'
         /\ (Exact => Exact') /\ (NeverSwept' => NeverSwept)
<1> DEFINE p == rows[x].project
           joins == WithoutRows({x})
           orphans == ScopedOrphans(LinkedTo(x), p, joins)
           none == {}
<1>1. p \in Projects
  BY DEF RemoveRow, TypeOK, RowRecord
<1>2. orphans \in SUBSET ActiveOf(blob, p)
  <2>1. orphans \in SUBSET Own(p)
    BY <1>1, OwnBlobs DEF ScopedOrphans, LinkedTo
  <2>2. QED
    BY <2>1 DEF ScopedOrphans, ActiveOf
<1>3. /\ rows' = [rows EXCEPT ![x] = None]
      /\ links' = joins
      /\ UNCHANGED <<sweep, reported, deleted, restore, backfill>>
  BY DEF RemoveRow, consumer, repair
<1>4. blob' = Written(blob, {}, orphans)
  BY DEF RemoveRow, Written
<1>5. fileBytes' = [fileBytes EXCEPT ![p] = Decremented(fileBytes[p], Bytes(orphans))]
  BY DEF RemoveRow
<1> HIDE DEF p, orphans
<1>6. Incremented(fileBytes[p], Bytes({} \ ActiveOf(blob, p))) = fileBytes[p]
  <2>1. {} \ ActiveOf(blob, p) = {}
    OBVIOUS
  <2>2. QED
    BY <2>1, NoBytes DEF Incremented
<1>7. fileBytes' = [fileBytes EXCEPT ![p] =
        Decremented(Incremented(fileBytes[p], Bytes({} \ ActiveOf(blob, p))), Bytes(orphans))]
  BY <1>5, <1>6
<1>8. none \in SUBSET Own(p) /\ none \cap orphans = {} /\ none = {}
  OBVIOUS
<1>9. /\ blob' \in [Blobs -> {None, Active} \cup Marks]
      /\ fileBytes' \in [Projects -> Nat \cup {None}]
      /\ SweepsFit' /\ FilesCovered' /\ (Exact => Exact') /\ (NeverSwept' => NeverSwept)
  BY <1>1, <1>2, <1>3, <1>4, <1>7, <1>8, WriteStep
<1>10. rows' \in [RowVersions -> RowRecord \cup {None}]
  BY <1>3 DEF TypeOK
<1>11. ASSUME NEW l \in links'
       PROVE  blob'[l[1]] # None /\ rows'[l[2]] # None
  <2>1. l \in links /\ l[2] # x /\ l[1] \in Blobs /\ l[2] \in RowVersions
    BY <1>3 DEF WithoutRows, TypeOK
  <2>2. blob[l[1]] # None /\ rows[l[2]] # None
    BY <2>1 DEF TypeOK
  <2>3. blob'[l[1]] # None
    BY <1>4, <2>1, <2>2, MarkerAssumption DEF Written
  <2>4. rows'[l[2]] = rows[l[2]]
    BY <1>3, <2>1 DEF TypeOK
  <2>5. QED
    BY <2>2, <2>3, <2>4
<1>12. links' \subseteq Blobs \X RowVersions
  BY <1>3 DEF TypeOK, WithoutRows
<1>13. QED
  BY <1>9, <1>10, <1>11, <1>12 DEF FilesTyped

\* What other rows refer to is linked by them, so no orphan.
LEMMA RemoveRowKeepsReferences ==
  ASSUME TypeOK, NEW x \in RowVersions, RemoveRow(x), ReferencedIsActive
  PROVE  ReferencedIsActive'
<1> DEFINE p == rows[x].project
           joins == WithoutRows({x})
           orphans == ScopedOrphans(LinkedTo(x), p, joins)
<1>1. /\ rows' = [rows EXCEPT ![x] = None]
      /\ links' = joins
      /\ blob' = Written(blob, {}, orphans)
  BY DEF RemoveRow, Written
<1>2. ASSUME NEW y \in RowVersions, rows'[y] # None, rows'[y].reachable,
             NEW c \in rows'[y].refs
      PROVE  <<<<rows'[y].project, c>>, y>> \in links' /\ blob'[<<rows'[y].project, c>>] = Active
  <2>1. y # x /\ rows'[y] = rows[y]
    BY <1>1, <1>2 DEF TypeOK
  <2> DEFINE b == <<rows[y].project, c>>
  <2>2. <<b, y>> \in links /\ blob[b] = Active
    BY <1>2, <2>1 DEF ReferencedIsActive
  <2>3. <<b, y>> \in joins
    BY <2>1, <2>2 DEF WithoutRows
  <2>4. b \in Blobs
    BY <2>2 DEF TypeOK
  <2>5. b \notin orphans
    BY <2>3 DEF ScopedOrphans, Linked
  <2>6. blob'[b] = Active
    <3> HIDE DEF orphans, b
    <3>1. QED
      BY <1>1, <2>2, <2>4, <2>5 DEF Written
  <2>7. QED
    BY <1>1, <2>1, <2>3, <2>6
<1>3. QED
  BY <1>2 DEF ReferencedIsActive

\* Rows that go without this module hearing of it take their links along.
LEMMA RowsGone ==
  ASSUME TypeOK, NEW S, UNCHANGED <<blob, fileBytes>>, links' = WithoutRows(S),
         rows' = [x \in RowVersions |-> IF x \in S THEN None ELSE rows[x]]
  PROVE  FilesTyped' /\ (ReferencedIsActive => ReferencedIsActive')
<1>1. FilesTyped'
  <2>1. links' \subseteq Blobs \X RowVersions
    BY DEF WithoutRows, TypeOK
  <2>2. rows' \in [RowVersions -> RowRecord \cup {None}]
    BY DEF TypeOK
  <2>3. ASSUME NEW l \in links'
        PROVE  blob'[l[1]] # None /\ rows'[l[2]] # None
    <3>1. l \in links /\ l[2] \notin S /\ l[2] \in RowVersions
      BY <2>1 DEF WithoutRows
    <3>2. blob[l[1]] # None /\ rows[l[2]] # None
      BY <3>1 DEF TypeOK
    <3>3. QED
      BY <3>1, <3>2
  <2>4. QED
    BY <2>1, <2>2, <2>3 DEF FilesTyped, TypeOK
<1>2. ASSUME ReferencedIsActive
      PROVE  ReferencedIsActive'
  <2>1. ASSUME NEW y \in RowVersions, rows'[y] # None, rows'[y].reachable,
               NEW c \in rows'[y].refs
        PROVE  <<<<rows'[y].project, c>>, y>> \in links' /\ blob'[<<rows'[y].project, c>>] = Active
    <3>1. y \notin S /\ rows'[y] = rows[y]
      BY <2>1
    <3>2. <<<<rows[y].project, c>>, y>> \in links /\ blob[<<rows[y].project, c>>] = Active
      BY <1>2, <2>1, <3>1 DEF ReferencedIsActive
    <3>3. <<<<rows[y].project, c>>, y>> \in WithoutRows(S)
      BY <3>1, <3>2 DEF WithoutRows
    <3>4. QED
      BY <3>1, <3>2, <3>3
  <2>2. QED
    BY <2>1 DEF ReferencedIsActive
<1>3. QED
  BY <1>1, <1>2

\* Rows that no revision has any more refer to what they did.
LEMMA RowsLeft ==
  ASSUME TypeOK, NEW S, UNCHANGED <<blob, fileBytes, links>>,
         rows' = [x \in RowVersions |->
                    IF rows[x] # None /\ x \in S THEN [rows[x] EXCEPT !.reachable = FALSE] ELSE rows[x]]
  PROVE  FilesTyped' /\ (ReferencedIsActive => ReferencedIsActive')
<1>1. ASSUME NEW x \in RowVersions
      PROVE  /\ rows'[x] \in RowRecord \cup {None}
             /\ rows[x] # None => rows'[x] # None
             /\ rows'[x] # None /\ rows'[x].reachable => rows'[x] = rows[x]
  <2>1. CASE rows[x] # None /\ x \in S
    <3>1. rows[x] \in RowRecord /\ rows'[x] = [rows[x] EXCEPT !.reachable = FALSE]
      BY <2>1 DEF TypeOK
    <3>2. rows'[x] \in RowRecord /\ rows'[x].reachable = FALSE
      BY <3>1 DEF RowRecord
    <3>3. QED
      BY <3>2, NoRowAssumption
  <2>2. CASE ~(rows[x] # None /\ x \in S)
    BY <2>2 DEF TypeOK
  <2>3. QED
    BY <2>1, <2>2
<1>2. rows' \in [RowVersions -> RowRecord \cup {None}]
  BY <1>1
<1>3. \A l \in links' : blob'[l[1]] # None /\ rows'[l[2]] # None
  BY <1>1 DEF TypeOK
<1>4. FilesTyped'
  BY <1>2, <1>3 DEF FilesTyped, TypeOK
<1>5. ReferencedIsActive => ReferencedIsActive'
  BY <1>1 DEF ReferencedIsActive
<1>6. QED
  BY <1>4, <1>5

\* The parts of the invariant that a step can disturb make the whole.
LEMMA PartsMakeInvariant ==
  ASSUME UInv, FilesTyped', sweep' \in [Sweepers -> SweepRecord], reported' \subseteq Hashes,
         deleted' \subseteq Projects, UNCHANGED repair, SweepsFit', FilesCovered',
         NeverSwept' => NeverSwept /\ (Exact => Exact') /\ (ReferencedIsActive => ReferencedIsActive')
  PROVE  UInv'
<1>1. UNCHANGED <<restore, backfill>>
  BY DEF repair
<1>2. TypeOK'
  BY <1>1 DEF UInv, TypeOK, FilesTyped, SweepRecord
<1>3. UnsweptExact'
  BY DEF UInv, UnsweptExact
<1>4. QED
  BY <1>2, <1>3 DEF UInv

\* What TypeOK says of the sweeps.
LEMMA SweepsTyped ==
  ASSUME TypeOK
  PROVE  sweep \in [Sweepers -> SweepRecord]
BY DEF TypeOK, SweepRecord

\* Registration.
LEMMA RegisterStep ==
  ASSUME UInv, NEW x \in RowVersions, NEW p \in Projects, NEW refs \in SUBSET Hashes,
         Register(x, p, refs)
  PROVE  UInv'
<1>1. /\ TypeOK /\ SweepsFit /\ FilesCovered
      /\ reported \subseteq Hashes /\ deleted \subseteq Projects
  BY DEF UInv, TypeOK
<1>2. UNCHANGED <<sweep, consumer, repair>>
  BY DEF Register
<1>3. /\ FilesTyped' /\ SweepsFit' /\ FilesCovered'
      /\ (Exact => Exact') /\ (NeverSwept' => NeverSwept)
  BY <1>1, RegisterKeepsTypes
<1>4. ReferencedIsActive => ReferencedIsActive'
  BY <1>1, RegisterKeepsReferences
<1>5. sweep' \in [Sweepers -> SweepRecord]
  BY <1>1, <1>2, SweepsTyped
<1>6. QED
  BY <1>1, <1>2, <1>3, <1>4, <1>5, PartsMakeInvariant DEF consumer

\* Removal of rows one by one.
LEMMA RemoveRowStep ==
  ASSUME UInv, NEW x \in RowVersions, RemoveRow(x)
  PROVE  UInv'
<1>1. /\ TypeOK /\ SweepsFit /\ FilesCovered
      /\ reported \subseteq Hashes /\ deleted \subseteq Projects
  BY DEF UInv, TypeOK
<1>2. UNCHANGED <<sweep, consumer, repair>>
  BY DEF RemoveRow
<1>3. /\ FilesTyped' /\ SweepsFit' /\ FilesCovered'
      /\ (Exact => Exact') /\ (NeverSwept' => NeverSwept)
  BY <1>1, RemoveRowKeepsTypes
<1>4. ReferencedIsActive => ReferencedIsActive'
  BY <1>1, RemoveRowKeepsReferences
<1>5. sweep' \in [Sweepers -> SweepRecord]
  BY <1>1, <1>2, SweepsTyped
<1>6. QED
  BY <1>1, <1>2, <1>3, <1>4, <1>5, PartsMakeInvariant DEF consumer

\* A step that changes rows, and no blob, counter or sweep.
LEMMA RowsStep ==
  ASSUME UInv, UNCHANGED <<blob, fileBytes, sweep, repair>>, FilesTyped',
         ReferencedIsActive => ReferencedIsActive', reported' \subseteq Hashes,
         deleted \subseteq deleted', deleted' \subseteq Projects
  PROVE  UInv'
<1>1. TypeOK /\ SweepsFit /\ FilesCovered
  BY DEF UInv
<1>2. SweepsFit' /\ FilesCovered' /\ (Exact => Exact') /\ (NeverSwept' => NeverSwept)
  BY <1>1, QuietStep
<1>3. sweep' \in [Sweepers -> SweepRecord]
  BY <1>1, SweepsTyped
<1>4. QED
  BY <1>2, <1>3, PartsMakeInvariant

\* Tables that are removed, and the cleanup of orphaned rows.
LEMMA RowsGoneStep ==
  ASSUME UInv, (\E S \in SUBSET RowVersions : RemoveTable(S)) \/ DeleteOrphanRows
  PROVE  UInv'
<1>1. /\ \E S : /\ links' = WithoutRows(S)
                /\ rows' = [x \in RowVersions |-> IF x \in S THEN None ELSE rows[x]]
      /\ UNCHANGED <<blob, fileBytes, sweep, consumer, repair>>
  BY DEF RemoveTable, DeleteOrphanRows
<1>2. PICK S : /\ links' = WithoutRows(S)
               /\ rows' = [x \in RowVersions |-> IF x \in S THEN None ELSE rows[x]]
  BY <1>1
<1>3. TypeOK /\ reported \subseteq Hashes /\ deleted \subseteq Projects
  BY DEF UInv, TypeOK
<1>4. FilesTyped' /\ (ReferencedIsActive => ReferencedIsActive')
  BY <1>1, <1>2, <1>3, RowsGone
<1>5. QED
  BY <1>1, <1>3, <1>4, RowsStep DEF consumer

\* Reverts and the like, and the end of a project.
LEMMA RowsLeftStep ==
  ASSUME UInv, (\E x \in RowVersions : Abandon(x)) \/ (\E p \in Projects : DeleteProject(p))
  PROVE  UInv'
<1>1. /\ TypeOK /\ reported \subseteq Hashes /\ deleted \subseteq Projects
      /\ rows \in [RowVersions -> RowRecord \cup {None}]
  BY DEF UInv, TypeOK
<1>2. ASSUME NEW x \in RowVersions, Abandon(x)
      PROVE  UInv'
  <2>1. /\ UNCHANGED <<blob, links, fileBytes, sweep, consumer, repair>>
        /\ rows' = [rows EXCEPT ![x] = [rows[x] EXCEPT !.reachable = FALSE]] /\ rows[x] # None
    BY <1>2 DEF Abandon
  <2>2. rows' = [y \in RowVersions |->
                   IF rows[y] # None /\ y \in {x} THEN [rows[y] EXCEPT !.reachable = FALSE] ELSE rows[y]]
    BY <1>1, <2>1
  <2>3. FilesTyped' /\ (ReferencedIsActive => ReferencedIsActive')
    BY <1>1, <2>1, <2>2, RowsLeft
  <2>4. QED
    BY <1>1, <2>1, <2>3, RowsStep DEF consumer
<1>3. ASSUME NEW p \in Projects, DeleteProject(p)
      PROVE  UInv'
  <2> DEFINE S == {y \in RowVersions : rows[y] # None /\ rows[y].project = p}
  <2>1. /\ UNCHANGED <<blob, links, fileBytes, sweep, reported, repair>>
        /\ deleted' = deleted \cup {p}
        /\ rows' = [y \in RowVersions |->
                      IF rows[y] # None /\ rows[y].project = p
                      THEN [rows[y] EXCEPT !.reachable = FALSE] ELSE rows[y]]
    BY <1>3 DEF DeleteProject
  <2>2. rows' = [y \in RowVersions |->
                   IF rows[y] # None /\ y \in S THEN [rows[y] EXCEPT !.reachable = FALSE] ELSE rows[y]]
    BY <2>1
  <2> HIDE DEF S
  <2>3. FilesTyped' /\ (ReferencedIsActive => ReferencedIsActive')
    BY <1>1, <2>1, <2>2, RowsLeft
  <2>4. QED
    BY <1>1, <2>1, <2>3, RowsStep
<1>4. QED
  BY <1>2, <1>3

\* The consumer asks.
LEMMA PendingStep ==
  ASSUME UInv, GetPendingStorageDeletions
  PROVE  UInv'
<1>1. /\ UNCHANGED <<blob, links, rows, fileBytes, sweep, deleted, repair>>
      /\ reported' \subseteq reported \cup {HashOf(b) : b \in Tombstones}
  BY DEF GetPendingStorageDeletions, data
<1>2. {HashOf(b) : b \in Tombstones} \subseteq Hashes
  BY DEF Tombstones, Blobs, HashOf
<1>3. reported' \subseteq Hashes /\ deleted' \subseteq Projects
  BY <1>1, <1>2 DEF UInv, TypeOK
<1>4. FilesTyped'
  BY <1>1 DEF UInv, TypeOK, FilesTyped
<1>5. ReferencedIsActive => ReferencedIsActive'
  BY <1>1 DEF ReferencedIsActive
<1>6. QED
  BY <1>1, <1>3, <1>4, <1>5, RowsStep

\* The consumer confirms: tombstones go, and what is active stays.
LEMMA ConfirmStep ==
  ASSUME UInv, NEW h \in Hashes, ConfirmStorageDeleted(h)
  PROVE  UInv'
<1> DEFINE confirmed == {b \in Tombstones : HashOf(b) = h}
<1>1. /\ blob' = [b \in Blobs |-> IF b \in confirmed THEN None ELSE blob[b]]
      /\ links' = {l \in links : l[1] \notin confirmed}
      /\ reported' = reported \ {h}
      /\ UNCHANGED <<rows, fileBytes, sweep, deleted, repair>>
  BY DEF ConfirmStorageDeleted
<1>2. \A b \in confirmed : b \in Blobs /\ blob[b] \in Marks
  BY DEF Tombstones
<1> HIDE DEF confirmed
<1>3. TypeOK /\ SweepsFit /\ FilesCovered
  BY DEF UInv
<1>4. blob' \in [Blobs -> {None, Active} \cup Marks]
  BY <1>1, <1>3 DEF TypeOK
<1>5. \A b \in Blobs : /\ blob'[b] = Active <=> blob[b] = Active
                       /\ \A s \in Sweepers : blob'[b] = s => blob[b] = s
  BY <1>1, <1>2, MarkerAssumption DEF Marks
<1>6. \A p \in Projects : ActiveOf(blob', p) = ActiveOf(blob, p)
  <2>1. ASSUME NEW p \in Projects
        PROVE  ActiveOf(blob', p) = ActiveOf(blob, p)
    BY <1>5, OwnBlobs DEF ActiveOf
  <2>2. QED
    BY <2>1
<1>7. FilesTyped'
  <2>1. ASSUME NEW l \in links'
        PROVE  blob'[l[1]] # None /\ rows'[l[2]] # None
    <3>1. l \in links /\ l[1] \notin confirmed /\ l[1] \in Blobs
      BY <1>1, <1>3 DEF TypeOK
    <3>2. QED
      BY <1>1, <1>3, <3>1 DEF TypeOK
  <2>2. QED
    BY <1>1, <1>3, <1>4, <2>1 DEF FilesTyped, TypeOK
<1>8. SweepsFit'
  <2>1. ASSUME NEW s \in Sweepers
        PROVE  SweepFits(sweep'[s], blob', deleted', s)
    <3>1. SweepFits(sweep[s], blob, deleted, s) /\ sweep[s] \in SweepRecord
      BY <1>3, SweepsTyped DEF SweepsFit
    <3>2. sweep[s].found \subseteq Blobs /\ sweep[s].project \in Projects \cup {None}
      BY <3>1 DEF SweepRecord
    <3>3. QED
      BY <1>1, <1>5, <1>6, <3>1, <3>2 DEF SweepFits
  <2>2. QED
    BY <2>1 DEF SweepsFit
<1>9. FilesCovered'
  <2>1. ASSUME NEW p \in Projects
        PROVE  Settled(deleted', blob', p) \/ Covers(fileBytes'[p], sweep', blob', p)
    <3>1. CASE Settled(deleted, blob, p)
      BY <1>1, <1>6, <3>1 DEF Settled
    <3>2. CASE Covers(fileBytes[p], sweep, blob, p)
      <4>1. ASSUME NEW s \in Sweepers
            PROVE  Claim(sweep[s], blob', s, p) \subseteq Claim(sweep[s], blob, s, p)
        BY <1>5, OwnBlobs DEF Claim
      <4>2. Debt(Claims(sweep, blob', p)) =< Debt(Claims(sweep, blob, p))
        BY <4>1, ClaimsShrink
      <4>3. fileBytes[p] \in Nat \cup {None}
        BY <1>3 DEF TypeOK
      <4>4. /\ Debt(Claims(sweep, blob', p)) \in Nat /\ Debt(Claims(sweep, blob, p)) \in Nat
            /\ Counted(fileBytes[p]) \in Nat /\ Bytes(ActiveOf(blob, p)) \in Nat
        BY <4>3, NumbersOf
      <4>5. QED
        BY <1>1, <1>6, <3>2, <4>2, <4>4 DEF Covers
    <3>3. QED
      BY <1>3, <3>1, <3>2 DEF FilesCovered
  <2>2. QED
    BY <2>1 DEF FilesCovered
<1>10. Exact => Exact'
  BY <1>1, <1>6 DEF Exact
<1>11. ASSUME ReferencedIsActive
       PROVE  ReferencedIsActive'
  <2>1. ASSUME NEW y \in RowVersions, rows'[y] # None, rows'[y].reachable,
               NEW c \in rows'[y].refs
        PROVE  <<<<rows'[y].project, c>>, y>> \in links' /\ blob'[<<rows'[y].project, c>>] = Active
    <3> DEFINE b == <<rows[y].project, c>>
    <3>1. <<b, y>> \in links /\ blob[b] = Active
      BY <1>1, <1>11, <2>1 DEF ReferencedIsActive
    <3>2. b \in Blobs
      BY <1>3, <3>1 DEF TypeOK
    <3>3. blob'[b] = Active /\ b \notin confirmed
      <4> HIDE DEF b
      <4>1. QED
        BY <1>2, <1>5, <3>1, <3>2, MarkerAssumption DEF Marks
    <3>4. <<b, y>> \in links'
      BY <1>1, <3>1, <3>3
    <3>5. QED
      BY <1>1, <3>3, <3>4
  <2>2. QED
    BY <2>1 DEF ReferencedIsActive
<1>12. sweep' \in [Sweepers -> SweepRecord] /\ (NeverSwept' => NeverSwept)
  BY <1>1, <1>3, SweepsTyped DEF NeverSwept
<1>13. reported' \subseteq Hashes /\ deleted' \subseteq Projects
  BY <1>1, <1>3 DEF TypeOK
<1>14. QED
  BY <1>1, <1>7, <1>8, <1>9, <1>10, <1>11, <1>12, <1>13, PartsMakeInvariant

-----------------------------------------------------------------------------
(* Sweeps.  First, what a sweep becomes in one step. *)

\* It is somewhere else.
LEMMA AtIs ==
  ASSUME NEW r \in SweepRecord,
         NEW a \in {"idle", "found", "marked", "drop", "decrement", "reconcile", "retry", "clamp", "report"}
  PROVE  /\ [r EXCEPT !.at = a] \in SweepRecord
         /\ [r EXCEPT !.at = a].at = a /\ [r EXCEPT !.at = a].project = r.project
         /\ [r EXCEPT !.at = a].found = r.found /\ [r EXCEPT !.at = a].stamped = r.stamped
         /\ [r EXCEPT !.at = a].due = r.due
BY DEF SweepRecord

\* A sweep's step that changes no blob.
LEMMA SweepStep ==
  ASSUME UInv, NEW s \in Sweepers, NEW r \in SweepRecord, r.at # "never",
         sweep' = [sweep EXCEPT ![s] = r], SweepFits(r, blob, deleted, s),
         UNCHANGED <<blob, links, rows, deleted, repair>>, reported' \subseteq Hashes,
         fileBytes' \in [Projects -> Nat \cup {None}], FilesCovered'
  PROVE  UInv'
<1>1. TypeOK /\ SweepsFit
  BY DEF UInv
<1>2. sweep \in [Sweepers -> SweepRecord]
  BY <1>1, SweepsTyped
<1>3. sweep' \in [Sweepers -> SweepRecord]
  BY <1>2
<1>4. SweepsFit'
  <2>1. ASSUME NEW t \in Sweepers
        PROVE  SweepFits(sweep'[t], blob', deleted', t)
    <3>1. CASE t = s
      BY <1>2, <3>1
    <3>2. CASE t # s
      BY <1>1, <1>2, <3>2 DEF SweepsFit
    <3>3. QED
      BY <3>1, <3>2
  <2>2. QED
    BY <2>1 DEF SweepsFit
<1>5. FilesTyped'
  BY <1>1 DEF FilesTyped, TypeOK
<1>6. ~NeverSwept'
  <2>1. sweep'[s].at # "never"
    BY <1>2
  <2>2. Never.at = "never"
    BY DEF Never, Idle
  <2>3. QED
    BY <2>1, <2>2 DEF NeverSwept
<1>7. deleted' \subseteq Projects
  BY <1>1 DEF TypeOK
<1>8. QED
  BY <1>3, <1>4, <1>5, <1>6, <1>7, PartsMakeInvariant

\* A sweep that claims no more, of counters and blobs that stay, keeps them
\* covered.
LEMMA CoveredAsBefore ==
  ASSUME UInv, NEW s \in Sweepers, NEW r,
         sweep' = [sweep EXCEPT ![s] = r], UNCHANGED <<blob, fileBytes, deleted>>,
         \A p \in Projects : Claim(r, blob, s, p) \subseteq Claim(sweep[s], blob, s, p)
  PROVE  FilesCovered'
<1>1. ASSUME NEW p \in Projects
      PROVE  Settled(deleted', blob', p) \/ Covers(fileBytes'[p], sweep', blob', p)
  <2>1. CASE Settled(deleted, blob, p)
    BY <2>1
  <2>2. CASE Covers(fileBytes[p], sweep, blob, p)
    <3>1. ASSUME NEW t \in Sweepers
          PROVE  Claim(sweep'[t], blob, t, p) \subseteq Claim(sweep[t], blob, t, p)
      <4>1. sweep \in [Sweepers -> SweepRecord]
        BY SweepsTyped DEF UInv
      <4>2. sweep'[t] = IF t = s THEN r ELSE sweep[t]
        BY <4>1
      <4>3. QED
        BY <4>2
    <3>2. Debt(Claims(sweep', blob, p)) =< Debt(Claims(sweep, blob, p))
      BY <3>1, ClaimsShrink
    <3>3. fileBytes[p] \in Nat \cup {None}
      BY DEF UInv, TypeOK
    <3>4. /\ Debt(Claims(sweep', blob, p)) \in Nat /\ Debt(Claims(sweep, blob, p)) \in Nat
          /\ Counted(fileBytes[p]) \in Nat /\ Bytes(ActiveOf(blob, p)) \in Nat
      BY <3>3, NumbersOf
    <3>5. QED
      BY <2>2, <3>2, <3>4 DEF Covers
  <2>3. QED
    BY <2>1, <2>2 DEF UInv, FilesCovered
<1>2. QED
  BY <1>1 DEF FilesCovered

\* A sweep's step that changes no blob and no counter.
LEMMA SweepMovesOn ==
  ASSUME UInv, NEW s \in Sweepers, NEW r \in SweepRecord, r.at # "never",
         sweep' = [sweep EXCEPT ![s] = r], SweepFits(r, blob, deleted, s),
         UNCHANGED <<blob, links, rows, fileBytes, deleted, repair>>, reported' \subseteq Hashes,
         \A p \in Projects : Claim(r, blob, s, p) \subseteq Claim(sweep[s], blob, s, p)
  PROVE  UInv'
<1>1. FilesCovered'
  BY CoveredAsBefore
<1>2. fileBytes' \in [Projects -> Nat \cup {None}]
  BY DEF UInv, TypeOK
<1>3. QED
  BY <1>1, <1>2, SweepStep

\* It finds orphans: nothing of them can carry its mark.
LEMMA FindStep ==
  ASSUME UInv, NEW s \in Sweepers, NEW scope, SweepFind(s, scope)
  PROVE  UInv'
<1> DEFINE F == {b \in Orphans : ProjectOf(b) \in scope}
           r == [Idle EXCEPT !.at = "found", !.found = F]
<1>1. F \in SUBSET Blobs /\ \A b \in F : blob[b] = Active
  BY DEF Orphans, ActiveBlobs
<1>2. sweep' = [sweep EXCEPT ![s] = r] /\ UNCHANGED <<data, fileBytes, consumer, repair>>
  BY DEF SweepFind, Goto
<1> HIDE DEF F
<1>3. r \in SweepRecord /\ r.at = "found" /\ r.project = None /\ r.found = F
  <2>1. Idle \in SweepRecord
    BY DEF Idle, SweepRecord
  <2>2. QED
    BY <1>1, <2>1 DEF Idle, SweepRecord
<1> HIDE DEF r
<1>4. SweepFits(r, blob, deleted, s)
  BY <1>1, <1>3, MarkerAssumption DEF SweepFits, Paying
<1>5. \A p \in Projects : Claim(r, blob, s, p) \subseteq Claim(sweep[s], blob, s, p)
  BY <1>3 DEF Claim, Paying
<1>6. reported' \subseteq Hashes
  BY <1>2 DEF consumer, UInv, TypeOK
<1>7. QED
  BY <1>2, <1>3, <1>4, <1>5, <1>6, SweepMovesOn DEF data, consumer

\* It finds all that is active of a project that is gone.
LEMMA ProjectFindStep ==
  ASSUME UInv, NEW s \in Sweepers, NEW p \in Projects, ProjectFind(s, p)
  PROVE  UInv'
<1> DEFINE F == {b \in ActiveBlobs : ProjectOf(b) = p}
           r == [Idle EXCEPT !.at = "found", !.project = p, !.found = F]
<1>1. F \in SUBSET Blobs /\ (\A b \in F : blob[b] = Active) /\ ActiveOf(blob, p) \subseteq F
  BY OwnBlobs DEF ActiveBlobs, ActiveOf
<1>2. /\ sweep' = [sweep EXCEPT ![s] = r] /\ p \in deleted
      /\ UNCHANGED <<data, fileBytes, consumer, repair>>
  BY DEF ProjectFind, Goto
<1> HIDE DEF F
<1>3. r \in SweepRecord /\ r.at = "found" /\ r.project = p /\ r.found = F
  BY <1>1 DEF Idle, SweepRecord
<1> HIDE DEF r
<1>4. SweepFits(r, blob, deleted, s)
  BY <1>1, <1>2, <1>3, MarkerAssumption DEF SweepFits, Paying
<1>5. \A q \in Projects : Claim(r, blob, s, q) \subseteq Claim(sweep[s], blob, s, q)
  BY <1>3 DEF Claim, Paying
<1>6. reported' \subseteq Hashes
  BY <1>2 DEF consumer, UInv, TypeOK
<1>7. QED
  BY <1>2, <1>3, <1>4, <1>5, <1>6, SweepMovesOn DEF data, consumer

\* It reports, and is over.
LEMMA ReportStep ==
  ASSUME UInv, NEW s \in Sweepers, SweepReport(s)
  PROVE  UInv'
<1>1. /\ sweep' = [sweep EXCEPT ![s] = Idle] /\ UNCHANGED <<data, fileBytes, deleted, repair>>
      /\ reported' \subseteq reported \cup {HashOf(b) : b \in sweep[s].stamped}
  BY DEF SweepReport, Goto
<1>2. Idle \in SweepRecord /\ Idle.at = "idle" /\ Idle.project = None
  BY DEF Idle, SweepRecord
<1>3. sweep[s].stamped \in SUBSET Blobs /\ reported \subseteq Hashes
  BY DEF UInv, TypeOK
<1>4. {HashOf(b) : b \in sweep[s].stamped} \subseteq Hashes
  BY <1>3 DEF HashOf, Blobs
<1>5. reported' \subseteq Hashes
  BY <1>1, <1>3, <1>4
<1>6. SweepFits(Idle, blob, deleted, s)
  BY <1>2 DEF SweepFits, Paying
<1>7. \A q \in Projects : Claim(Idle, blob, s, q) \subseteq Claim(sweep[s], blob, s, q)
  BY <1>2 DEF Claim, Paying
<1>8. QED
  BY <1>1, <1>2, <1>5, <1>6, <1>7, SweepMovesOn DEF data

\* It reads what it stamped, of which it has claimed each project's part.
LEMMA ReadMarkedStep ==
  ASSUME UInv, NEW s \in Sweepers, SweepReadMarked(s)
  PROVE  UInv'
<1>1. /\ sweep[s] \in SweepRecord /\ SweepFits(sweep[s], blob, deleted, s)
      /\ reported \subseteq Hashes
  BY SweepsTyped DEF UInv, SweepsFit, TypeOK
<1> DEFINE D == {ProjectOf(b) : b \in Stamped(s)}
           a == IF sweep[s].project = None THEN "decrement" ELSE "drop"
           r == [sweep[s] EXCEPT !.at = a, !.found = {}, !.stamped = Stamped(s), !.due = D]
<1>2. /\ sweep[s].at = "marked" /\ UNCHANGED <<data, fileBytes, consumer, repair>>
      /\ sweep' = [sweep EXCEPT ![s] = IF Stamped(s) = {} THEN NothingStamped(s) ELSE r]
  BY DEF SweepReadMarked, Goto
<1>3. /\ Stamped(s) \in SUBSET Blobs
      /\ \A b \in Stamped(s) : b \in sweep[s].found /\ blob[b] = s
      /\ \A b \in sweep[s].found : blob[b] = s => b \in Stamped(s)
  BY <1>1 DEF Stamped, SweepRecord
<1>4. D \in SUBSET Projects /\ (Stamped(s) # {} => D # {})
  BY <1>3 DEF ProjectOf, Blobs
<1>5. a \in {"decrement", "drop"}
  OBVIOUS
<1>r. r = [sweep[s] EXCEPT !.at = a, !.found = {}, !.stamped = Stamped(s), !.due = D]
  OBVIOUS
<1> HIDE DEF D, a, r
<1>6. CASE Stamped(s) # {}
  <2>1. /\ r \in SweepRecord /\ r.at = a /\ r.project = sweep[s].project
        /\ r.found = {} /\ r.stamped = Stamped(s) /\ r.due = D
    BY <1>1, <1>3, <1>4, <1>5, <1>r DEF SweepRecord
  <2>2. sweep' = [sweep EXCEPT ![s] = r]
    BY <1>2, <1>6
  <2>3. SweepFits(r, blob, deleted, s)
    BY <1>1, <1>2, <1>4, <1>6, <2>1 DEF SweepFits, Paying, a
  <2>4. ASSUME NEW p \in Projects
        PROVE  Claim(r, blob, s, p) \subseteq Claim(sweep[s], blob, s, p)
    <3>1. r.at # "marked"
      BY <1>5, <2>1
    <3>2. r.at \in Paying => sweep[s].project = None
      BY <2>1 DEF Paying, a
    <3>3. QED
      BY <1>2, <1>3, <2>1, <3>1, <3>2 DEF Claim
  <2>5. QED
    BY <1>1, <1>2, <1>5, <2>1, <2>2, <2>3, <2>4, SweepMovesOn DEF data, consumer
<1>7. CASE Stamped(s) = {}
  <2> DEFINE n == NothingStamped(s)
  <2>1. sweep' = [sweep EXCEPT ![s] = n]
    BY <1>2, <1>7
  <2>2. /\ n \in SweepRecord /\ n.at \in {"idle", "drop"} /\ (n.at = "drop" => n.project # None)
        /\ n.project = sweep[s].project
    <3>1. CASE sweep[s].project = None
      <4>1. Idle \in SweepRecord /\ Idle.at = "idle" /\ Idle.project = None
        BY DEF Idle, SweepRecord
      <4>2. n = Idle
        BY <3>1 DEF NothingStamped
      <4> HIDE DEF n
      <4>3. QED
        BY <3>1, <4>1, <4>2
    <3>2. CASE sweep[s].project # None
      <4>1. n = [sweep[s] EXCEPT !.at = "drop"]
        BY <3>2 DEF NothingStamped
      <4> DEFINE next == [sweep[s] EXCEPT !.at = "drop"]
      <4>2. /\ next \in SweepRecord /\ next.at = "drop" /\ next.project = sweep[s].project
        BY <1>1, AtIs
      <4> HIDE DEF n, next
      <4>3. QED
        BY <3>2, <4>1, <4>2 DEF next
    <3>3. QED
      BY <3>1, <3>2
  <2> HIDE DEF n
  <2>3. SweepFits(n, blob, deleted, s)
    BY <1>1, <1>2, <2>2 DEF SweepFits, Paying
  <2>4. \A p \in Projects : Claim(n, blob, s, p) \subseteq Claim(sweep[s], blob, s, p)
    BY <2>2 DEF Claim, Paying
  <2>5. QED
    BY <1>1, <1>2, <2>1, <2>2, <2>3, <2>4, SweepMovesOn DEF data, consumer
<1>8. QED
  BY <1>6, <1>7

Stamping(B, F, s) == [b \in Blobs |-> IF b \in F /\ B[b] = Active THEN s ELSE B[b]]
Taken(B, F, p) == {b \in ActiveOf(B, p) : b \in F}

\* What a sweep stamps is no longer active, and is claimed by it alone.
LEMMA BytesAfterMark ==
  ASSUME NEW B, NEW s \in Sweepers, NEW F, NEW p \in Projects
  PROVE  /\ ActiveOf(Stamping(B, F, s), p) = ActiveOf(B, p) \ F
         /\ Bytes(ActiveOf(B, p)) = Bytes(ActiveOf(Stamping(B, F, s), p)) + Bytes(Taken(B, F, p))
         /\ Bytes(Taken(B, F, p)) \in Nat /\ Bytes(ActiveOf(Stamping(B, F, s), p)) \in Nat
         /\ \A b \in Own(p) : Stamping(B, F, s)[b] = s <=> b \in Taken(B, F, p) \/ B[b] = s
         /\ \A b \in Own(p), t \in Sweepers : t # s /\ Stamping(B, F, s)[b] = t => B[b] = t
<1> DEFINE C == Stamping(B, F, s)
           taken == Taken(B, F, p)
<1>1. \A b \in Own(p) : C[b] = IF b \in F /\ B[b] = Active THEN s ELSE B[b]
  BY OwnBlobs DEF Stamping
<1>2. \A b \in Own(p) : b \in taken <=> b \in F /\ B[b] = Active
  BY DEF ActiveOf, Taken
<1>3. taken \in SUBSET Own(p) /\ ActiveOf(B, p) \in SUBSET Own(p)
  BY DEF ActiveOf, Taken
<1> HIDE DEF C
<1>4. ActiveOf(C, p) = ActiveOf(B, p) \ F
  BY <1>1, MarkerAssumption DEF ActiveOf
<1>5. ActiveOf(C, p) \cup taken = ActiveOf(B, p) /\ ActiveOf(C, p) \cap taken = {}
  BY <1>4 DEF Taken
<1>6. ActiveOf(C, p) \in SUBSET Own(p)
  BY <1>4, <1>3
<1> HIDE DEF taken
<1>7. Bytes(ActiveOf(B, p)) = Bytes(ActiveOf(C, p)) + Bytes(taken)
  BY <1>3, <1>5, <1>6, BytesAdd
<1>8. Bytes(taken) \in Nat /\ Bytes(ActiveOf(C, p)) \in Nat
  BY <1>3, <1>6, BytesAreFinite
<1>9. \A b \in Own(p) : C[b] = s <=> b \in taken \/ B[b] = s
  BY <1>1, <1>2
<1>10. \A b \in Own(p), t \in Sweepers : t # s /\ C[b] = t => B[b] = t
  BY <1>1
<1>11. QED
  BY <1>4, <1>7, <1>8, <1>9, <1>10 DEF C, taken

\* It stamps what is still active of what it found: from active to claimed.
LEMMA MarkStep ==
  ASSUME UInv, NEW s \in Sweepers, SweepMark(s)
  PROVE  UInv'
<1> DEFINE F == sweep[s].found
           marked == F \cap ActiveBlobs
           r == IF marked = {} THEN NothingStamped(s) ELSE [sweep[s] EXCEPT !.at = "marked"]
<1>1. /\ TypeOK /\ sweep[s] \in SweepRecord /\ SweepFits(sweep[s], blob, deleted, s)
      /\ reported \subseteq Hashes /\ deleted \subseteq Projects
      /\ sweep \in [Sweepers -> SweepRecord] /\ SweepsFit /\ FilesCovered
  BY SweepsTyped DEF UInv, SweepsFit, TypeOK
<1>2. /\ sweep[s].at = "found" /\ sweep' = [sweep EXCEPT ![s] = r]
      /\ UNCHANGED <<links, rows, fileBytes, reported, deleted, restore, backfill>>
  BY DEF SweepMark, Goto, consumer, repair
<1>3. blob' = Stamping(blob, F, s)
  <2>1. \A b \in Blobs : b \in marked <=> b \in F /\ blob[b] = Active
    BY DEF ActiveBlobs
  <2>2. blob' = [b \in Blobs |-> IF b \in marked THEN s ELSE blob[b]]
    BY DEF SweepMark
  <2>3. QED
    BY <2>1, <2>2 DEF Stamping
<1>4. /\ r \in SweepRecord /\ r.at \in {"idle", "drop", "marked"} /\ (r.at = "drop" => r.project # None)
      /\ r.at # "idle" => r.project = sweep[s].project /\ r.found = F
      /\ r.at = "idle" => r.project = None
  <2>1. CASE marked # {}
    <3> DEFINE next == [sweep[s] EXCEPT !.at = "marked"]
    <3>1. /\ next \in SweepRecord /\ next.at = "marked" /\ next.project = sweep[s].project
          /\ next.found = F
      BY <1>1, AtIs
    <3>2. r = next
      BY <2>1
    <3> HIDE DEF r, next
    <3>3. QED
      BY <3>1, <3>2
  <2>2. CASE marked = {} /\ sweep[s].project = None
    <3>1. Idle \in SweepRecord /\ Idle.at = "idle" /\ Idle.project = None
      BY DEF Idle, SweepRecord
    <3>2. r = Idle
      BY <2>2 DEF NothingStamped
    <3> HIDE DEF r
    <3>3. QED
      BY <3>1, <3>2
  <2>3. CASE marked = {} /\ sweep[s].project # None
    <3> DEFINE next == [sweep[s] EXCEPT !.at = "drop"]
    <3>1. /\ next \in SweepRecord /\ next.at = "drop" /\ next.project = sweep[s].project
          /\ next.found = F
      BY <1>1, AtIs
    <3>2. r = next
      BY <2>3 DEF NothingStamped
    <3> HIDE DEF r, next
    <3>3. QED
      BY <2>3, <3>1, <3>2
  <2>4. QED
    BY <2>1, <2>2, <2>3
<1>5. marked = {} => \A p \in Projects : \A b \in ActiveOf(blob, p) : b \notin F
  BY OwnBlobs DEF ActiveOf, ActiveBlobs
<1>6. marked # {} => r.at = "marked"
  BY <1>1, AtIs
<1> HIDE DEF r, marked
<1>f. F = sweep[s].found
  OBVIOUS
<1> HIDE DEF F
<1>7. ASSUME NEW p \in Projects
      PROVE  /\ ActiveOf(blob', p) = ActiveOf(blob, p) \ F
             /\ \A b \in Own(p), t \in Sweepers : t # s /\ blob'[b] = t => blob[b] = t
  <2>1. /\ ActiveOf(Stamping(blob, F, s), p) = ActiveOf(blob, p) \ F
        /\ \A b \in Own(p), t \in Sweepers : t # s /\ Stamping(blob, F, s)[b] = t => blob[b] = t
    BY BytesAfterMark
  <2>2. QED
    BY <1>3, <2>1, Zenon
<1>8. FilesTyped'
  <2>1. blob' \in [Blobs -> {None, Active} \cup Marks]
    BY <1>1, <1>3 DEF TypeOK, Marks, Stamping
  <2>2. ASSUME NEW l \in links'
        PROVE  blob'[l[1]] # None /\ rows'[l[2]] # None
    <3>1. l[1] \in Blobs /\ blob[l[1]] # None /\ rows[l[2]] # None
      BY <1>1, <1>2 DEF TypeOK
    <3>2. QED
      BY <1>2, <1>3, <3>1, MarkerAssumption DEF Stamping
  <2>3. QED
    BY <1>1, <1>2, <2>1, <2>2 DEF FilesTyped, TypeOK
<1>9. SweepsFit'
  <2>1. ASSUME NEW t \in Sweepers, t # s
        PROVE  SweepFits(sweep[t], blob', deleted', t)
    <3>1. SweepFits(sweep[t], blob, deleted, t) /\ sweep[t] \in SweepRecord
      BY <1>1 DEF SweepsFit
    <3>2. sweep[t].found \subseteq Blobs /\ sweep[t].project \in Projects \cup {None}
      BY <3>1 DEF SweepRecord
    <3>3. sweep[t].at = "found" => \A b \in sweep[t].found : blob'[b] # t
      BY <1>3, <2>1, <3>1, <3>2 DEF SweepFits, Stamping
    <3>4. sweep[t].project # None => ActiveOf(blob', sweep[t].project) \subseteq ActiveOf(blob, sweep[t].project)
      BY <1>7, <3>2
    <3>5. QED
      BY <1>2, <3>1, <3>3, <3>4 DEF SweepFits
  <2>2. SweepFits(r, blob', deleted', s)
    <3>1. r.project # None =>
            /\ r.project \in deleted /\ r.project \in Projects
            /\ ActiveOf(blob, r.project) \subseteq F
      BY <1>1, <1>2, <1>4, <1>f DEF SweepFits
    <3>2. r.project # None => ActiveOf(blob', r.project) = {}
      BY <1>7, <3>1
    <3>3. QED
      BY <1>2, <1>4, <3>1, <3>2 DEF SweepFits, Paying
  <2>3. QED
    BY <1>1, <1>2, <2>1, <2>2 DEF SweepsFit
<1>10. FilesCovered'
  <2>1. ASSUME NEW p \in Projects
        PROVE  Settled(deleted', blob', p) \/ Covers(fileBytes'[p], sweep', blob', p)
    <3>1. CASE Settled(deleted, blob, p)
      BY <1>2, <1>7, <3>1 DEF Settled
    <3>2. CASE Covers(fileBytes[p], sweep, blob, p)
      <4> DEFINE taken == Taken(blob, F, p)
                 new == Claim(r, blob', s, p)
                 old == Claim(sweep[s], blob, s, p)
      <4>1. /\ Bytes(ActiveOf(blob, p)) = Bytes(ActiveOf(blob', p)) + Bytes(taken)
            /\ Bytes(taken) \in Nat /\ Bytes(ActiveOf(blob', p)) \in Nat
            /\ \A b \in Own(p) : blob'[b] = s <=> b \in taken \/ blob[b] = s
        <5>1. /\ Bytes(ActiveOf(blob, p))
                   = Bytes(ActiveOf(Stamping(blob, F, s), p)) + Bytes(taken)
              /\ Bytes(taken) \in Nat /\ Bytes(ActiveOf(Stamping(blob, F, s), p)) \in Nat
              /\ \A b \in Own(p) : Stamping(blob, F, s)[b] = s <=> b \in taken \/ blob[b] = s
          BY BytesAfterMark
        <5>2. QED
          BY <1>3, <5>1, Zenon
      <4>2. new \in SUBSET taken
        <5>1. ASSUME NEW b \in new
              PROVE  b \in taken
          <6>1. b \in Own(p) /\ r.at = "marked" /\ b \in r.found /\ blob'[b] = s
            BY <1>4 DEF Claim, Paying
          <6>2. b \in F /\ blob[b] # s
            BY <1>1, <1>2, <1>4, <1>f, <6>1 DEF SweepFits
          <6> HIDE DEF taken
          <6>3. QED
            BY <4>1, <6>1, <6>2
        <5>2. QED
          BY <5>1
      <4>3. taken \in SUBSET Own(p)
        BY DEF ActiveOf, Taken
      <4> HIDE DEF taken, new, old
      <4>4. Bytes(new) =< Bytes(taken)
        BY <4>2, <4>3, BytesGrow
      <4>5. ASSUME NEW t \in Sweepers, t # s
            PROVE  Claim(sweep'[t], blob', t, p) \subseteq Claim(sweep[t], blob, t, p)
        <5>1. sweep'[t] = sweep[t]
          BY <1>1, <1>2, <4>5
        <5>2. QED
          BY <1>7, <4>5, <5>1 DEF Claim
      <4>6. sweep'[s] = r
        BY <1>1, <1>2
      <4>7. /\ Bytes(old) \in Nat /\ Bytes(new) \in Nat
            /\ Debt(Claims(sweep', blob', p)) + Bytes(old) =< Debt(Claims(sweep, blob, p)) + Bytes(new)
        BY <4>5, <4>6, ClaimsMove DEF old, new
      <4>8. fileBytes[p] \in Nat \cup {None}
        BY <1>1 DEF TypeOK
      <4>9. /\ Debt(Claims(sweep', blob', p)) \in Nat /\ Debt(Claims(sweep, blob, p)) \in Nat
            /\ Counted(fileBytes[p]) \in Nat /\ Bytes(ActiveOf(blob, p)) \in Nat
        BY <4>8, NumbersOf
      <4>10. Counted(fileBytes[p]) >= Bytes(ActiveOf(blob, p)) + Debt(Claims(sweep, blob, p))
        BY <3>2 DEF Covers
      <4>11. Counted(fileBytes[p]) >= Bytes(ActiveOf(blob', p)) + Debt(Claims(sweep', blob', p))
        BY <4>1, <4>4, <4>7, <4>9, <4>10
      <4>12. QED
        BY <1>2, <4>11 DEF Covers
    <3>3. QED
      BY <1>1, <3>1, <3>2 DEF FilesCovered
  <2>2. QED
    BY <2>1 DEF FilesCovered
<1>11. ~NeverSwept'
  <2>1. sweep'[s].at # "never"
    BY <1>1, <1>2, <1>4
  <2>2. Never.at = "never"
    BY DEF Never, Idle
  <2>3. QED
    BY <2>1, <2>2 DEF NeverSwept
<1>12. sweep' \in [Sweepers -> SweepRecord]
  BY <1>1, <1>2, <1>4
<1>13. QED
  BY <1>1, <1>2, <1>8, <1>9, <1>10, <1>11, <1>12, PartsMakeInvariant DEF repair

\* A sweep's step that changes one project's counter and no blob.
LEMMA CounterStep ==
  ASSUME UInv, NEW s \in Sweepers, NEW r \in SweepRecord, NEW p \in Projects,
         NEW c \in Nat \cup {None}, r.at # "never",
         sweep' = [sweep EXCEPT ![s] = r], SweepFits(r, blob, deleted, s),
         fileBytes' = [fileBytes EXCEPT ![p] = c],
         UNCHANGED <<blob, links, rows, reported, deleted, repair>>,
         \A q \in Projects : Claim(r, blob, s, q) \subseteq Claim(sweep[s], blob, s, q),
         Settled(deleted, blob, p) \/ Covers(c, sweep', blob, p)
  PROVE  UInv'
<1>1. /\ fileBytes \in [Projects -> Nat \cup {None}] /\ reported \subseteq Hashes
      /\ sweep \in [Sweepers -> SweepRecord] /\ FilesCovered
  BY SweepsTyped DEF UInv, TypeOK
<1>2. ASSUME NEW q \in Projects
      PROVE  Settled(deleted', blob', q) \/ Covers(fileBytes'[q], sweep', blob', q)
  <2>1. CASE q = p
    BY <1>1, <2>1
  <2>2. CASE q # p /\ Settled(deleted, blob, q)
    BY <2>2
  <2>3. CASE q # p /\ Covers(fileBytes[q], sweep, blob, q)
    <3>1. ASSUME NEW t \in Sweepers
          PROVE  Claim(sweep'[t], blob, t, q) \subseteq Claim(sweep[t], blob, t, q)
      <4>1. sweep'[t] = IF t = s THEN r ELSE sweep[t]
        BY <1>1
      <4>2. QED
        BY <4>1
    <3>2. Debt(Claims(sweep', blob, q)) =< Debt(Claims(sweep, blob, q))
      BY <3>1, ClaimsShrink
    <3>3. fileBytes[q] \in Nat \cup {None} /\ fileBytes'[q] = fileBytes[q]
      BY <1>1, <2>3
    <3>4. /\ Debt(Claims(sweep', blob, q)) \in Nat /\ Debt(Claims(sweep, blob, q)) \in Nat
          /\ Counted(fileBytes[q]) \in Nat /\ Bytes(ActiveOf(blob, q)) \in Nat
      BY <3>3, NumbersOf
    <3>5. QED
      BY <2>3, <3>2, <3>3, <3>4 DEF Covers
  <2>4. QED
    BY <1>1, <2>1, <2>2, <2>3 DEF FilesCovered
<1>3. FilesCovered'
  BY <1>2 DEF FilesCovered
<1>4. fileBytes' \in [Projects -> Nat \cup {None}]
  BY <1>1
<1>5. QED
  BY <1>1, <1>3, <1>4, SweepStep

\* A project that is gone, and has nothing active, loses its counter.
LEMMA DropStep ==
  ASSUME UInv, NEW s \in Sweepers, DropCounter(s)
  PROVE  UInv'
<1> DEFINE r == [sweep[s] EXCEPT !.at = "report", !.due = {}]
           p == sweep[s].project
<1>1. /\ sweep[s] \in SweepRecord /\ SweepFits(sweep[s], blob, deleted, s)
  BY SweepsTyped DEF UInv, SweepsFit
<1>2. /\ sweep[s].at = "drop" /\ sweep' = [sweep EXCEPT ![s] = r]
      /\ fileBytes' = [fileBytes EXCEPT ![p] = None]
      /\ UNCHANGED <<blob, links, rows, reported, deleted, repair>>
  BY DEF DropCounter, Goto, data, consumer
<1>3. p \in Projects /\ Settled(deleted, blob, p)
  BY <1>1, <1>2 DEF SweepFits, Settled, SweepRecord
<1>4. r \in SweepRecord /\ r.at = "report" /\ r.project = p
  BY <1>1 DEF SweepRecord
<1>p. p = sweep[s].project
  OBVIOUS
<1> HIDE DEF r, p
<1>5. SweepFits(r, blob, deleted, s)
  BY <1>1, <1>4, <1>p DEF SweepFits, Paying
<1>6. \A q \in Projects : Claim(r, blob, s, q) \subseteq Claim(sweep[s], blob, s, q)
  BY <1>4 DEF Claim, Paying
<1>7. QED
  BY <1>2, <1>3, <1>4, <1>5, <1>6, CounterStep

\* What is due is what the sweep claims.
LEMMA DueIsClaimed ==
  ASSUME UInv, NEW s \in Sweepers, sweep[s].at \in Paying
  PROVE  /\ NextDue(s) \in Projects /\ NextDue(s) \in sweep[s].due
         /\ DueBytes(s) = Bytes(Claim(sweep[s], blob, s, NextDue(s))) /\ DueBytes(s) \in Nat
<1>1. sweep[s] \in SweepRecord /\ SweepFits(sweep[s], blob, deleted, s)
  BY SweepsTyped DEF UInv, SweepsFit
<1>2. sweep[s].due # {} /\ sweep[s].due \subseteq Projects /\ sweep[s].stamped \subseteq Blobs
  BY <1>1 DEF SweepFits, SweepRecord
<1>3. NextDue(s) \in sweep[s].due
  BY <1>2 DEF NextDue
<1>4. sweep[s].at # "marked"
  BY DEF Paying
<1> DEFINE p == NextDue(s)
           claimed == Claim(sweep[s], blob, s, p)
<1>5. claimed \in SUBSET Own(p)
  BY DEF Claim
<1>6. {b \in sweep[s].stamped : ProjectOf(b) = p} = claimed
  BY <1>2, <1>3, <1>4, OwnBlobs DEF Claim
<1>7. Bytes(claimed) \in Nat
  <2> HIDE DEF claimed
  <2>1. QED
    BY <1>5, BytesAreFinite
<1>8. QED
  BY <1>2, <1>3, <1>6, <1>7 DEF DueBytes

\* A project is paid for: its counter loses at most what the sweep claimed.
LEMMA PayStep ==
  ASSUME UInv, NEW s \in Sweepers, sweep[s].at \in Paying, NEW c \in Nat \cup {None},
         Counted(c) + DueBytes(s) >= Counted(fileBytes[NextDue(s)]),
         fileBytes' = [fileBytes EXCEPT ![NextDue(s)] = c],
         sweep' = [sweep EXCEPT ![s] = Paid(s)],
         UNCHANGED <<blob, links, rows, reported, deleted, repair>>
  PROVE  UInv'
<1> DEFINE p == NextDue(s)
           d == DueBytes(s)
           r == Paid(s)
           left == sweep[s].due \ {p}
           a == IF left = {} THEN "report" ELSE "decrement"
<1>1. /\ sweep[s] \in SweepRecord /\ SweepFits(sweep[s], blob, deleted, s)
      /\ sweep \in [Sweepers -> SweepRecord] /\ FilesCovered
      /\ fileBytes \in [Projects -> Nat \cup {None}]
  BY SweepsTyped DEF UInv, SweepsFit, TypeOK
<1>2. /\ p \in Projects /\ p \in sweep[s].due
      /\ d = Bytes(Claim(sweep[s], blob, s, p)) /\ d \in Nat
  BY DueIsClaimed
<1>3. /\ r \in SweepRecord /\ r.at = a /\ r.project = sweep[s].project
      /\ r.stamped = sweep[s].stamped /\ r.due = left
  <2>1. left \in SUBSET Projects /\ a \in {"decrement", "report"}
    BY <1>1 DEF SweepRecord
  <2> DEFINE next == [sweep[s] EXCEPT !.at = a, !.due = left]
  <2>2. r = next
    BY DEF Paid
  <2> HIDE DEF left, a, r
  <2>3. /\ next \in SweepRecord /\ next.at = a /\ next.project = sweep[s].project
        /\ next.stamped = sweep[s].stamped /\ next.due = left
    BY <1>1, <2>1 DEF SweepRecord
  <2>4. QED
    BY <2>2, <2>3
<1>4. r.at # "never"
  <2>1. a # "never"
    OBVIOUS
  <2> HIDE DEF a, r
  <2>2. QED
    BY <1>3, <2>1
<1>5. /\ fileBytes' = [fileBytes EXCEPT ![p] = c]
      /\ sweep' = [sweep EXCEPT ![s] = r]
      /\ Counted(c) + d >= Counted(fileBytes[p])
  OBVIOUS
<1>6. SweepFits(r, blob, deleted, s)
  <2>1. r.at \in {"report", "decrement"} /\ (r.at = "decrement" => r.due # {})
    BY <1>3
  <2> HIDE DEF r, a, left, p
  <2>2. QED
    BY <1>1, <1>3, <2>1 DEF SweepFits, Paying
<1>7. ASSUME NEW q \in Projects
      PROVE  /\ Claim(r, blob, s, q) \subseteq Claim(sweep[s], blob, s, q)
             /\ q = p => Claim(r, blob, s, q) = {}
  <2>1. r.at # "marked" /\ r.due = left /\ r.stamped = sweep[s].stamped
    BY <1>3
  <2>2. p \notin left /\ left \subseteq sweep[s].due
    OBVIOUS
  <2> HIDE DEF r, a, left, p
  <2>3. QED
    BY <2>1, <2>2 DEF Claim
<1> HIDE DEF p, d, r, left, a
<1>8. Settled(deleted, blob, p) \/ Covers(c, sweep', blob, p)
  <2>1. SUFFICES ASSUME Covers(fileBytes[p], sweep, blob, p)
                 PROVE  Covers(c, sweep', blob, p)
    BY <1>1, <1>2 DEF FilesCovered
  <2>2. ASSUME NEW t \in Sweepers, t # s
        PROVE  Claim(sweep'[t], blob, t, p) \subseteq Claim(sweep[t], blob, t, p)
    <3>1. sweep'[t] = sweep[t]
      BY <1>1, <1>5, <2>2
    <3>2. QED
      BY <3>1
  <2>3. sweep'[s] = r
    BY <1>1, <1>5
  <2>4. /\ Bytes(Claim(r, blob, s, p)) \in Nat
        /\ Debt(Claims(sweep', blob, p)) + Bytes(Claim(sweep[s], blob, s, p)) =<
             Debt(Claims(sweep, blob, p)) + Bytes(Claim(r, blob, s, p))
    BY <2>2, <2>3, ClaimsMove
  <2>5. Bytes(Claim(r, blob, s, p)) = 0
    BY <1>2, <1>7, NoBytes
  <2>6. fileBytes[p] \in Nat \cup {None}
    BY <1>1, <1>2
  <2>7. /\ Debt(Claims(sweep', blob, p)) \in Nat /\ Debt(Claims(sweep, blob, p)) \in Nat
        /\ Counted(fileBytes[p]) \in Nat /\ Counted(c) \in Nat
        /\ Bytes(ActiveOf(blob, p)) \in Nat
    BY <2>6, NumbersOf
  <2>8. Counted(fileBytes[p]) >= Bytes(ActiveOf(blob, p)) + Debt(Claims(sweep, blob, p))
    BY <2>1 DEF Covers
  <2>9. Counted(c) >= Bytes(ActiveOf(blob, p)) + Debt(Claims(sweep', blob, p))
    BY <1>2, <1>5, <2>4, <2>5, <2>7, <2>8
  <2>10. QED
    BY <2>9 DEF Covers
<1>9. \A q \in Projects : Claim(r, blob, s, q) \subseteq Claim(sweep[s], blob, s, q)
  BY <1>7
<1>10. r \in SweepRecord /\ p \in Projects
  BY <1>2, <1>3
<1>11. QED
  BY <1>5, <1>6, <1>8, <1>4, <1>9, <1>10, CounterStep

\* A decrement that did not fit changes nothing but where the sweep is.
LEMMA TryAgainStep ==
  ASSUME UInv, NEW s \in Sweepers, sweep[s].at \in Paying, NEW a \in {"reconcile", "retry", "clamp"},
         sweep' = [sweep EXCEPT ![s] = [sweep[s] EXCEPT !.at = a]],
         UNCHANGED <<blob, links, rows, fileBytes, reported, deleted, repair>>
  PROVE  UInv'
<1> DEFINE r == [sweep[s] EXCEPT !.at = a]
<1>1. /\ sweep[s] \in SweepRecord /\ SweepFits(sweep[s], blob, deleted, s)
      /\ reported \subseteq Hashes
  BY SweepsTyped DEF UInv, SweepsFit, TypeOK
<1>2. /\ r \in SweepRecord /\ r.at = a /\ r.project = sweep[s].project
      /\ r.stamped = sweep[s].stamped /\ r.due = sweep[s].due
  BY <1>1 DEF SweepRecord
<1>3. sweep' = [sweep EXCEPT ![s] = r] /\ reported' \subseteq Hashes
  BY <1>1
<1> HIDE DEF r
<1>4. SweepFits(r, blob, deleted, s)
  BY <1>1, <1>2 DEF SweepFits, Paying
<1>5. \A p \in Projects : Claim(r, blob, s, p) \subseteq Claim(sweep[s], blob, s, p)
  BY <1>2 DEF Claim, Paying
<1>6. QED
  BY <1>2, <1>3, <1>4, <1>5, SweepMovesOn

\* The guarded update, first and second attempt.
LEMMA DecrementStep ==
  ASSUME UInv, NEW s \in Sweepers, SweepDecrement(s)
  PROVE  UInv'
<1> DEFINE p == NextDue(s)
           fits == fileBytes[p] # None /\ fileBytes[p] >= DueBytes(s)
           c == IF fits THEN fileBytes[p] - DueBytes(s) ELSE fileBytes[p]
           a == IF sweep[s].at = "retry" THEN "clamp" ELSE "reconcile"
<1>1. /\ sweep[s].at \in {"decrement", "retry"}
      /\ fileBytes' = [fileBytes EXCEPT ![p] = c]
      /\ sweep' = [sweep EXCEPT ![s] = IF fits \/ DueBytes(s) = 0 THEN Paid(s)
                                       ELSE [sweep[s] EXCEPT !.at = a]]
      /\ UNCHANGED <<blob, links, rows, reported, deleted, repair>>
  BY DEF SweepDecrement, Goto, data, consumer
<1>2. sweep[s].at \in Paying
  BY <1>1 DEF Paying
<1>3. p \in Projects /\ DueBytes(s) \in Nat
  BY <1>2, DueIsClaimed
<1>4. fileBytes \in [Projects -> Nat \cup {None}] /\ fileBytes[p] \in Nat \cup {None}
  BY <1>3 DEF UInv, TypeOK
<1>p. p = NextDue(s)
  OBVIOUS
<1> HIDE DEF p
<1>5. CASE fits \/ DueBytes(s) = 0
  <2>1. c \in Nat \cup {None} /\ Counted(c) + DueBytes(s) >= Counted(fileBytes[p])
    BY <1>3, <1>4, <1>5, MarkerAssumption DEF Counted
  <2>2. sweep' = [sweep EXCEPT ![s] = Paid(s)]
    BY <1>1, <1>5
  <2> HIDE DEF c
  <2>3. QED
    BY <1>1, <1>2, <1>p, <2>1, <2>2, PayStep
<1>6. CASE ~(fits \/ DueBytes(s) = 0)
  <2>1. fileBytes' = fileBytes
    BY <1>1, <1>4, <1>6
  <2>2. sweep' = [sweep EXCEPT ![s] = [sweep[s] EXCEPT !.at = a]]
    BY <1>1, <1>6
  <2>3. a \in {"reconcile", "retry", "clamp"}
    OBVIOUS
  <2> HIDE DEF a
  <2>4. QED
    BY <1>1, <1>2, <2>1, <2>2, <2>3, TryAgainStep
<1>7. QED
  BY <1>5, <1>6

\* The reconciliation: a missing counter is created, and nothing was there to
\* cover; otherwise it is tried once more.
LEMMA ReconcileStep ==
  ASSUME UInv, NEW s \in Sweepers, SweepReconcile(s)
  PROVE  UInv'
<1>1. sweep[s].at = "reconcile" /\ UNCHANGED <<blob, links, rows, reported, deleted, repair>>
  BY DEF SweepReconcile, data, consumer
<1>2. sweep[s].at \in Paying
  BY <1>1 DEF Paying
<1>3. DueBytes(s) \in Nat
  BY <1>2, DueIsClaimed
<1>4. CASE fileBytes[NextDue(s)] = None
  <2>1. fileBytes' = [fileBytes EXCEPT ![NextDue(s)] = 0] /\ sweep' = [sweep EXCEPT ![s] = Paid(s)]
    BY <1>4 DEF SweepReconcile, Goto
  <2>2. Counted(0) + DueBytes(s) >= Counted(fileBytes[NextDue(s)])
    BY <1>3, <1>4 DEF Counted
  <2>3. QED
    BY <1>1, <1>2, <2>1, <2>2, PayStep
<1>5. CASE fileBytes[NextDue(s)] # None
  <2>1. UNCHANGED fileBytes /\ sweep' = [sweep EXCEPT ![s] = [sweep[s] EXCEPT !.at = "retry"]]
    BY <1>5 DEF SweepReconcile, Goto
  <2>2. QED
    BY <1>1, <1>2, <2>1, TryAgainStep
<1>6. QED
  BY <1>4, <1>5

\* The clamp takes off less than the sweep claimed.
LEMMA ClampStep ==
  ASSUME UInv, NEW s \in Sweepers, SweepClamp(s)
  PROVE  UInv'
<1> DEFINE p == NextDue(s)
           c == IF fileBytes[p] # None /\ fileBytes[p] < DueBytes(s) THEN 0 ELSE fileBytes[p]
<1>1. /\ sweep[s].at = "clamp" /\ sweep' = [sweep EXCEPT ![s] = Paid(s)]
      /\ fileBytes' = [fileBytes EXCEPT ![p] = c]
      /\ UNCHANGED <<blob, links, rows, reported, deleted, repair>>
  BY DEF SweepClamp, Goto, data, consumer
<1>2. sweep[s].at \in Paying
  BY <1>1 DEF Paying
<1>3. p \in Projects /\ DueBytes(s) \in Nat
  BY <1>2, DueIsClaimed
<1>4. fileBytes[p] \in Nat \cup {None}
  BY <1>3 DEF UInv, TypeOK
<1>p. p = NextDue(s)
  OBVIOUS
<1> HIDE DEF p
<1>5. c \in Nat \cup {None} /\ Counted(c) + DueBytes(s) >= Counted(fileBytes[p])
  BY <1>3, <1>4, MarkerAssumption DEF Counted
<1> HIDE DEF c
<1>6. QED
  BY <1>1, <1>2, <1>p, <1>5, PayStep

-----------------------------------------------------------------------------
(* The theorems. *)

\* No file has been written, and no sweep has begun.
LEMMA InitHolds == Init => UInv
<1> SUFFICES ASSUME Init PROVE UInv
  OBVIOUS
<1>1. \A s \in Sweepers : sweep[s] = Idle \/ sweep[s] = Never
  BY DEF Init
<1>2. /\ Idle \in SweepRecord /\ Idle.at = "idle" /\ Idle.project = None
      /\ Never \in SweepRecord /\ Never.at = "never" /\ Never.project = None
  BY DEF Never, Idle, SweepRecord
<1>3. sweep \in [Sweepers -> SweepRecord]
  BY <1>2 DEF Init
<1>4. /\ restore \in [at : {"idle", "read", "summed"}, project : Projects \cup {None},
                       current : Nat, expected : Nat]
      /\ backfill \in [at : {"idle", "scan", "find", "reactivate", "link"},
                        project : Projects \cup {None}, unread : SUBSET RowVersions,
                        plan : SUBSET (Hashes \X RowVersions), hash : Hashes \cup {None}]
  BY DEF Init, NotRestoring, NoBackfill
<1>5. TypeOK
  BY <1>3, <1>4 DEF Init, TypeOK, SweepRecord
<1>6. SweepsFit
  BY <1>1, <1>2 DEF SweepsFit, SweepFits, Paying
<1>7. ASSUME NEW p \in Projects
      PROVE  /\ Counted(fileBytes[p]) = 0 /\ Bytes(ActiveOf(blob, p)) = 0
             /\ Debt(Claims(sweep, blob, p)) = 0
  <2>1. ActiveOf(blob, p) = {}
    BY OwnBlobs, MarkerAssumption DEF Init, ActiveOf
  <2>2. \A s \in Sweepers : Claim(sweep[s], blob, s, p) = {}
    BY <1>1, <1>2 DEF Claim, Paying
  <2>3. \A s \in Sweepers : Claims(sweep, blob, p)[s] = {}
    BY <2>2, ClaimsAreDebts
  <2>4. \A s \in Sweepers : BytesOf(Claims(sweep, blob, p)[s]) = {}
    BY <2>3 DEF BytesOf
  <2>5. Owed(Claims(sweep, blob, p)) = {}
    BY <2>4 DEF Owed
  <2>6. Counted(fileBytes[p]) = 0
    BY DEF Init, Counted
  <2>7. QED
    BY <2>1, <2>5, <2>6, NoBytes, FS_EmptySet DEF Debt
<1>8. FilesCovered /\ Exact
  BY <1>7 DEF FilesCovered, Covers, Exact
<1>9. ReferencedIsActive
  BY DEF Init, ReferencedIsActive
<1>10. QED
  BY <1>5, <1>6, <1>8, <1>9 DEF UInv, UnsweptExact

\* Every step keeps the invariant.
LEMMA NextKeeps == UInv /\ [Next]_vars => UInv'
<1> SUFFICES ASSUME UInv, [Next]_vars PROVE UInv'
  OBVIOUS
<1>1. CASE Write
  <2>1. ASSUME NEW x \in RowVersions, RemoveRow(x) PROVE UInv'
    BY <2>1, RemoveRowStep
  <2>2. ASSUME NEW x \in RowVersions, Abandon(x) PROVE UInv'
    BY <2>2, RowsLeftStep
  <2>3. ASSUME NEW x \in RowVersions, NEW p \in Projects, NEW refs \in SUBSET Hashes,
               Register(x, p, refs)
        PROVE  UInv'
    BY <2>3, RegisterStep
  <2>4. ASSUME NEW S \in SUBSET RowVersions, RemoveTable(S) PROVE UInv'
    BY <2>4, RowsGoneStep
  <2>5. QED
    BY <1>1, <2>1, <2>2, <2>3, <2>4 DEF Write
<1>2. CASE DeleteOrphanRows
  BY <1>2, RowsGoneStep
<1>3. CASE Consume
  <2>1. ASSUME NEW p \in Projects, DeleteProject(p) PROVE UInv'
    BY <2>1, RowsLeftStep
  <2>2. QED
    BY <1>3, <2>1, PendingStep, ConfirmStep DEF Consume
<1>4. ASSUME NEW s \in Sweepers, Sweep(s)
      PROVE  UInv'
  <2>1. CASE SweepFind(s, Projects)
    BY <2>1, FindStep
  <2>2. ASSUME NEW p \in Projects, SweepFind(s, {p}) PROVE UInv'
    BY <2>2, FindStep
  <2>3. ASSUME NEW p \in Projects, ProjectFind(s, p) PROVE UInv'
    BY <2>3, ProjectFindStep
  <2>4. CASE SweepMark(s)
    BY <2>4, MarkStep
  <2>5. CASE SweepReadMarked(s)
    BY <2>5, ReadMarkedStep
  <2>6. CASE DropCounter(s)
    BY <2>6, DropStep
  <2>7. CASE SweepDecrement(s)
    BY <2>7, DecrementStep
  <2>8. CASE SweepReconcile(s)
    BY <2>8, ReconcileStep
  <2>9. CASE SweepClamp(s)
    BY <2>9, ClampStep
  <2>10. CASE SweepReport(s)
    BY <2>10, ReportStep
  <2>11. QED
    BY <1>4, <2>1, <2>2, <2>3, <2>4, <2>5, <2>6, <2>7, <2>8, <2>9, <2>10 DEF Sweep
<1>5. CASE UNCHANGED vars
  <2>1. /\ UNCHANGED <<blob, fileBytes, sweep, repair>>
        /\ reported' = reported /\ deleted' = deleted /\ rows' = rows /\ links' = links
    BY <1>5 DEF vars, repair
  <2>2. FilesTyped' /\ reported' \subseteq Hashes /\ deleted' \subseteq Projects
    BY <2>1 DEF UInv, TypeOK, FilesTyped
  <2>3. ReferencedIsActive => ReferencedIsActive'
    BY <2>1 DEF ReferencedIsActive
  <2>4. QED
    BY <2>1, <2>2, <2>3, RowsStep
<1>6. QED
  BY <1>1, <1>2, <1>3, <1>4, <1>5 DEF Next

\* The invariant always holds.
LEMMA FilesInvariant == Spec => []UInv
<1>1. QED
  BY InitHolds, NextKeeps, PTL DEF Spec

\* Every column keeps its type and no link dangles, whatever writes, sweeps and
\* the consumer do beside each other (FileBlob, its links, ProjectFileUsage).
THEOREM FilesTypeCorrect == Spec => []TypeOK
<1>1. UInv => TypeOK
  BY DEF UInv
<1>2. QED
  BY <1>1, FilesInvariant, PTL

\* A sweep of finalizeAcrossProjects takes off a counter only what its own
\* update stamped, so that however many overlap, and whatever is written or
\* confirmed between their statements, no counter falls below what is active.
THEOREM CountersCoverActive == Spec => []CounterCoversActive
<1>1. UInv => CounterCoversActive
  BY InvariantImplies
<1>2. QED
  BY <1>1, FilesInvariant, PTL

\* Where nothing calls the sweep, registration keeps each counter exact, and
\* each file a reachable row refers to linked and active.
THEOREM WritesKeepExact == Spec => []WritesKeepFilesExact
<1>1. UInv => WritesKeepFilesExact
  BY InvariantImplies
<1>2. QED
  BY <1>1, FilesInvariant, PTL
=============================================================================

-------------------------- MODULE RowHistoryProofs --------------------------
(***************************************************************************)
(* The history of a row, as pages of it are read, is complete: bisection   *)
(* and scan find the commits on the path to the root that changed the row, *)
(* and pages join up, for any number of branches, commits and versions.    *)
(***************************************************************************)
EXTENDS RowHistory, FiniteSetTheorems, SequenceTheorems, WellFoundedInduction, TLAPS

RowOf(r) == commits[r].row

Kinds == {"created", "renamed", "modified"}
Events == [revision : RevisionIds, row : RowRecord, introducedBy : SUBSET Kinds]

TypeOK ==
  /\ commits \in [RevisionIds -> CommitRecord \cup {None}]
  /\ draftSequence \in [Branches -> Nat \cup {None}]
  /\ lastSequence \in Nat
  /\ reader \in [tip : RevisionIds \cup {None}, got : Seq(Events),
                 at : {"reading", "done", "refused"}]

\* Every commit but the root's first follows an older one: the one before it in its
\* branch or, as the branch's first, one of another branch, whose row it has.
AncestryHolds ==
  /\ commits[1] # None /\ commits[1].branch = RootBranch /\ ParentOf(1) = None
  /\ \A r \in RevisionIds : commits[r] # None =>
       LET p == ParentOf(r)
           own == CommitsOf(commits[r].branch)
       IN  /\ p = None => r = 1
           /\ p # None => p \in RevisionIds /\ p < r /\ commits[p] # None
           /\ commits[r].isStart => \A q \in own : r <= q
           /\ commits[r].isStart /\ p # None => p \notin own /\ RowOf(r) = RowOf(p)
           /\ ~commits[r].isStart => p \in own /\ \A q \in own : q < r => q <= p

\* A branch has a draft, ahead of its commits and under a sequence of its own.
DraftsAreAhead ==
  /\ \A b \in Branches : BranchExists(b) <=> draftSequence[b] # None
  /\ \A r \in RevisionIds : commits[r] # None => r <= lastSequence
  /\ \A b \in Branches : draftSequence[b] # None =>
       /\ draftSequence[b] <= lastSequence
       /\ draftSequence[b] \in RevisionIds => commits[draftSequence[b]] = None
       /\ \A r \in CommitsOf(b) : r < draftSequence[b]
       /\ \A c \in Branches \ {b} : draftSequence[c] # draftSequence[b]

\* The version of a commit is not its parent's.
Introduces(r) ==
  HasRow(r) /\ (ParentOf(r) = None \/ RowOf(ParentOf(r)) # RowOf(r))

\* A version is one state of the row, and is linked from the commit that introduced
\* it on; so is any version from the commit that created the row on.
VersionsHold ==
  /\ \A r, q \in RevisionIds :
       HasRow(r) /\ HasRow(q) /\ RowOf(r).versionId = RowOf(q).versionId => RowOf(r) = RowOf(q)
  /\ \A r, q \in RevisionIds :
       Introduces(r) /\ HasRow(q) =>
         /\ RowOf(q).versionId = RowOf(r).versionId => r <= q
         /\ ParentOf(r) = None \/ ~HasRow(ParentOf(r)) => r <= q

\* A client's revision is no draft's, and none that is yet to come.
ReaderFits ==
  /\ reader.tip = None => reader = NoReader
  /\ reader.tip # None =>
       reader.tip <= lastSequence /\ \A b \in Branches : draftSequence[b] # reader.tip

\* The inductive invariant.
StoreInv == TypeOK /\ AncestryHolds /\ DraftsAreAhead /\ VersionsHold
IInv == StoreInv /\ ReaderFits /\ HistoryIsComplete /\ PagesJoinUp

-----------------------------------------------------------------------------
(* Numbers. *)

\* A set of numbers has a least one.
LEMMA LeastNumber ==
  ASSUME NEW S \in SUBSET Nat, S # {}
  PROVE  \E n \in S : \A k \in S : n <= k
<1>1. \E n \in S : \A k \in S : ~(<<k, n>> \in OpToRel(<, Nat))
  BY NatLessThanWellFounded, WFMin
<1>2. \A k, l \in Nat : k < l => <<k, l>> \in OpToRel(<, Nat)
  BY DEF OpToRel
<1>3. \E n \in S : \A k \in S : ~(k < n)
  BY <1>1, <1>2, Zenon
<1> QED
  BY <1>3

\* So the revisions of a set have a first and a last.
LEMMA FirstAndLast ==
  ASSUME NEW S \in SUBSET RevisionIds, S # {}
  PROVE  /\ Min(S) \in S /\ \A q \in S : Min(S) <= q
         /\ Max(S) \in S /\ \A q \in S : q <= Max(S)
<1>1. S \subseteq Nat /\ MaxSequence \in Nat
  BY BoundsAssumption DEF RevisionIds
<1>2. \E n \in S : \A k \in S : n <= k
  BY <1>1, LeastNumber
<1>3. \E n \in S : \A k \in S : n >= k
  <2> DEFINE T == {MaxSequence - k : k \in S}
  <2>1. T \in SUBSET Nat /\ T # {}
    <3>1. \A k \in S : MaxSequence - k \in Nat
      BY <1>1 DEF RevisionIds
    <3> QED
      BY <3>1
  <2>2. PICK m \in T : \A l \in T : m <= l
    BY <2>1, LeastNumber
  <2>3. PICK n \in S : m = MaxSequence - n
    BY <2>2
  <2>4. \A k \in S : m <= MaxSequence - k
    BY <2>2
  <2> QED
    BY <1>1, <2>3, <2>4
<1>4. Min(S) \in S /\ \A q \in S : Min(S) <= q
  BY <1>2, Zenon DEF Min
<1>5. Max(S) \in S /\ \A q \in S : Max(S) >= q
  BY <1>3, Zenon DEF Max
<1> QED
  BY <1>1, <1>4, <1>5

-----------------------------------------------------------------------------
(* Recursion. *)

\* f has for each d what is its own, and what it has for the next after it.
Collects(f, D, S, own, next) ==
  /\ f \in [D -> SUBSET S]
  /\ \A d \in D : f[d] = own[d] \cup UNION {f[e] : e \in next[d]}

\* Sets that are collected along any relation exist.
LEMMA Collected ==
  ASSUME NEW D, NEW S, NEW own, NEW next,
         \A d \in D : own[d] \subseteq S /\ next[d] \subseteq D
  PROVE  \E f : Collects(f, D, S, own, next)
<1> DEFINE Closed(g) == \A d \in D : own[d] \subseteq g[d] /\ \A e \in next[d] : g[e] \subseteq g[d]
           f == [d \in D |-> {s \in S : \A g \in [D -> SUBSET S] : Closed(g) => s \in g[d]}]
           h == [d \in D |-> own[d] \cup UNION {f[e] : e \in next[d]}]
<1>1. f \in [D -> SUBSET S] /\ h \in [D -> SUBSET S]
  <2>1. f \in [D -> SUBSET S]
    OBVIOUS
  <2>2. \A d \in D : own[d] \cup UNION {f[e] : e \in next[d]} \subseteq S
    <3> HIDE DEF f
    <3> QED
      BY <2>1
  <2> HIDE DEF f
  <2> QED
    BY <2>1, <2>2
<1>2. \A d \in D : h[d] = own[d] \cup UNION {f[e] : e \in next[d]}
  <2> HIDE DEF f
  <2> QED
    OBVIOUS
<1>3. \A d \in D : h[d] \subseteq f[d]
  <2> SUFFICES ASSUME NEW d \in D, NEW s \in h[d],
                      NEW g \in [D -> SUBSET S], Closed(g)
               PROVE  s \in g[d]
    BY <1>1
  <2>1. CASE s \in own[d]
    BY <2>1
  <2>2. CASE \E e \in next[d] : s \in f[e]
    BY <2>2
  <2>3. s \in own[d] \/ \E e \in next[d] : s \in f[e]
    <3> HIDE DEF f, h
    <3> QED
      BY <1>2
  <2> QED
    BY <2>1, <2>2, <2>3
<1>4. Closed(h)
  <2> HIDE DEF f
  <2>1. ASSUME NEW d \in D, NEW e \in next[d]
        PROVE  h[e] \subseteq h[d]
    <3>0. h[d] = own[d] \cup UNION {f[x] : x \in next[d]} /\ e \in next[d]
      <4> HIDE DEF h
      <4> QED
        BY <1>2, <2>1
    <3>1. f[e] \subseteq h[d]
      <4> HIDE DEF h
      <4> QED
        BY <3>0
    <3>2. h[e] \subseteq f[e]
      BY <1>3
    <3> QED
      BY <3>1, <3>2
  <2> QED
    BY <2>1
<1>5. \A d \in D : f[d] \subseteq h[d]
  <2> SUFFICES ASSUME NEW d \in D, NEW s \in f[d]
               PROVE  s \in h[d]
    OBVIOUS
  <2>1. \A g \in [D -> SUBSET S] : Closed(g) => s \in g[d]
    OBVIOUS
  <2> HIDE DEF f, Closed
  <2> HIDE DEF h
  <2> QED
    BY <1>1, <1>4, <2>1
<1>6. \A d \in D : f[d] = own[d] \cup UNION {f[e] : e \in next[d]}
  <2> HIDE DEF f, h
  <2> QED
    BY <1>3, <1>5, <1>2
<1>7. Collects(f, D, S, own, next)
  <2> HIDE DEF f
  <2> QED
    BY <1>1, <1>6 DEF Collects
<1> QED
  BY <1>7

-----------------------------------------------------------------------------
(* Commits and their branches. *)

\* The fields of a commit and of a row.
LEMMA CommitIs ==
  ASSUME TypeOK, NEW r \in RevisionIds, commits[r] # None
  PROVE  /\ commits[r] \in CommitRecord
         /\ commits[r].branch \in Branches
         /\ ParentOf(r) = commits[r].parent /\ ParentOf(r) \in RevisionIds \cup {None}
         /\ commits[r].isStart \in BOOLEAN
         /\ RowOf(r) \in RowRecord \cup {None}
         /\ r \in CommitsOf(commits[r].branch)
BY DEF TypeOK, CommitRecord, ParentOf, RowOf, CommitsOf

\* The row of a commit that has it.
LEMMA RowIs ==
  ASSUME TypeOK, NEW r \in RevisionIds, HasRow(r)
  PROVE  /\ commits[r] # None /\ RowOf(r) # None /\ RowOf(r) \in RowRecord
         /\ RowOf(r).versionId \in RowVersions /\ RowOf(r).versionId # None
BY CommitIs, NoneAssumption DEF HasRow, RowOf, RowRecord

\* No record's absence is a revision.
LEMMA NoneIsNoRevision == None \notin RevisionIds /\ None \notin Nat
BY NoneAssumption, BoundsAssumption DEF RevisionIds

\* What a commit follows.
LEMMA ParentIs ==
  ASSUME StoreInv, NEW r \in RevisionIds, commits[r] # None, ParentOf(r) # None
  PROVE  /\ ParentOf(r) \in RevisionIds /\ ParentOf(r) < r /\ commits[ParentOf(r)] # None
         /\ commits[r].isStart => RowOf(ParentOf(r)) = RowOf(r)
         /\ commits[r].isStart <=> commits[ParentOf(r)].branch # commits[r].branch
BY CommitIs DEF StoreInv, AncestryHolds, CommitsOf

\* A branch begins with its start.
LEMMA StartIs ==
  ASSUME StoreInv, NEW r \in RevisionIds, commits[r] # None
  PROVE  LET b == commits[r].branch
             s == StartOf(b)
         IN  /\ s \in RevisionIds /\ s \in CommitsOf(b) /\ commits[s] # None
             /\ commits[s].branch = b /\ commits[s].isStart
             /\ \A q \in CommitsOf(b) : s <= q
<1> DEFINE b == commits[r].branch
           own == CommitsOf(b)
<1>1. r \in own /\ own \in SUBSET RevisionIds
  BY CommitIs DEF StoreInv, CommitsOf
<1>2. Min(own) \in own /\ \A q \in own : Min(own) <= q
  BY <1>1, FirstAndLast
<1>3. Min(own) \in RevisionIds /\ commits[Min(own)] # None /\ commits[Min(own)].branch = b
  BY <1>1, <1>2 DEF CommitsOf
<1>4. commits[Min(own)].isStart
  <2> SUFFICES ASSUME ~commits[Min(own)].isStart
               PROVE  FALSE
    OBVIOUS
  <2>1. ParentOf(Min(own)) \in own
    BY <1>3 DEF StoreInv, AncestryHolds
  <2>2. ParentOf(Min(own)) # None
    BY <1>1, <2>1, NoneIsNoRevision
  <2>3. ParentOf(Min(own)) < Min(own)
    BY <1>3, <2>2, ParentIs
  <2>4. Min(own) <= ParentOf(Min(own))
    BY <1>2, <2>1
  <2> QED
    BY <1>1, <1>3, <2>1, <2>3, <2>4, BoundsAssumption DEF RevisionIds
<1>5. {q \in own : commits[q].isStart} \in SUBSET RevisionIds /\ {q \in own : commits[q].isStart} # {}
  BY <1>1, <1>2, <1>4
<1>6. /\ StartOf(b) \in {q \in own : commits[q].isStart}
      /\ \A q \in {x \in own : commits[x].isStart} : StartOf(b) <= q
  BY <1>5, FirstAndLast DEF StartOf
<1>7. StartOf(b) \in own /\ commits[StartOf(b)].isStart /\ StartOf(b) <= Min(own)
  BY <1>2, <1>4, <1>6
<1>8. \A q \in own : StartOf(b) <= q
  BY <1>1, <1>2, <1>7, BoundsAssumption DEF RevisionIds
<1> QED
  BY <1>1, <1>7, <1>8 DEF CommitsOf

\* The start of a branch is the commit that has it as its own.
LEMMA StartOfStart ==
  ASSUME StoreInv, NEW r \in RevisionIds, commits[r] # None
  PROVE  /\ commits[r].isStart <=> StartOf(commits[r].branch) = r
         /\ StartOf(commits[r].branch) <= r
<1> DEFINE s == StartOf(commits[r].branch)
<1>1. /\ s \in RevisionIds /\ s \in CommitsOf(commits[r].branch) /\ commits[s].isStart
      /\ r \in CommitsOf(commits[r].branch) /\ s <= r
  BY StartIs, CommitIs DEF StoreInv
<1>2. commits[r].isStart => r <= s
  BY <1>1 DEF StoreInv, AncestryHolds
<1> QED
  BY <1>1, <1>2, BoundsAssumption DEF RevisionIds

-----------------------------------------------------------------------------
(* The path to the root. *)

\* The path is what its definition says.
LEMMA PathIs ==
  ASSUME StoreInv, NEW tip \in RevisionIds
  PROVE  Path[tip] = {tip} \cup IF ParentOf(tip) = None THEN {} ELSE Path[ParentOf(tip)]
<1> DEFINE own == [r \in RevisionIds |-> {r}]
           next == [r \in RevisionIds |-> IF ParentOf(r) = None THEN {} ELSE {ParentOf(r)}]
<1>1. ASSUME NEW r \in RevisionIds
      PROVE  own[r] \subseteq RevisionIds /\ next[r] \subseteq RevisionIds
  BY ParentIs DEF ParentOf
<1>2. \A r \in RevisionIds : own[r] \subseteq RevisionIds /\ next[r] \subseteq RevisionIds
  BY <1>1
<1>3. PICK f : Collects(f, RevisionIds, RevisionIds, own, next)
  <2> HIDE DEF own, next
  <2> QED
    BY <1>2, Collected
<1>4. ASSUME NEW r \in RevisionIds
      PROVE  f[r] = {r} \cup IF ParentOf(r) = None THEN {} ELSE f[ParentOf(r)]
  <2>1. f[r] = {r} \cup UNION {f[e] : e \in IF ParentOf(r) = None THEN {} ELSE {ParentOf(r)}}
    BY <1>3 DEF Collects
  <2> QED
    BY <2>1
<1>5. f = [r \in RevisionIds |->
             {r} \cup IF ParentOf(r) = None THEN {} ELSE f[ParentOf(r)]]
  BY <1>3, <1>4 DEF Collects
<1>6. Path = [r \in RevisionIds |->
                {r} \cup IF ParentOf(r) = None THEN {} ELSE Path[ParentOf(r)]]
  BY <1>5, Zenon DEF Path
<1> QED
  BY <1>6

\* It leads from a commit to older ones.
LEMMA PathIsOlder ==
  ASSUME StoreInv, NEW tip \in RevisionIds, commits[tip] # None
  PROVE  /\ tip \in Path[tip]
         /\ \A q \in Path[tip] : q \in RevisionIds /\ q <= tip /\ commits[q] # None
<1> DEFINE Good(t) == \A q \in Path[t] : q \in RevisionIds /\ q <= t /\ commits[q] # None
           bad == {t \in RevisionIds : commits[t] # None /\ ~Good(t)}
<1>1. bad = {}
  <2> SUFFICES ASSUME bad # {}
               PROVE  FALSE
    OBVIOUS
  <2>1. PICK t \in bad : \A u \in bad : t <= u
    <3>1. bad \in SUBSET Nat
      BY BoundsAssumption DEF RevisionIds
    <3> HIDE DEF bad
    <3> QED
      BY <3>1, LeastNumber
  <2>2. t \in RevisionIds /\ t \in Nat /\ commits[t] # None
    BY <2>1, BoundsAssumption DEF RevisionIds
  <2>3. CASE ParentOf(t) = None
    <3>1. Path[t] = {t}
      BY <2>2, <2>3, PathIs
    <3> QED
      BY <2>1, <2>2, <3>1
  <2>4. CASE ParentOf(t) # None
    <3>1. Path[t] = {t} \cup Path[ParentOf(t)]
      BY <2>2, <2>4, PathIs
    <3>2. ParentOf(t) \in RevisionIds /\ ParentOf(t) < t /\ commits[ParentOf(t)] # None
      BY <2>2, <2>4, ParentIs
    <3>3. ParentOf(t) \in Nat
      BY <3>2, BoundsAssumption DEF RevisionIds
    <3>4. Good(ParentOf(t))
      BY <2>1, <2>2, <3>2, <3>3
    <3>5. ASSUME NEW q \in Path[t]
          PROVE  q \in RevisionIds /\ q <= t /\ commits[q] # None
      <4>1. q \in RevisionIds => q \in Nat
        BY BoundsAssumption DEF RevisionIds
      <4> QED
        BY <2>2, <3>1, <3>2, <3>3, <3>4, <3>5, <4>1
    <3> QED
      BY <2>1, <3>5
  <2> QED
    BY <2>3, <2>4
<1>2. tip \in Path[tip]
  BY PathIs
<1> QED
  BY <1>1, <1>2

\* From a commit on the path it goes on as that commit's own path.
LEMMA PathGoesOn ==
  ASSUME StoreInv, NEW tip \in RevisionIds, commits[tip] # None, NEW q \in Path[tip]
  PROVE  Path[q] = {x \in Path[tip] : x <= q}
<1> DEFINE Good(t) == \A u \in Path[t] : Path[u] = {x \in Path[t] : x <= u}
           bad == {t \in RevisionIds : commits[t] # None /\ ~Good(t)}
<1>1. bad = {}
  <2> SUFFICES ASSUME bad # {}
               PROVE  FALSE
    OBVIOUS
  <2>1. PICK t \in bad : \A u \in bad : t <= u
    <3>1. bad \in SUBSET Nat
      BY BoundsAssumption DEF RevisionIds
    <3> HIDE DEF bad
    <3> QED
      BY <3>1, LeastNumber
  <2>2. t \in RevisionIds /\ t \in Nat /\ commits[t] # None
    BY <2>1, BoundsAssumption DEF RevisionIds
  <2>3. \A x \in Path[t] : x <= t
    BY <2>2, PathIsOlder
  <2>4. CASE ParentOf(t) = None
    <3>1. Path[t] = {t}
      BY <2>2, <2>4, PathIs
    <3> QED
      BY <2>1, <2>3, <3>1
  <2>5. CASE ParentOf(t) # None
    <3> DEFINE p == ParentOf(t)
    <3>1. Path[t] = {t} \cup Path[p]
      BY <2>2, <2>5, PathIs
    <3>2. p \in RevisionIds /\ p < t /\ commits[p] # None
      BY <2>2, <2>5, ParentIs
    <3>3. p \in Nat
      BY <3>2, BoundsAssumption DEF RevisionIds
    <3>4. Good(p)
      BY <2>1, <2>2, <3>2, <3>3
    <3>5. \A u \in Path[p] : u \in Nat /\ u <= p
      BY <3>2, PathIsOlder, BoundsAssumption DEF RevisionIds
    <3> HIDE DEF p
    <3>6. ASSUME NEW u \in Path[t]
          PROVE  Path[u] = {x \in Path[t] : x <= u}
      <4>1. CASE u = t
        BY <2>3, <4>1
      <4>2. CASE u \in Path[p]
        <5>1. Path[u] = {x \in Path[p] : x <= u}
          BY <3>4, <4>2
        <5>2. ~(t <= u)
          BY <2>2, <3>2, <3>3, <3>5, <4>2
        <5> QED
          BY <3>1, <5>1, <5>2
      <4> QED
        BY <3>1, <4>1, <4>2
    <3> QED
      BY <2>1, <3>6
  <2> QED
    BY <2>4, <2>5
<1> QED
  BY <1>1

\* The path goes through a branch to its start, and on where it was forked.
LEMMA PathByBranch ==
  ASSUME StoreInv, NEW tip \in RevisionIds, commits[tip] # None
  PROVE  LET b == commits[tip].branch
             source == ParentOf(StartOf(b))
         IN  Path[tip] = {q \in CommitsOf(b) : q <= tip}
                           \cup IF source = None THEN {} ELSE Path[source]
<1> DEFINE After(b) == IF ParentOf(StartOf(b)) = None THEN {} ELSE Path[ParentOf(StartOf(b))]
           Good(t) == Path[t] = {q \in CommitsOf(commits[t].branch) : q <= t}
                                  \cup After(commits[t].branch)
           bad == {t \in RevisionIds : commits[t] # None /\ ~Good(t)}
<1>1. bad = {}
  <2> SUFFICES ASSUME bad # {}
               PROVE  FALSE
    OBVIOUS
  <2>1. PICK t \in bad : \A u \in bad : t <= u
    <3>1. bad \in SUBSET Nat
      BY BoundsAssumption DEF RevisionIds
    <3> HIDE DEF bad
    <3> QED
      BY <3>1, LeastNumber
  <2>2. t \in RevisionIds /\ t \in Nat /\ commits[t] # None
    BY <2>1, BoundsAssumption DEF RevisionIds
  <2> DEFINE b == commits[t].branch
  <2>3. t \in CommitsOf(b) /\ \A q \in CommitsOf(b) : q \in Nat
    BY <2>2, BoundsAssumption DEF CommitsOf, RevisionIds
  <2>4. CASE commits[t].isStart
    <3>1. StartOf(b) = t
      BY <2>2, <2>4, StartOfStart
    <3>2. \A q \in CommitsOf(b) : q <= t => q = t
      BY <2>2, <2>3, <2>4 DEF StoreInv, AncestryHolds
    <3>3. {q \in CommitsOf(b) : q <= t} = {t}
      BY <2>2, <2>3, <3>2
    <3>4. Path[t] = {t} \cup After(b)
      BY <2>2, <3>1, PathIs
    <3> QED
      BY <2>1, <3>3, <3>4
  <2>5. CASE ~commits[t].isStart
    <3> DEFINE p == ParentOf(t)
    <3>1. p \in CommitsOf(b) /\ \A q \in CommitsOf(b) : q < t => q <= p
      BY <2>2, <2>5 DEF StoreInv, AncestryHolds
    <3>2. p # None /\ p \in RevisionIds /\ p \in Nat /\ commits[p] # None /\ commits[p].branch = b
      BY <2>3, <3>1, NoneIsNoRevision DEF CommitsOf
    <3>3. p < t
      BY <2>2, <3>2, ParentIs
    <3>4. Path[t] = {t} \cup Path[p]
      BY <2>2, <3>2, PathIs
    <3>5. Good(p)
      BY <2>1, <2>2, <3>2, <3>3
    <3> HIDE DEF p
    <3>6. {q \in CommitsOf(b) : q <= t} = {t} \cup {q \in CommitsOf(b) : q <= p}
      BY <2>2, <2>3, <3>1, <3>2, <3>3
    <3> HIDE DEF After
    <3>7. Good(t)
      BY <3>2, <3>4, <3>5, <3>6
    <3> QED
      BY <2>1, <3>7
  <2> QED
    BY <2>4, <2>5
<1> QED
  BY <1>1

-----------------------------------------------------------------------------
(* The ancestry, branch by branch. *)

\* The ancestry is what its definition says.
LEMMA LineageIs ==
  ASSUME StoreInv, NEW tip \in RevisionIds, commits[tip] # None
  PROVE  LET b == commits[tip].branch
             source == ParentOf(StartOf(b))
         IN  Lineage[tip] = {[branch |-> b, lo |-> StartOf(b), hi |-> tip]}
                              \cup IF source = None THEN {} ELSE Lineage[source]
<1> DEFINE b(r) == commits[r].branch
           source(r) == ParentOf(StartOf(b(r)))
           interval(r) == [branch |-> b(r), lo |-> StartOf(b(r)), hi |-> r]
           own == [r \in RevisionIds |-> IF commits[r] = None THEN {} ELSE {interval(r)}]
           next == [r \in RevisionIds |->
                      IF commits[r] = None \/ source(r) = None THEN {} ELSE {source(r)}]
<1>1. ASSUME NEW r \in RevisionIds
      PROVE  own[r] \subseteq Intervals /\ next[r] \subseteq RevisionIds
  <2>1. CASE commits[r] = None
    BY <2>1
  <2>2. CASE commits[r] # None
    <3>1. b(r) \in Branches /\ StartOf(b(r)) \in RevisionIds /\ commits[StartOf(b(r))] # None
      BY <2>2, StartIs, CommitIs DEF StoreInv
    <3>2. interval(r) \in Intervals
      BY <3>1 DEF Intervals
    <3>3. source(r) # None => source(r) \in RevisionIds
      BY <3>1, ParentIs
    <3> QED
      BY <2>2, <3>2, <3>3
  <2> QED
    BY <2>1, <2>2
<1>2. \A r \in RevisionIds : own[r] \subseteq Intervals /\ next[r] \subseteq RevisionIds
  BY <1>1
<1>3. PICK f : Collects(f, RevisionIds, Intervals, own, next)
  <2> HIDE DEF own, next
  <2> QED
    BY <1>2, Collected
<1>4. ASSUME NEW r \in RevisionIds
      PROVE  f[r] = IF commits[r] = None THEN {}
                    ELSE {interval(r)} \cup IF source(r) = None THEN {} ELSE f[source(r)]
  <2> HIDE DEF interval, source
  <2>1. f[r] = own[r] \cup UNION {f[e] : e \in next[r]}
    <3> HIDE DEF own, next
    <3> QED
      BY <1>3 DEF Collects
  <2>2. own[r] = IF commits[r] = None THEN {} ELSE {interval(r)}
    OBVIOUS
  <2>3. next[r] = IF commits[r] = None \/ source(r) = None THEN {} ELSE {source(r)}
    OBVIOUS
  <2> HIDE DEF own, next
  <2> QED
    BY <2>1, <2>2, <2>3
<1>5. f = [r \in RevisionIds |->
             IF commits[r] = None THEN {}
             ELSE {interval(r)} \cup IF source(r) = None THEN {} ELSE f[source(r)]]
  <2> HIDE DEF interval, source, own, next
  <2> QED
    BY <1>3, <1>4 DEF Collects
<1>6. Lineage = [r \in RevisionIds |->
                   IF commits[r] = None THEN {}
                   ELSE {interval(r)} \cup IF source(r) = None THEN {} ELSE Lineage[source(r)]]
  BY <1>5, Zenon DEF Lineage
<1> QED
  BY <1>6

\* Its intervals go from starts of branches to commits on the path, and what they
\* hold of their branches is the path.
LEMMA LineageCovers ==
  ASSUME StoreInv, NEW tip \in RevisionIds, commits[tip] # None
  PROVE  /\ \A i \in Lineage[tip] :
              /\ i \in Intervals /\ i.lo = StartOf(i.branch)
              /\ i.hi \in Path[tip] /\ commits[i.hi].branch = i.branch
         /\ \A r \in Path[tip] : \E i \in Lineage[tip] : r \in CommitsOf(i.branch) /\ r <= i.hi
         /\ \A i \in Lineage[tip], r \in RevisionIds :
              r \in CommitsOf(i.branch) /\ r <= i.hi => r \in Path[tip]
<1> DEFINE Within(i, t) == /\ i \in Intervals /\ i.lo = StartOf(i.branch)
                           /\ i.hi \in Path[t] /\ commits[i.hi].branch = i.branch
           Has(i, r) == r \in CommitsOf(i.branch) /\ r <= i.hi
           Good(t) == /\ \A i \in Lineage[t] : Within(i, t)
                      /\ \A r \in Path[t] : \E i \in Lineage[t] : Has(i, r)
                      /\ \A i \in Lineage[t], r \in RevisionIds : Has(i, r) => r \in Path[t]
           bad == {t \in RevisionIds : commits[t] # None /\ ~Good(t)}
<1>1. bad = {}
  <2> SUFFICES ASSUME bad # {}
               PROVE  FALSE
    OBVIOUS
  <2>1. PICK t \in bad : \A u \in bad : t <= u
    <3>1. bad \in SUBSET Nat
      BY BoundsAssumption DEF RevisionIds
    <3> HIDE DEF bad
    <3> QED
      BY <3>1, LeastNumber
  <2>2. t \in RevisionIds /\ t \in Nat /\ commits[t] # None
    BY <2>1, BoundsAssumption DEF RevisionIds
  <2> DEFINE b == commits[t].branch
             start == StartOf(b)
             source == ParentOf(start)
             own == [branch |-> b, lo |-> start, hi |-> t]
  <2>3. /\ b \in Branches /\ start \in RevisionIds /\ commits[start] # None
        /\ start <= t /\ start \in Nat /\ t \in CommitsOf(b)
    BY <2>2, StartIs, StartOfStart, CommitIs, BoundsAssumption DEF StoreInv, RevisionIds
  <2>4. /\ Lineage[t] = {own} \cup IF source = None THEN {} ELSE Lineage[source]
        /\ Path[t] = {q \in CommitsOf(b) : q <= t} \cup IF source = None THEN {} ELSE Path[source]
    BY <2>2, LineageIs, PathByBranch
  <2>5. source # None =>
          source \in RevisionIds /\ source \in Nat /\ source < t /\ commits[source] # None
    BY <2>2, <2>3, ParentIs, BoundsAssumption DEF RevisionIds
  <2>6. source # None => Good(source)
    BY <2>1, <2>2, <2>5
  <2>7. /\ Within(own, t)
        /\ \A r : Has(own, r) <=> r \in {q \in CommitsOf(b) : q <= t}
    <3>1. own \in Intervals /\ own.branch = b /\ own.lo = start /\ own.hi = t
      BY <2>2, <2>3 DEF Intervals
    <3>2. t \in Path[t]
      BY <2>2, PathIsOlder
    <3> QED
      BY <3>1, <3>2
  <2> HIDE DEF own, source, start, b
  <2>8. CASE source = None
    <3>1. Lineage[t] = {own} /\ Path[t] = {q \in CommitsOf(b) : q <= t}
      BY <2>4, <2>8
    <3>2. Good(t)
      <4> HIDE DEF Within, Has
      <4> QED
        BY <2>7, <3>1
    <3> QED
      BY <2>1, <3>2
  <2>9. CASE source # None
    <3>1. /\ Lineage[t] = {own} \cup Lineage[source]
          /\ Path[t] = {q \in CommitsOf(b) : q <= t} \cup Path[source]
      BY <2>4, <2>9
    <3>2. \A i : Within(i, source) => Within(i, t)
      BY <3>1
    <3>3. Good(t)
      <4> HIDE DEF Within, Has
      <4> QED
        BY <2>6, <2>7, <2>9, <3>1, <3>2
    <3> QED
      BY <2>1, <3>3
  <2> QED
    BY <2>8, <2>9
<1> QED
  BY <1>1

\* Each interval but the oldest begins where its branch was forked from the next older.
LEMMA LineageSeams ==
  ASSUME StoreInv, NEW tip \in RevisionIds, commits[tip] # None, NEW i \in Lineage[tip]
  PROVE  LET source == ParentOf(i.lo)
             older == {j \in Lineage[tip] : j.hi < i.lo}
         IN  /\ source = None => older = {}
             /\ source # None => /\ \E j \in older : j.hi = source
                                 /\ \A j \in older : j.hi <= source
<1> DEFINE Older(j, t) == {k \in Lineage[t] : k.hi < j.lo}
           Fits(j, t) == /\ ParentOf(j.lo) = None => Older(j, t) = {}
                         /\ ParentOf(j.lo) # None =>
                              /\ \E k \in Older(j, t) : k.hi = ParentOf(j.lo)
                              /\ \A k \in Older(j, t) : k.hi <= ParentOf(j.lo)
           bad == {t \in RevisionIds : commits[t] # None /\ ~\A j \in Lineage[t] : Fits(j, t)}
<1>1. bad = {}
  <2> SUFFICES ASSUME bad # {}
               PROVE  FALSE
    OBVIOUS
  <2>1. PICK t \in bad : \A u \in bad : t <= u
    <3>1. bad \in SUBSET Nat
      BY BoundsAssumption DEF RevisionIds
    <3> HIDE DEF bad
    <3> QED
      BY <3>1, LeastNumber
  <2>2. t \in RevisionIds /\ t \in Nat /\ commits[t] # None
    BY <2>1, BoundsAssumption DEF RevisionIds
  <2> DEFINE b == commits[t].branch
             start == StartOf(b)
             source == ParentOf(start)
             own == [branch |-> b, lo |-> start, hi |-> t]
  <2>3. start \in RevisionIds /\ commits[start] # None /\ start <= t /\ start \in Nat
    BY <2>2, StartIs, StartOfStart, BoundsAssumption DEF RevisionIds
  <2>4. Lineage[t] = {own} \cup IF source = None THEN {} ELSE Lineage[source]
    BY <2>2, LineageIs
  <2>5. own.lo = start /\ own.hi = t /\ ~(t < start)
    BY <2>2, <2>3
  <2>6. source # None =>
          source \in RevisionIds /\ source \in Nat /\ source < start /\ commits[source] # None
    BY <2>2, <2>3, ParentIs, BoundsAssumption DEF RevisionIds
  <2> HIDE DEF own, start, b
  <2>7. CASE source = None
    <3>1. Lineage[t] = {own}
      BY <2>4, <2>7
    <3>2. Fits(own, t)
      BY <2>5, <2>7, <3>1
    <3> HIDE DEF Fits
    <3> QED
      BY <2>1, <3>1, <3>2
  <2>8. CASE source # None
    <3>1. Lineage[t] = {own} \cup Lineage[source]
      BY <2>4, <2>8
    <3>2. \A j \in Lineage[source] : Fits(j, source)
      BY <2>1, <2>2, <2>3, <2>6, <2>8
    <3>3. \A j \in Lineage[source] :
            j.hi \in Nat /\ j.lo \in Nat /\ j.hi <= source /\ j.lo <= source
      <4> SUFFICES ASSUME NEW j \in Lineage[source]
                   PROVE  j.hi \in Nat /\ j.lo \in Nat /\ j.hi <= source /\ j.lo <= source
        OBVIOUS
      <4>1. /\ j \in Intervals /\ j.lo = StartOf(j.branch)
            /\ j.hi \in Path[source] /\ commits[j.hi].branch = j.branch
        BY <2>6, <2>8, LineageCovers
      <4>2. j.hi \in RevisionIds /\ j.hi <= source /\ commits[j.hi] # None
        BY <2>6, <2>8, <4>1, PathIsOlder
      <4>3. j.lo <= j.hi
        BY <4>1, <4>2, StartOfStart
      <4>4. j.lo \in Nat /\ j.hi \in Nat
        BY <4>1, BoundsAssumption DEF Intervals, RevisionIds
      <4> QED
        BY <2>6, <2>8, <4>2, <4>3, <4>4
    <3>4. \E j \in Lineage[source] : j.hi = source
      <4>1. source \in Path[source]
        BY <2>6, <2>8, PathIsOlder
      <4>2. PICK j \in Lineage[source] : source <= j.hi
        BY <2>6, <2>8, <4>1, LineageCovers
      <4> QED
        BY <2>6, <2>8, <3>3, <4>2
    <3>5. Older(own, t) = Lineage[source]
      BY <2>3, <2>5, <2>6, <2>8, <3>1, <3>3
    <3>6. Fits(own, t)
      <4> HIDE DEF Older
      <4> QED
        BY <2>5, <2>8, <3>3, <3>4, <3>5
    <3>7. ASSUME NEW j \in Lineage[source]
          PROVE  Fits(j, t)
      <4>1. j.lo \in Nat /\ j.lo <= source /\ ~(t < j.lo)
        BY <2>2, <2>3, <2>6, <2>8, <3>3
      <4>2. Older(j, t) = Older(j, source)
        BY <2>5, <3>1, <4>1
      <4> HIDE DEF Older
      <4> QED
        BY <3>2, <4>2
    <3> HIDE DEF Fits
    <3> QED
      BY <2>1, <3>1, <3>6, <3>7
  <2> QED
    BY <2>7, <2>8
<1> QED
  BY <1>1

-----------------------------------------------------------------------------
(* Versions along the path. *)

\* The row of a commit was introduced on its path, and is the same since.
LEMMA IntroductionOf ==
  ASSUME StoreInv, NEW tip \in RevisionIds, HasRow(tip)
  PROVE  \E m \in Path[tip] :
           /\ Introduces(m) /\ RowOf(m) = RowOf(tip)
           /\ \A q \in Path[tip] : m <= q => RowOf(q) = RowOf(tip)
<1> DEFINE Dates(t, m) == /\ Introduces(m) /\ RowOf(m) = RowOf(t)
                          /\ \A q \in Path[t] : m <= q => RowOf(q) = RowOf(t)
           bad == {t \in RevisionIds : HasRow(t) /\ ~\E m \in Path[t] : Dates(t, m)}
<1>1. bad = {}
  <2> SUFFICES ASSUME bad # {}
               PROVE  FALSE
    OBVIOUS
  <2>1. PICK t \in bad : \A u \in bad : t <= u
    <3>1. bad \in SUBSET Nat
      BY BoundsAssumption DEF RevisionIds
    <3> HIDE DEF bad
    <3> QED
      BY <3>1, LeastNumber
  <2>2. t \in RevisionIds /\ t \in Nat /\ commits[t] # None /\ HasRow(t)
    BY <2>1, BoundsAssumption DEF RevisionIds, HasRow
  <2>3. t \in Path[t] /\ \A q \in Path[t] : q \in Nat /\ q <= t
    BY <2>2, PathIsOlder, BoundsAssumption DEF RevisionIds
  <2>4. CASE Introduces(t)
    <3>1. Dates(t, t)
      BY <2>2, <2>3, <2>4
    <3> QED
      BY <2>1, <2>3, <3>1
  <2>5. CASE ~Introduces(t)
    <3> DEFINE p == ParentOf(t)
    <3>1. p # None /\ RowOf(p) = RowOf(t)
      BY <2>2, <2>5 DEF Introduces
    <3>2. p \in RevisionIds /\ p < t /\ commits[p] # None /\ p \in Nat
      BY <2>2, <3>1, ParentIs, BoundsAssumption DEF RevisionIds
    <3>3. HasRow(p)
      BY <2>2, <3>1, <3>2 DEF HasRow, RowOf
    <3>4. Path[t] = {t} \cup Path[p]
      BY <2>2, <3>1, PathIs
    <3>5. PICK m \in Path[p] : Dates(p, m)
      BY <2>1, <2>2, <3>2, <3>3
    <3> HIDE DEF p
    <3>6. Dates(t, m) /\ m \in Path[t]
      BY <3>1, <3>4, <3>5
    <3> HIDE DEF Dates
    <3> QED
      BY <2>1, <3>6
  <2> QED
    BY <2>4, <2>5
<1> QED
  BY <1>1

\* A version is not left and come back to.
LEMMA VersionStays ==
  ASSUME StoreInv, NEW tip \in RevisionIds, commits[tip] # None,
         NEW s \in Path[tip], NEW t \in Path[tip], NEW u \in Path[tip], s <= t, t <= u,
         HasRow(s), HasRow(u), RowOf(s).versionId = RowOf(u).versionId
  PROVE  RowOf(t) = RowOf(u)
<1>1. /\ s \in RevisionIds /\ t \in RevisionIds /\ u \in RevisionIds /\ commits[u] # None
      /\ s \in Nat /\ t \in Nat /\ u \in Nat
  BY PathIsOlder, BoundsAssumption DEF RevisionIds
<1>2. Path[u] = {x \in Path[tip] : x <= u}
  BY PathGoesOn
<1>3. PICK m \in Path[u] :
        /\ Introduces(m) /\ RowOf(m) = RowOf(u)
        /\ \A q \in Path[u] : m <= q => RowOf(q) = RowOf(u)
  BY <1>1, IntroductionOf
<1>4. m \in RevisionIds /\ m \in Nat
  BY <1>1, <1>3, PathIsOlder, BoundsAssumption DEF RevisionIds
<1>5. m <= s
  BY <1>1, <1>3, <1>4 DEF StoreInv, VersionsHold
<1> QED
  BY <1>1, <1>2, <1>3, <1>4, <1>5

\* On the way to a row there are no commits without it once it was created.
LEMMA RowStays ==
  ASSUME StoreInv, NEW tip \in RevisionIds, HasRow(tip),
         NEW q \in Path[tip], NEW r \in Path[tip], q <= r, HasRow(q)
  PROVE  HasRow(r)
<1> DEFINE Good(t) == \A x, y \in Path[t] : x <= y /\ HasRow(x) => HasRow(y)
           bad == {t \in RevisionIds : HasRow(t) /\ ~Good(t)}
<1>1. bad = {}
  <2> SUFFICES ASSUME bad # {}
               PROVE  FALSE
    OBVIOUS
  <2>1. PICK t \in bad : \A u \in bad : t <= u
    <3>1. bad \in SUBSET Nat
      BY BoundsAssumption DEF RevisionIds
    <3> HIDE DEF bad
    <3> QED
      BY <3>1, LeastNumber
  <2>2. t \in RevisionIds /\ t \in Nat /\ commits[t] # None /\ HasRow(t)
    BY <2>1, BoundsAssumption DEF RevisionIds, HasRow
  <2>3. CASE ParentOf(t) = None
    <3>1. Path[t] = {t}
      BY <2>2, <2>3, PathIs
    <3> QED
      BY <2>1, <2>2, <3>1
  <2>4. CASE ParentOf(t) # None
    <3> DEFINE p == ParentOf(t)
    <3>1. p \in RevisionIds /\ p < t /\ commits[p] # None /\ p \in Nat
      BY <2>2, <2>4, ParentIs, BoundsAssumption DEF RevisionIds
    <3>2. Path[t] = {t} \cup Path[p]
      BY <2>2, <2>4, PathIs
    <3>3. \A x \in Path[p] : x \in RevisionIds /\ x \in Nat /\ x <= p
      BY <3>1, PathIsOlder, BoundsAssumption DEF RevisionIds
    <3>4. CASE HasRow(p)
      <4>1. Good(p)
        BY <2>1, <2>2, <3>1, <3>4
      <4> HIDE DEF p
      <4>2. Good(t)
        BY <2>2, <3>1, <3>2, <3>3, <4>1
      <4> QED
        BY <2>1, <4>2
    <3>5. CASE ~HasRow(p)
      <4>1. RowOf(p) # RowOf(t)
        BY <2>2, <3>1, <3>5 DEF HasRow, RowOf
      <4>2. Introduces(t)
        BY <2>2, <4>1 DEF Introduces
      <4>3. \A x \in RevisionIds : HasRow(x) => t <= x
        BY <2>2, <3>5, <4>2 DEF StoreInv, VersionsHold
      <4> HIDE DEF p
      <4>4. \A x \in Path[p] : ~HasRow(x)
        BY <2>2, <3>1, <3>3, <4>3
      <4>5. Good(t)
        BY <2>2, <3>2, <3>1, <3>3, <4>4
      <4> QED
        BY <2>1, <4>5
    <3> QED
      BY <3>4, <3>5
  <2> QED
    BY <2>3, <2>4
<1> QED
  BY <1>1

-----------------------------------------------------------------------------
(* Bisection. *)

\* What half of the way is.
LEMMA HalfWay ==
  ASSUME NEW lo \in Int, NEW hi \in Int
  PROVE  LET mid == lo + (hi - lo) \div 2
         IN  /\ mid \in Int
             /\ lo <= hi => lo <= mid /\ mid <= hi
             /\ hi <= lo => hi <= mid + 1 /\ mid <= lo
             /\ hi < lo => hi <= mid
             /\ lo + 1 < hi => lo < mid /\ mid < hi
OBVIOUS

\* Halving is what its definition says.
LEMMA StepsIs ==
  ASSUME NEW i \in Intervals
  PROVE  Steps[i] = IF AtStart(i) = AtEnd(i) THEN {}
                    ELSE IF i.hi - i.lo = 1 THEN Dated(i)
                    ELSE Steps[[i EXCEPT !.hi = Middle(i)]]
                           \cup Steps[[i EXCEPT !.lo = Middle(i)]]
<1> DEFINE Ends(j) == AtStart(j) = AtEnd(j)
           Adjacent(j) == j.hi - j.lo = 1
           older(j) == [j EXCEPT !.hi = Middle(j)]
           newer(j) == [j EXCEPT !.lo = Middle(j)]
           own == [j \in Intervals |-> IF ~Ends(j) /\ Adjacent(j) THEN {j.hi} ELSE {}]
           next == [j \in Intervals |->
                      IF Ends(j) \/ Adjacent(j) THEN {} ELSE {older(j), newer(j)}]
<1>1. \A j \in Intervals : own[j] \subseteq RevisionIds /\ next[j] \subseteq Intervals
  <2> SUFFICES ASSUME NEW j \in Intervals
               PROVE  own[j] \subseteq RevisionIds /\ next[j] \subseteq Intervals
    OBVIOUS
  <2>1. j.lo \in RevisionIds /\ j.hi \in RevisionIds
    BY DEF Intervals
  <2>2. Middle(j) \in RevisionIds
    BY <2>1, HalfWay, BoundsAssumption DEF Middle, RevisionIds
  <2>3. older(j) \in Intervals /\ newer(j) \in Intervals
    BY <2>1, <2>2 DEF Intervals
  <2> HIDE DEF older, newer, Ends, Adjacent
  <2> QED
    BY <2>1, <2>3
<1>2. PICK f : Collects(f, Intervals, RevisionIds, own, next)
  <2> HIDE DEF own, next
  <2> QED
    BY <1>1, Collected
<1>3. ASSUME NEW j \in Intervals
      PROVE  f[j] = IF Ends(j) THEN {}
                    ELSE IF Adjacent(j) THEN Dated(j) ELSE f[older(j)] \cup f[newer(j)]
  <2>1. f[j] = own[j] \cup UNION {f[e] : e \in next[j]}
    <3> HIDE DEF own, next
    <3> QED
      BY <1>2 DEF Collects
  <2> HIDE DEF Ends, Adjacent, older, newer
  <2>2. own[j] = IF ~Ends(j) /\ Adjacent(j) THEN {j.hi} ELSE {}
    OBVIOUS
  <2>3. next[j] = IF Ends(j) \/ Adjacent(j) THEN {} ELSE {older(j), newer(j)}
    OBVIOUS
  <2> HIDE DEF own, next
  <2> QED
    BY <2>1, <2>2, <2>3 DEF Dated
<1>4. f = [j \in Intervals |->
             IF Ends(j) THEN {}
             ELSE IF Adjacent(j) THEN Dated(j) ELSE f[older(j)] \cup f[newer(j)]]
  <2> HIDE DEF Ends, Adjacent, older, newer, own, next
  <2> QED
    BY <1>2, <1>3 DEF Collects
<1>5. Steps = [j \in Intervals |->
                 IF Ends(j) THEN {}
                 ELSE IF Adjacent(j) THEN Dated(j) ELSE Steps[older(j)] \cup Steps[newer(j)]]
  BY <1>4, Zenon DEF Steps
<1> QED
  BY <1>5

\* Where no value returns once it was left, halving finds every change there is, and
\* no other.
LEMMA StepsAreChanges ==
  ASSUME NEW i \in Intervals, i.lo <= i.hi,
         \A s, t, u \in RevisionIds :
           /\ i.lo <= s /\ s <= t /\ t <= u /\ u <= i.hi
           /\ VersionAt(i.branch, s) = VersionAt(i.branch, u)
           => VersionAt(i.branch, t) = VersionAt(i.branch, s)
  PROVE  Steps[i] = {s \in RevisionIds :
                       /\ i.lo < s /\ s <= i.hi
                       /\ VersionAt(i.branch, s - 1) # VersionAt(i.branch, s)}
<1> DEFINE V(s) == VersionAt(i.branch, s)
           Part(j) == j.branch = i.branch /\ i.lo <= j.lo /\ j.lo <= j.hi /\ j.hi <= i.hi
           Changes(j) == {s \in RevisionIds : j.lo < s /\ s <= j.hi /\ V(s - 1) # V(s)}
           bad == {j \in Intervals : Part(j) /\ Steps[j] # Changes(j)}
           sizes == {j.hi - j.lo : j \in bad}
<1>1. bad = {}
  <2> SUFFICES ASSUME bad # {}
               PROVE  FALSE
    OBVIOUS
  <2>1. sizes \in SUBSET Nat /\ sizes # {}
    <3>1. \A j \in Intervals : Part(j) => j.hi - j.lo \in Nat
      BY BoundsAssumption DEF Intervals, RevisionIds
    <3> HIDE DEF Part, Changes
    <3> QED
      BY <3>1
  <2>2. PICK n \in sizes : \A k \in sizes : n <= k
    <3> HIDE DEF sizes
    <3> QED
      BY <2>1, LeastNumber
  <2>3. PICK j \in bad : n = j.hi - j.lo
    BY <2>2
  <2>4. \A k \in bad : j.hi - j.lo <= k.hi - k.lo
    BY <2>2, <2>3
  <2>5. /\ j \in Intervals /\ Part(j) /\ Steps[j] # Changes(j)
        /\ j.lo \in RevisionIds /\ j.hi \in RevisionIds /\ j.branch \in Branches
        /\ i.lo \in Int /\ i.hi \in Int /\ j.lo \in Int /\ j.hi \in Int
    BY <2>3, BoundsAssumption DEF Intervals, RevisionIds
  <2>6. AtStart(j) = V(j.lo) /\ AtEnd(j) = V(j.hi)
    BY <2>5 DEF AtStart, AtEnd
  <2>7. CASE V(j.lo) = V(j.hi)
    <3>1. ASSUME NEW s \in RevisionIds, j.lo < s, s <= j.hi
          PROVE  V(s - 1) = V(s)
      <4>1. s - 1 \in RevisionIds /\ j.lo <= s - 1 /\ s - 1 <= j.hi /\ j.lo <= s /\ s \in Int
        BY <2>5, <3>1, BoundsAssumption DEF RevisionIds
      <4> HIDE DEF V
      <4>2. V(s) = V(j.lo)
        BY <2>5, <2>7, <3>1, <4>1 DEF V
      <4>3. V(s - 1) = V(j.lo)
        BY <2>5, <2>7, <4>1 DEF V
      <4> QED
        BY <4>2, <4>3
    <3>2. Steps[j] = {}
      BY <2>5, <2>6, <2>7, StepsIs
    <3> QED
      BY <2>5, <3>1, <3>2
  <2>8. CASE V(j.lo) # V(j.hi) /\ j.hi - j.lo = 1
    <3>1. Steps[j] = {j.hi}
      BY <2>5, <2>6, <2>8, StepsIs DEF Dated
    <3>2. \A s \in RevisionIds : j.lo < s /\ s <= j.hi <=> s = j.hi
      BY <2>5, <2>8, BoundsAssumption DEF RevisionIds
    <3>3. j.hi - 1 = j.lo
      BY <2>5, <2>8
    <3> HIDE DEF V
    <3>4. Changes(j) = {j.hi}
      BY <2>5, <2>8, <3>2, <3>3
    <3> QED
      BY <2>5, <3>1, <3>4
  <2>9. CASE V(j.lo) # V(j.hi) /\ j.hi - j.lo # 1
    <3> DEFINE mid == Middle(j)
               older == [j EXCEPT !.hi = mid]
               newer == [j EXCEPT !.lo = mid]
    <3>1. j.lo # j.hi
      BY <2>9
    <3>2. j.lo + 1 < j.hi
      BY <2>5, <2>9, <3>1
    <3>3. mid \in Int /\ j.lo < mid /\ mid < j.hi
      BY <2>5, <3>2, HalfWay DEF Middle
    <3>4. mid \in RevisionIds
      BY <2>5, <3>3, BoundsAssumption DEF RevisionIds
    <3> HIDE DEF mid
    <3>5. /\ older \in Intervals /\ older.branch = j.branch /\ older.lo = j.lo /\ older.hi = mid
          /\ newer \in Intervals /\ newer.branch = j.branch /\ newer.lo = mid /\ newer.hi = j.hi
      BY <2>5, <3>4 DEF Intervals
    <3>6. Steps[j] = Steps[older] \cup Steps[newer]
      BY <2>5, <2>6, <2>9, StepsIs DEF mid
    <3> HIDE DEF older, newer
    <3>7. Part(older) /\ Part(newer)
      BY <2>5, <3>3, <3>5
    <3>8. older.hi - older.lo < j.hi - j.lo /\ newer.hi - newer.lo < j.hi - j.lo
      BY <2>5, <3>3, <3>5
    <3>9. older \notin bad /\ newer \notin bad
      <4>1. older.hi - older.lo \in Int /\ newer.hi - newer.lo \in Int /\ j.hi - j.lo \in Int
        BY <2>5, <3>3, <3>5
      <4> HIDE DEF bad
      <4> QED
        BY <2>4, <3>8, <4>1
    <3>10. Steps[older] = Changes(older) /\ Steps[newer] = Changes(newer)
      BY <3>5, <3>7, <3>9
    <3>11. \A s \in RevisionIds :
             j.lo < s /\ s <= j.hi <=> \/ j.lo < s /\ s <= mid
                                       \/ mid < s /\ s <= j.hi
      BY <2>5, <3>3, BoundsAssumption DEF RevisionIds
    <3> HIDE DEF V
    <3>12. Changes(j) = Changes(older) \cup Changes(newer)
      BY <3>5, <3>11
    <3> QED
      BY <2>5, <3>6, <3>10, <3>12
  <2> QED
    BY <2>7, <2>8, <2>9
<1>2. Part(i)
  BY BoundsAssumption DEF Intervals, RevisionIds
<1> QED
  BY <1>1, <1>2

\* A commit's version of the row.
VersionOf(r) == IF RowOf(r) = None THEN None ELSE RowOf(r).versionId

\* The version at a revision is that of the last commit up to it.
LEMMA VersionAtIs ==
  ASSUME StoreInv, NEW b, NEW r \in CommitsOf(b), NEW s \in RevisionIds, r <= s
  PROVE  \E q \in CommitsOf(b) :
           /\ r <= q /\ q <= s /\ VersionAt(b, s) = VersionOf(q)
           /\ \A x \in CommitsOf(b) : x <= s => x <= q
<1> DEFINE S == {x \in CommitsOf(b) : x <= s}
<1>1. S \in SUBSET RevisionIds /\ r \in S
  BY DEF CommitsOf
<1>2. Max(S) \in S /\ \A x \in S : x <= Max(S)
  BY <1>1, FirstAndLast
<1>3. VersionAt(b, s) = VersionOf(Max(S))
  BY DEF VersionAt, VersionOf, RowOf
<1> QED
  BY <1>1, <1>2, <1>3

\* The version at a branch's own commit is that commit's.
LEMMA VersionAtCommit ==
  ASSUME StoreInv, NEW b, NEW r \in CommitsOf(b)
  PROVE  VersionAt(b, r) = VersionOf(r)
<1>1. r \in RevisionIds /\ r <= r
  BY BoundsAssumption DEF CommitsOf, RevisionIds
<1>2. PICK q \in CommitsOf(b) : r <= q /\ q <= r /\ VersionAt(b, r) = VersionOf(q)
  BY <1>1, VersionAtIs
<1>3. q = r
  BY <1>1, <1>2, BoundsAssumption DEF CommitsOf, RevisionIds
<1> QED
  BY <1>2, <1>3

\* Versions tell rows apart.
LEMMA VersionsTell ==
  ASSUME StoreInv, NEW r \in RevisionIds, NEW q \in RevisionIds,
         commits[r] # None, commits[q] # None
  PROVE  /\ VersionOf(r) = VersionOf(q) <=> RowOf(r) = RowOf(q)
         /\ VersionOf(r) # None <=> HasRow(r)
<1>1. /\ HasRow(r) <=> RowOf(r) # None
      /\ HasRow(q) <=> RowOf(q) # None
  BY DEF HasRow, RowOf
<1>2. /\ HasRow(r) => RowOf(r).versionId # None
      /\ HasRow(q) => RowOf(q).versionId # None
  BY RowIs DEF StoreInv
<1>3. HasRow(r) /\ HasRow(q) /\ RowOf(r).versionId = RowOf(q).versionId => RowOf(r) = RowOf(q)
  BY DEF StoreInv, VersionsHold
<1> QED
  BY <1>1, <1>2, <1>3 DEF VersionOf

-----------------------------------------------------------------------------
(* Bisection finds what was introduced. *)

\* Within an interval the version is that of the last commit, which is on the path.
LEMMA VersionWithin ==
  ASSUME StoreInv, NEW tip \in RevisionIds, commits[tip] # None, NEW i \in Lineage[tip],
         NEW s \in RevisionIds, i.lo <= s, s <= i.hi
  PROVE  \E q \in CommitsOf(i.branch) :
           /\ q \in Path[tip] /\ q <= s /\ VersionAt(i.branch, s) = VersionOf(q)
           /\ \A x \in CommitsOf(i.branch) : x <= s => x <= q
<1>1. /\ i \in Intervals /\ i.lo = StartOf(i.branch)
      /\ i.hi \in Path[tip] /\ commits[i.hi].branch = i.branch
  BY LineageCovers
<1>2. i.hi \in RevisionIds /\ commits[i.hi] # None
  BY <1>1, PathIsOlder
<1>3. i.lo \in CommitsOf(i.branch)
  BY <1>1, <1>2, StartIs
<1>4. PICK q \in CommitsOf(i.branch) :
        /\ q <= s /\ VersionAt(i.branch, s) = VersionOf(q)
        /\ \A x \in CommitsOf(i.branch) : x <= s => x <= q
  BY <1>3, VersionAtIs
<1>5. q \in RevisionIds
  BY DEF CommitsOf
<1>6. q <= i.hi
  BY <1>2, <1>4, <1>5, BoundsAssumption DEF RevisionIds
<1>7. q \in Path[tip]
  BY <1>5, <1>6, LineageCovers
<1> QED
  BY <1>4, <1>7

\* Bisection finds the commits of a branch whose version is not their parent's.
LEMMA StepsOfLineage ==
  ASSUME StoreInv, NEW tip \in RevisionIds, HasRow(tip), NEW i \in Lineage[tip]
  PROVE  Steps[i] = {s \in CommitsOf(i.branch) :
                       i.lo < s /\ s <= i.hi /\ VersionOf(ParentOf(s)) # VersionOf(s)}
<1> DEFINE V(s) == VersionAt(i.branch, s)
           own == CommitsOf(i.branch)
<1>1. commits[tip] # None
  BY DEF HasRow
<1>2. /\ i \in Intervals /\ i.lo = StartOf(i.branch)
      /\ i.hi \in Path[tip] /\ commits[i.hi].branch = i.branch
  BY <1>1, LineageCovers
<1>3. i.hi \in RevisionIds /\ i.lo \in RevisionIds /\ commits[i.hi] # None
  BY <1>1, <1>2, PathIsOlder DEF Intervals
<1>4. i.lo <= i.hi
  BY <1>2, <1>3, StartOfStart
<1>5. \A r \in RevisionIds : r \in Nat
  BY BoundsAssumption DEF RevisionIds
<1>6. ASSUME NEW s \in RevisionIds, NEW t \in RevisionIds, NEW u \in RevisionIds,
             i.lo <= s, s <= t, t <= u, u <= i.hi, V(s) = V(u)
      PROVE  V(t) = V(s)
  <2>1. /\ i.lo <= t /\ i.lo <= u /\ s <= i.hi /\ t <= i.hi
        /\ s \in Nat /\ t \in Nat /\ u \in Nat
    BY <1>3, <1>5, <1>6
  <2>2. PICK q \in own : /\ q \in Path[tip] /\ q <= s /\ V(s) = VersionOf(q)
                         /\ \A x \in own : x <= s => x <= q
    BY <1>1, <1>6, <2>1, VersionWithin
  <2>3. PICK r \in own : /\ r \in Path[tip] /\ r <= t /\ V(t) = VersionOf(r)
                         /\ \A x \in own : x <= t => x <= r
    BY <1>1, <1>6, <2>1, VersionWithin
  <2>4. PICK p \in own : /\ p \in Path[tip] /\ p <= u /\ V(u) = VersionOf(p)
                         /\ \A x \in own : x <= u => x <= p
    BY <1>1, <1>6, <2>1, VersionWithin
  <2>5. /\ q \in RevisionIds /\ commits[q] # None /\ q \in Nat
        /\ r \in RevisionIds /\ commits[r] # None /\ r \in Nat
        /\ p \in RevisionIds /\ commits[p] # None /\ p \in Nat
    BY <1>5 DEF CommitsOf
  <2>6. q <= r /\ r <= p
    <3>1. q <= t /\ r <= u
      BY <1>6, <2>1, <2>2, <2>3, <2>5
    <3> QED
      BY <2>3, <2>4, <3>1
  <2>7. VersionOf(q) = VersionOf(p)
    BY <1>6, <2>2, <2>4
  <2>8. CASE HasRow(q)
    <3>1. HasRow(p) /\ RowOf(q) = RowOf(p)
      BY <2>5, <2>7, <2>8, VersionsTell
    <3>2. RowOf(r) = RowOf(p)
      BY <1>1, <2>2, <2>3, <2>4, <2>6, <2>8, <3>1, VersionStays
    <3>3. VersionOf(r) = VersionOf(p)
      BY <3>2 DEF VersionOf
    <3> QED
      BY <2>2, <2>3, <2>7, <3>3
  <2>9. CASE ~HasRow(q)
    <3>1. ~HasRow(p) /\ VersionOf(q) = None
      BY <2>5, <2>7, <2>9, VersionsTell
    <3>2. ~HasRow(r)
      BY <2>3, <2>4, <2>6, <3>1, RowStays
    <3>3. VersionOf(r) = None
      BY <2>5, <3>2, VersionsTell
    <3> QED
      BY <2>2, <2>3, <3>1, <3>3
  <2> QED
    BY <2>8, <2>9
<1>7. Steps[i] = {s \in RevisionIds : i.lo < s /\ s <= i.hi /\ V(s - 1) # V(s)}
  <2>1. \A s, t, u \in RevisionIds :
          /\ i.lo <= s /\ s <= t /\ t <= u /\ u <= i.hi /\ V(s) = V(u)
          => V(t) = V(s)
    BY <1>6
  <2> QED
    BY <1>2, <1>4, <2>1, StepsAreChanges
<1>8. ASSUME NEW s \in RevisionIds, i.lo < s, s <= i.hi
      PROVE  V(s - 1) # V(s) <=> s \in own /\ VersionOf(ParentOf(s)) # VersionOf(s)
  <2>1. /\ s - 1 \in RevisionIds /\ i.lo <= s - 1 /\ s - 1 <= i.hi /\ i.lo <= s
        /\ s \in Nat /\ s - 1 \in Nat
    BY <1>3, <1>5, <1>8, BoundsAssumption DEF RevisionIds
  <2>2. PICK q \in own : /\ q \in Path[tip] /\ q <= s /\ V(s) = VersionOf(q)
                         /\ \A x \in own : x <= s => x <= q
    BY <1>1, <1>8, <2>1, VersionWithin
  <2>3. PICK p \in own : /\ p \in Path[tip] /\ p <= s - 1 /\ V(s - 1) = VersionOf(p)
                         /\ \A x \in own : x <= s - 1 => x <= p
    <3>1. \E p \in CommitsOf(i.branch) :
            /\ p \in Path[tip] /\ p <= s - 1 /\ VersionAt(i.branch, s - 1) = VersionOf(p)
            /\ \A x \in CommitsOf(i.branch) : x <= s - 1 => x <= p
      BY <1>1, <2>1, VersionWithin
    <3> QED
      BY <3>1
  <2>4. q \in Nat /\ p \in Nat /\ q \in RevisionIds /\ p \in RevisionIds
    BY <1>5 DEF CommitsOf
  <2>5. CASE s \notin own
    <3>1. q <= s - 1
      BY <2>1, <2>2, <2>4, <2>5
    <3>2. p <= s
      BY <2>1, <2>3, <2>4
    <3>3. q = p
      BY <2>2, <2>3, <2>4, <3>1, <3>2
    <3> QED
      BY <2>2, <2>3, <2>5, <3>3
  <2>6. CASE s \in own
    <3>1. q = s
      BY <2>1, <2>2, <2>4, <2>6
    <3>2. commits[s] # None /\ commits[s].branch = i.branch
      BY <2>6 DEF CommitsOf
    <3>3. ~commits[s].isStart
      BY <1>2, <1>3, <1>5, <1>8, <3>2, StartOfStart
    <3>4. ParentOf(s) \in own /\ \A x \in own : x < s => x <= ParentOf(s)
      BY <3>2, <3>3 DEF StoreInv, AncestryHolds
    <3>5. ParentOf(s) # None /\ ParentOf(s) \in Nat
      BY <1>5, <3>4, NoneIsNoRevision DEF CommitsOf
    <3>6. ParentOf(s) < s
      BY <3>2, <3>5, ParentIs
    <3>7. ParentOf(s) <= s - 1 /\ p < s
      BY <2>1, <2>3, <2>4, <3>5, <3>6
    <3>8. p = ParentOf(s)
      BY <2>3, <2>4, <3>4, <3>5, <3>7
    <3> QED
      BY <2>2, <2>3, <2>6, <3>1, <3>8
  <2> QED
    BY <2>5, <2>6
<1>9. own \subseteq RevisionIds
  BY DEF CommitsOf
<1> HIDE DEF own, V
<1>10. Steps[i] = {s \in own : i.lo < s /\ s <= i.hi /\ VersionOf(ParentOf(s)) # VersionOf(s)}
  BY <1>7, <1>8, <1>9
<1> QED
  BY <1>10 DEF own

\* An interval begins with the start of its branch, and what is older ends where that
\* was forked.
LEMMA SeamIs ==
  ASSUME StoreInv, NEW tip \in RevisionIds, commits[tip] # None, NEW i \in Lineage[tip]
  PROVE  /\ i.lo \in CommitsOf(i.branch) /\ commits[i.lo].isStart
         /\ i.lo = StartOf(i.branch) /\ i.lo <= i.hi
         /\ AtStart(i) = VersionOf(i.lo) /\ AtEnd(i) = VersionOf(i.hi)
         /\ BeforeStart(Lineage[tip], i) =
              IF ParentOf(i.lo) = None THEN None ELSE VersionOf(ParentOf(i.lo))
<1>1. ASSUME NEW j \in Lineage[tip]
      PROVE  /\ j.lo \in CommitsOf(j.branch) /\ commits[j.lo].isStart
             /\ j.lo = StartOf(j.branch) /\ j.lo <= j.hi
             /\ AtStart(j) = VersionOf(j.lo) /\ AtEnd(j) = VersionOf(j.hi)
             /\ j.hi \in Nat
  <2>1. /\ j \in Intervals /\ j.lo = StartOf(j.branch)
        /\ j.hi \in Path[tip] /\ commits[j.hi].branch = j.branch
    BY LineageCovers
  <2>2. j.hi \in RevisionIds /\ commits[j.hi] # None
    BY <2>1, PathIsOlder
  <2>3. j.hi \in CommitsOf(j.branch)
    BY <2>1, <2>2 DEF CommitsOf
  <2>4. j.lo \in CommitsOf(j.branch) /\ commits[j.lo].isStart
    BY <2>1, <2>2, StartIs
  <2>5. j.lo <= j.hi
    BY <2>1, <2>2, StartOfStart
  <2> QED
    BY <2>1, <2>2, <2>3, <2>4, <2>5, VersionAtCommit, BoundsAssumption
       DEF AtStart, AtEnd, RevisionIds
<1> DEFINE source == ParentOf(i.lo)
           older == {j \in Lineage[tip] : j.hi < i.lo}
           last == CHOOSE j \in older : \A k \in older : k.hi <= j.hi
<1>2. /\ source = None => older = {}
      /\ source # None => /\ \E j \in older : j.hi = source
                          /\ \A j \in older : j.hi <= source
  BY LineageSeams
<1>3. BeforeStart(Lineage[tip], i) = IF older = {} THEN None ELSE AtEnd(last)
  BY DEF BeforeStart
<1>4. CASE source = None
  BY <1>1, <1>2, <1>3, <1>4
<1>5. CASE source # None
  <2>1. older \subseteq Lineage[tip]
    OBVIOUS
  <2> HIDE DEF older
  <2>2. last \in older /\ \A k \in older : k.hi <= last.hi
    <3>1. \E j \in older : \A k \in older : k.hi <= j.hi
      BY <1>2, <1>5
    <3> QED
      BY <3>1
  <2>3. PICK j \in older : j.hi = source
    BY <1>2, <1>5
  <2> HIDE DEF last
  <2>4. last.hi \in Nat /\ j.hi \in Nat /\ AtEnd(last) = VersionOf(last.hi)
    BY <1>1, <2>1, <2>2, <2>3
  <2>5. last.hi <= source /\ source <= last.hi
    BY <1>2, <1>5, <2>2, <2>3
  <2>6. last.hi = source
    <3> HIDE DEF source
    <3> QED
      BY <2>3, <2>4, <2>5
  <2>7. BeforeStart(Lineage[tip], i) = VersionOf(source)
    BY <1>3, <2>2, <2>4, <2>6
  <2> QED
    BY <1>1, <1>5, <2>7
<1> QED
  BY <1>4, <1>5

\* The commits on the path that introduced a version.
Introducing(tip) == {r \in Path[tip] : Introduces(r)}

\* Bisection finds these.
LEMMA BisectionFinds ==
  ASSUME StoreInv, NEW tip \in RevisionIds, HasRow(tip)
  PROVE  Found("bisect", Lineage[tip]) = {<<VersionOf(r), r>> : r \in Introducing(tip)}
<1> DEFINE lineage == Lineage[tip]
           Inside(i) == {<<VersionAt(i.branch, s), s>> : s \in Steps[i]}
           AtSeams == {<<AtStart(i), i.lo>> :
                         i \in {j \in lineage : BeforeStart(lineage, j) # AtStart(j)}}
           found == Found("bisect", lineage)
           introduced == {<<VersionOf(r), r>> : r \in Introducing(tip)}
<1>0. commits[tip] # None
  BY DEF HasRow
<1>1. found = {e \in (UNION {Inside(i) : i \in lineage}) \cup AtSeams : e[1] # None}
  BY DEF Found, Bisected
<1>2. ASSUME NEW i \in lineage
      PROVE  /\ i.lo \in CommitsOf(i.branch) /\ commits[i.lo].isStart
             /\ i.lo = StartOf(i.branch) /\ i.lo <= i.hi /\ i.hi \in RevisionIds
             /\ AtStart(i) = VersionOf(i.lo)
             /\ BeforeStart(lineage, i) =
                  IF ParentOf(i.lo) = None THEN None ELSE VersionOf(ParentOf(i.lo))
             /\ Steps[i] = {s \in CommitsOf(i.branch) :
                  i.lo < s /\ s <= i.hi /\ VersionOf(ParentOf(s)) # VersionOf(s)}
  BY <1>0, SeamIs, StepsOfLineage, LineageCovers DEF Intervals
<1>3. ASSUME NEW i \in lineage, NEW r \in CommitsOf(i.branch), r <= i.hi
      PROVE  /\ r \in RevisionIds /\ r \in Path[tip] /\ commits[r] # None
             /\ commits[r].branch = i.branch
             /\ commits[r].isStart <=> r = i.lo
             /\ r # i.lo => i.lo < r
             /\ VersionAt(i.branch, r) = VersionOf(r)
             /\ VersionOf(r) # None <=> HasRow(r)
  <2>1. r \in RevisionIds /\ commits[r] # None /\ commits[r].branch = i.branch
    BY DEF CommitsOf
  <2>2. r \in Path[tip]
    BY <1>0, <1>3, <2>1, LineageCovers
  <2>3. /\ commits[r].isStart <=> i.lo = r
        /\ i.lo <= r
    BY <1>2, <2>1, StartOfStart
  <2>4. i.lo \in RevisionIds
    BY <1>2 DEF CommitsOf
  <2> QED
    BY <2>1, <2>2, <2>3, <2>4, VersionAtCommit, VersionsTell, BoundsAssumption DEF RevisionIds
<1>4. ASSUME NEW i \in lineage, NEW s \in Steps[i], VersionAt(i.branch, s) # None
      PROVE  <<VersionAt(i.branch, s), s>> \in introduced
  <2>1. /\ s \in CommitsOf(i.branch) /\ i.lo < s /\ s <= i.hi
        /\ VersionOf(ParentOf(s)) # VersionOf(s)
    BY <1>2
  <2>2. /\ s \in RevisionIds /\ s \in Path[tip] /\ commits[s] # None
        /\ VersionAt(i.branch, s) = VersionOf(s) /\ HasRow(s)
    BY <1>3, <1>4, <2>1
  <2>3. Introduces(s)
    <3>1. CASE ParentOf(s) = None
      BY <2>2, <3>1 DEF Introduces
    <3>2. CASE ParentOf(s) # None
      <4>1. RowOf(ParentOf(s)) # RowOf(s)
        BY <2>1, <2>2, <3>2, ParentIs, VersionsTell
      <4> QED
        BY <2>2, <4>1 DEF Introduces
    <3> QED
      BY <3>1, <3>2
  <2>4. s \in Introducing(tip)
    BY <2>2, <2>3 DEF Introducing
  <2> QED
    BY <2>2, <2>4
<1>5. ASSUME NEW i \in lineage, BeforeStart(lineage, i) # AtStart(i), AtStart(i) # None
      PROVE  <<AtStart(i), i.lo>> \in introduced
  <2>1. i.lo \in CommitsOf(i.branch) /\ commits[i.lo].isStart /\ i.lo <= i.hi
    BY <1>2
  <2>2. /\ i.lo \in RevisionIds /\ i.lo \in Path[tip] /\ commits[i.lo] # None
        /\ HasRow(i.lo) /\ AtStart(i) = VersionOf(i.lo)
    BY <1>2, <1>3, <1>5, <2>1
  <2>3. ParentOf(i.lo) = None
    <3> SUFFICES ASSUME ParentOf(i.lo) # None
                 PROVE  FALSE
      OBVIOUS
    <3>1. RowOf(ParentOf(i.lo)) = RowOf(i.lo)
      BY <2>1, <2>2, ParentIs
    <3>2. VersionOf(ParentOf(i.lo)) = VersionOf(i.lo)
      BY <3>1 DEF VersionOf
    <3> QED
      BY <1>2, <1>5, <3>2
  <2>4. i.lo \in Introducing(tip)
    BY <2>2, <2>3 DEF Introducing, Introduces
  <2> QED
    BY <2>2, <2>4
<1>6. ASSUME NEW r \in Introducing(tip)
      PROVE  <<VersionOf(r), r>> \in found
  <2>1. r \in Path[tip] /\ Introduces(r) /\ HasRow(r)
    BY DEF Introducing, Introduces
  <2>2. PICK i \in lineage : r \in CommitsOf(i.branch) /\ r <= i.hi
    BY <1>0, <2>1, LineageCovers
  <2>3. /\ r \in RevisionIds /\ commits[r] # None /\ commits[r].branch = i.branch
        /\ commits[r].isStart <=> r = i.lo
        /\ r # i.lo => i.lo < r
        /\ VersionAt(i.branch, r) = VersionOf(r) /\ VersionOf(r) # None
    BY <1>3, <2>1, <2>2
  <2>4. CASE r = i.lo
    <3>1. ParentOf(r) = None
      BY <2>1, <2>3, <2>4, ParentIs DEF Introduces
    <3>2. BeforeStart(lineage, i) = None /\ AtStart(i) = VersionOf(r)
      BY <1>2, <2>4, <3>1
    <3>3. <<VersionOf(r), r>> \in AtSeams
      BY <2>3, <2>4, <3>2
    <3> HIDE DEF AtSeams, Inside
    <3> QED
      BY <1>1, <2>3, <3>3
  <2>5. CASE r # i.lo
    <3>1. ParentOf(r) \in CommitsOf(i.branch)
      BY <2>3, <2>5 DEF StoreInv, AncestryHolds
    <3>2. ParentOf(r) # None
      BY <3>1, NoneIsNoRevision DEF CommitsOf
    <3>3. VersionOf(ParentOf(r)) # VersionOf(r)
      <4>1. RowOf(ParentOf(r)) # RowOf(r)
        BY <2>1, <3>2 DEF Introduces
      <4>2. ParentOf(r) \in RevisionIds /\ commits[ParentOf(r)] # None
        BY <2>3, <3>2, ParentIs
      <4> QED
        BY <2>3, <4>1, <4>2, VersionsTell
    <3>4. r \in Steps[i]
      BY <1>2, <2>2, <2>3, <2>5, <3>3
    <3>5. <<VersionOf(r), r>> \in Inside(i)
      BY <2>3, <3>4
    <3> HIDE DEF AtSeams, Inside
    <3> QED
      BY <1>1, <2>3, <3>5
  <2> QED
    BY <2>4, <2>5
<1>7. ASSUME NEW e \in found
      PROVE  e \in introduced
  <2>1. e[1] # None /\ (e \in AtSeams \/ \E i \in lineage : e \in Inside(i))
    <3> HIDE DEF AtSeams, Inside
    <3> QED
      BY <1>1
  <2> HIDE DEF introduced
  <2>2. CASE e \in AtSeams
    <3>1. PICK i \in lineage : BeforeStart(lineage, i) # AtStart(i) /\ e = <<AtStart(i), i.lo>>
      BY <2>2
    <3> QED
      BY <1>5, <2>1, <3>1
  <2>3. CASE \E i \in lineage : e \in Inside(i)
    <3>1. PICK i \in lineage : \E s \in Steps[i] : e = <<VersionAt(i.branch, s), s>>
      BY <2>3
    <3>2. PICK s \in Steps[i] : e = <<VersionAt(i.branch, s), s>>
      BY <3>1
    <3> QED
      BY <1>4, <2>1, <3>2
  <2> QED
    BY <2>1, <2>2, <2>3
<1>8. found = introduced
  <2> HIDE DEF found
  <2> QED
    BY <1>6, <1>7
<1> QED
  BY <1>8

\* So, with more of their later holders, does the scan; of each version the oldest is
\* taken.
LEMMA IntroductionsAre ==
  ASSUME StoreInv, NEW tip \in RevisionIds, HasRow(tip), NEW strategy \in Strategies
  PROVE  Introductions(strategy, Lineage[tip]) = Introducing(tip)
<1> DEFINE lineage == Lineage[tip]
           found == Found(strategy, lineage)
           holders == {r \in Path[tip] : HasRow(r)}
           pairs(S) == {<<VersionOf(r), r>> : r \in S}
<1>1. commits[tip] # None
  BY DEF HasRow
<1>2. ASSUME NEW r \in Path[tip]
      PROVE  /\ r \in RevisionIds /\ r \in Nat /\ commits[r] # None
             /\ VersionOf(r) # None <=> HasRow(r)
  BY <1>1, PathIsOlder, VersionsTell, BoundsAssumption DEF RevisionIds
<1>3. \E S : found = pairs(S) /\ Introducing(tip) \subseteq S /\ S \subseteq holders
  <2>1. CASE strategy = "bisect"
    <3>1. found = pairs(Introducing(tip))
      BY <2>1, BisectionFinds
    <3>2. Introducing(tip) \subseteq holders
      BY DEF Introducing, Introduces
    <3> QED
      BY <3>1, <3>2
  <2>2. CASE strategy = "scan"
    <3> DEFINE Inside(i) == {<<commits[r].row.versionId, r>> :
                               r \in {q \in CommitsOf(i.branch) : HasRow(q) /\ q <= i.hi}}
    <3>1. found = {e \in UNION {Inside(i) : i \in lineage} : e[1] # None}
      BY <2>2 DEF Found, Scanned
    <3>2. ASSUME NEW r, HasRow(r)
          PROVE  commits[r].row.versionId = VersionOf(r)
      BY <3>2 DEF HasRow, VersionOf, RowOf
    <3>3. ASSUME NEW e \in found
          PROVE  e \in pairs(holders)
      <4>1. PICK i \in lineage : e \in Inside(i)
        <5> HIDE DEF Inside
        <5> QED
          BY <3>1
      <4>2. PICK r \in CommitsOf(i.branch) :
              HasRow(r) /\ r <= i.hi /\ e = <<commits[r].row.versionId, r>>
        BY <4>1
      <4>3. r \in RevisionIds
        BY DEF CommitsOf
      <4>4. r \in holders
        BY <1>1, <4>2, <4>3, LineageCovers
      <4> QED
        BY <3>2, <4>2, <4>4
    <3>4. ASSUME NEW r \in holders
          PROVE  <<VersionOf(r), r>> \in found
      <4>1. PICK i \in lineage : r \in CommitsOf(i.branch) /\ r <= i.hi
        BY <1>1, LineageCovers
      <4>2. <<VersionOf(r), r>> \in Inside(i)
        BY <3>2, <4>1
      <4> HIDE DEF Inside
      <4> QED
        BY <1>2, <3>1, <4>2
    <3>5. found = pairs(holders)
      <4> HIDE DEF found, holders
      <4> QED
        BY <3>3, <3>4
    <3>6. Introducing(tip) \subseteq holders
      BY DEF Introducing, Introduces
    <3> QED
      BY <3>5, <3>6
  <2> QED
    BY <2>1, <2>2 DEF Strategies
<1>4. PICK S : found = pairs(S) /\ Introducing(tip) \subseteq S /\ S \subseteq holders
  BY <1>3
<1> DEFINE oldest == {r \in S : \A q \in S : VersionOf(r) = VersionOf(q) => r <= q}
<1>5. Introductions(strategy, lineage) = oldest
  <2> DEFINE first == {f \in found : \A g \in found : f[1] = g[1] => f[2] <= g[2]}
  <2>1. Introductions(strategy, lineage) = {e[2] : e \in first}
    BY DEF Introductions
  <2> HIDE DEF found
  <2>2. /\ \A r \in S : <<VersionOf(r), r>> \in found
        /\ \A g \in found : \E q \in S : g = <<VersionOf(q), q>>
    BY <1>4
  <2>3. ASSUME NEW r \in oldest
        PROVE  r \in {e[2] : e \in first}
    <3> DEFINE e == <<VersionOf(r), r>>
    <3>1. ASSUME NEW g \in found, e[1] = g[1]
          PROVE  e[2] <= g[2]
      <4>1. PICK q \in S : g = <<VersionOf(q), q>>
        BY <2>2
      <4> QED
        BY <3>1, <4>1
    <3>2. e \in first /\ e[2] = r
      BY <2>2, <3>1
    <3> HIDE DEF first, e
    <3> QED
      BY <3>2
  <2>4. ASSUME NEW e \in first
        PROVE  e[2] \in oldest
    <3>1. PICK r \in S : e = <<VersionOf(r), r>>
      BY <2>2
    <3>2. ASSUME NEW q \in S, VersionOf(r) = VersionOf(q)
          PROVE  r <= q
      <4> DEFINE g == <<VersionOf(q), q>>
      <4>1. g \in found /\ g[1] = e[1] /\ g[2] = q /\ e[2] = r
        BY <2>2, <3>1, <3>2
      <4> HIDE DEF g
      <4> QED
        BY <4>1
    <3> QED
      BY <3>1, <3>2
  <2> HIDE DEF first
  <2>5. \A r : r \in {e[2] : e \in first} => r \in oldest
    <3> HIDE DEF oldest
    <3> QED
      BY <2>4
  <2> HIDE DEF oldest
  <2> QED
    BY <2>1, <2>3, <2>5
<1>6. ASSUME NEW r \in Introducing(tip)
      PROVE  r \in oldest
  <2>1. r \in S /\ r \in holders /\ Introduces(r)
    BY <1>4 DEF Introducing
  <2>2. ASSUME NEW q \in S, VersionOf(r) = VersionOf(q)
        PROVE  r <= q
    <3>1. q \in holders
      BY <1>4
    <3>2. RowOf(r).versionId = RowOf(q).versionId
      <4>1. RowOf(r) # None /\ RowOf(q) # None
        BY <2>1, <3>1 DEF HasRow, RowOf
      <4> QED
        BY <2>2, <4>1 DEF VersionOf
    <3> QED
      BY <1>2, <2>1, <3>1, <3>2 DEF StoreInv, VersionsHold
  <2> QED
    BY <2>1, <2>2
<1>7. ASSUME NEW r \in oldest
      PROVE  r \in Introducing(tip)
  <2>1. r \in holders
    BY <1>4
  <2>2. r \in RevisionIds /\ HasRow(r) /\ r \in Nat
    BY <1>2, <2>1
  <2>3. PICK m \in Path[r] : Introduces(m) /\ RowOf(m) = RowOf(r)
    BY <2>2, IntroductionOf
  <2>4. m \in Path[tip] /\ m <= r /\ commits[r] # None
    BY <1>1, <1>2, <2>1, <2>2, <2>3, PathGoesOn
  <2>5. m \in S /\ VersionOf(m) = VersionOf(r)
    BY <1>4, <2>3, <2>4 DEF Introducing, VersionOf
  <2>6. r <= m /\ m \in Nat
    BY <1>2, <2>4, <2>5
  <2>7. m = r
    BY <2>2, <2>4, <2>6
  <2> QED
    BY <2>1, <2>3, <2>7 DEF Introducing
<1> QED
  BY <1>5, <1>6, <1>7

\* What the service checks of an ancestry holds, of every committed revision's.
LEMMA NotRefused ==
  ASSUME StoreInv, NEW tip \in RevisionIds, HasRow(tip), NEW strategy
  PROVE  ~Refused(strategy, Lineage[tip])
<1> DEFINE lineage == Lineage[tip]
<1>1. commits[tip] # None
  BY DEF HasRow
<1>2. ASSUME NEW i \in lineage
      PROVE  /\ i.lo \in CommitsOf(i.branch) /\ commits[i.lo].isStart
             /\ i.hi \in CommitsOf(i.branch) /\ i.hi \in Path[tip] /\ i.lo <= i.hi
             /\ i.lo \in RevisionIds /\ i.hi \in RevisionIds /\ i.branch \in Branches
             /\ commits[i.lo] # None
             /\ AtStart(i) = VersionOf(i.lo)
             /\ BeforeStart(lineage, i) =
                  IF ParentOf(i.lo) = None THEN None ELSE VersionOf(ParentOf(i.lo))
  <2>1. /\ i \in Intervals /\ i.lo = StartOf(i.branch)
        /\ i.hi \in Path[tip] /\ commits[i.hi].branch = i.branch
    BY <1>1, LineageCovers
  <2>2. i.hi \in CommitsOf(i.branch)
    BY <1>1, <2>1, PathIsOlder DEF CommitsOf
  <2>3. i.lo \in RevisionIds /\ i.hi \in RevisionIds /\ i.branch \in Branches
    BY <2>1 DEF Intervals
  <2>4. i.lo \in CommitsOf(i.branch) => commits[i.lo] # None
    BY DEF CommitsOf
  <2> QED
    BY <1>1, <2>1, <2>2, <2>3, <2>4, SeamIs
<1>3. ~HasGap(lineage)
  <2> SUFFICES ASSUME NEW i \in lineage, ParentOf(i.lo) = None,
                      NEW r \in RevisionIds, r < i.lo
               PROVE  FALSE
    BY DEF HasGap
  <2>1. i.lo = 1
    BY <1>2 DEF StoreInv, AncestryHolds
  <2> QED
    BY <2>1, BoundsAssumption DEF RevisionIds
<1>4. ~HasDraft(lineage)
  <2> SUFFICES ASSUME NEW i \in lineage, draftSequence[i.branch] <= i.hi
               PROVE  FALSE
    BY DEF HasDraft
  <2>1. draftSequence[i.branch] # None
    BY <1>2 DEF StoreInv, DraftsAreAhead, BranchExists
  <2>2. i.hi < draftSequence[i.branch] /\ draftSequence[i.branch] \in Nat
    BY <1>2, <2>1 DEF StoreInv, DraftsAreAhead, TypeOK
  <2> QED
    BY <1>2, <2>2, BoundsAssumption DEF RevisionIds
<1>5. ~RowReappears(lineage)
  <2>1. ASSUME NEW i \in lineage, NEW s \in Steps[i]
        PROVE  VersionAt(i.branch, s) # None
    <3>1. /\ s \in CommitsOf(i.branch) /\ i.lo < s /\ s <= i.hi
          /\ VersionOf(ParentOf(s)) # VersionOf(s)
      BY StepsOfLineage
    <3>2. /\ s \in RevisionIds /\ commits[s] # None /\ commits[s].branch = i.branch
          /\ s \in Nat /\ i.lo \in Nat /\ i.hi \in Nat
      BY <1>2, <3>1, BoundsAssumption DEF CommitsOf, RevisionIds
    <3>3. ~commits[s].isStart
      BY <1>2, <3>1, <3>2 DEF StoreInv, AncestryHolds
    <3>4. ParentOf(s) \in CommitsOf(i.branch)
      BY <3>2, <3>3 DEF StoreInv, AncestryHolds
    <3>5. /\ ParentOf(s) \in RevisionIds /\ commits[ParentOf(s)] # None /\ ParentOf(s) \in Nat
          /\ ParentOf(s) < s
      BY <3>2, <3>4, NoneIsNoRevision, ParentIs, BoundsAssumption DEF CommitsOf, RevisionIds
    <3>6. s \in Path[tip] /\ ParentOf(s) \in Path[tip]
      <4>1. ParentOf(s) <= i.hi
        BY <3>1, <3>2, <3>5
      <4> QED
        BY <1>1, <3>1, <3>2, <3>4, <3>5, <4>1, LineageCovers
    <3>7. HasRow(ParentOf(s)) => HasRow(s)
      BY <3>2, <3>5, <3>6, RowStays
    <3>8. HasRow(s)
      BY <3>1, <3>2, <3>5, <3>7, VersionsTell
    <3> QED
      BY <3>1, <3>2, <3>8, VersionAtCommit, VersionsTell
  <2>2. ASSUME NEW i \in lineage, AtStart(i) = None
        PROVE  BeforeStart(lineage, i) = None
    <3>1. CASE ParentOf(i.lo) = None
      BY <1>2, <3>1
    <3>2. CASE ParentOf(i.lo) # None
      <4>1. RowOf(ParentOf(i.lo)) = RowOf(i.lo)
        BY <1>2, <3>2, ParentIs
      <4>2. VersionOf(ParentOf(i.lo)) = VersionOf(i.lo)
        BY <4>1 DEF VersionOf
      <4> QED
        BY <1>2, <2>2, <3>2, <4>2
    <3> QED
      BY <3>1, <3>2
  <2> QED
    BY <2>1, <2>2 DEF RowReappears
<1> QED
  BY <1>3, <1>4, <1>5 DEF Refused

-----------------------------------------------------------------------------
(* Events. *)

\* An introduction changed what is different from the commit before.
LEMMA ChangedIs ==
  ASSUME StoreInv, NEW tip \in RevisionIds, commits[tip] # None, NEW s \in Introducing(tip)
  PROVE  IntroducedBy(Introducing(tip), s) = Changed(s)
<1> DEFINE older == {q \in Introducing(tip) : q < s}
           p == ParentOf(s)
<1>1. \A q \in Path[tip] : q \in RevisionIds /\ q \in Nat /\ commits[q] # None
  BY PathIsOlder, BoundsAssumption DEF RevisionIds
<1>2. s \in Path[tip] /\ Introduces(s) /\ s \in RevisionIds /\ s \in Nat /\ commits[s] # None
  BY <1>1 DEF Introducing
<1>3. IntroducedBy(Introducing(tip), s) =
        IF older = {} THEN {"created"} ELSE ChangeKinds(RowOf(Max(older)), RowOf(s))
  BY DEF IntroducedBy, RowOf
<1>4. Changed(s) = IF p = None \/ ~HasRow(p) THEN {"created"} ELSE ChangeKinds(RowOf(p), RowOf(s))
  BY DEF Changed, RowOf
<1>5. CASE p = None \/ ~HasRow(p)
  <2>1. older = {}
    <3> SUFFICES ASSUME NEW q \in Introducing(tip), q < s
                 PROVE  FALSE
      OBVIOUS
    <3>1. q \in RevisionIds /\ q \in Nat /\ HasRow(q)
      BY <1>1 DEF Introducing, Introduces
    <3>2. s <= q
      BY <1>2, <1>5, <3>1 DEF StoreInv, VersionsHold
    <3> QED
      BY <1>2, <3>1, <3>2
  <2> QED
    BY <1>3, <1>4, <1>5, <2>1
<1>6. CASE p # None /\ HasRow(p)
  <2>1. p \in RevisionIds /\ p < s /\ p \in Nat /\ commits[p] # None
    BY <1>2, <1>6, ParentIs, BoundsAssumption DEF RevisionIds
  <2>2. Path[s] = {s} \cup Path[p] /\ Path[s] = {x \in Path[tip] : x <= s}
    BY <1>2, <1>6, PathIs, PathGoesOn
  <2>3. PICK m \in Path[p] :
          /\ Introduces(m) /\ RowOf(m) = RowOf(p)
          /\ \A q \in Path[p] : m <= q => RowOf(q) = RowOf(p)
    BY <1>6, <2>1, IntroductionOf
  <2>4. \A x \in Path[p] : x \in Nat /\ x <= p
    BY <2>1, PathIsOlder, BoundsAssumption DEF RevisionIds
  <2>5. m \in older
    <3>1. m < s /\ m \in Path[tip]
      BY <1>2, <2>1, <2>2, <2>3, <2>4
    <3> QED
      BY <2>3, <3>1 DEF Introducing
  <2>6. older \in SUBSET RevisionIds
    BY <1>1 DEF Introducing
  <2>7. Max(older) \in older /\ m <= Max(older)
    <3> HIDE DEF older
    <3> QED
      BY <2>5, <2>6, FirstAndLast
  <2>8. Max(older) \in Path[tip] /\ Max(older) < s
    BY <2>7 DEF Introducing
  <2>9. Max(older) \in Path[p]
    <3> HIDE DEF older
    <3>1. Max(older) \in Nat /\ Max(older) <= s /\ Max(older) # s
      BY <1>1, <1>2, <2>8
    <3> QED
      BY <2>2, <2>8, <3>1
  <2>10. RowOf(Max(older)) = RowOf(p)
    <3> HIDE DEF older
    <3> QED
      BY <2>3, <2>7, <2>9
  <2> QED
    BY <1>3, <1>4, <1>6, <2>5, <2>10
<1> QED
  BY <1>5, <1>6

\* The events of a history.
EventsOf(tip) == {Event(r, Changed(r)) : r \in {q \in Path[tip] : HasRow(q) /\ Changed(q) # {}}}

\* Only a commit that introduced a version has changed the row.
LEMMA ChangesAreIntroductions ==
  ASSUME StoreInv, NEW r \in RevisionIds, HasRow(r), Changed(r) # {}
  PROVE  Introduces(r)
<1> SUFFICES ASSUME ~Introduces(r)
             PROVE  FALSE
  OBVIOUS
<1>1. ParentOf(r) # None /\ RowOf(ParentOf(r)) = RowOf(r) /\ commits[r] # None
  BY DEF Introduces, HasRow
<1>2. commits[ParentOf(r)] # None
  BY <1>1, ParentIs
<1>3. HasRow(ParentOf(r))
  BY <1>1, <1>2 DEF HasRow, RowOf
<1>4. Changed(r) = ChangeKinds(RowOf(ParentOf(r)), RowOf(r))
  BY <1>1, <1>3 DEF Changed, RowOf
<1> QED
  BY <1>1, <1>4 DEF ChangeKinds

\* They are well formed, there is one at least, and one to a commit.
LEMMA EventsFit ==
  ASSUME StoreInv, NEW tip \in RevisionIds, HasRow(tip)
  PROVE  /\ EventsOf(tip) \in SUBSET Events /\ EventsOf(tip) # {}
         /\ IsFiniteSet(EventsOf(tip))
         /\ \A e, f \in EventsOf(tip) : e.revision = f.revision => e = f
<1> DEFINE changing == {q \in Path[tip] : HasRow(q) /\ Changed(q) # {}}
           event(r) == Event(r, Changed(r))
<1>1. commits[tip] # None
  BY DEF HasRow
<1>2. \A q \in Path[tip] : q \in RevisionIds /\ q \in Nat /\ commits[q] # None
  BY <1>1, PathIsOlder, BoundsAssumption DEF RevisionIds
<1>3. ASSUME NEW r \in changing
      PROVE  event(r) \in Events /\ event(r).revision = r
  <2>1. r \in RevisionIds /\ RowOf(r) \in RowRecord
    BY <1>2, RowIs DEF StoreInv
  <2>2. Changed(r) \in SUBSET Kinds
    BY DEF Changed, ChangeKinds, Kinds
  <2> QED
    BY <2>1, <2>2 DEF Event, Events, RowOf
<1>4. EventsOf(tip) = {event(r) : r \in changing}
  BY DEF EventsOf
<1>5. changing # {}
  <2>1. PICK m \in Path[tip] : Introduces(m)
    BY IntroductionOf
  <2>2. Introducing(tip) \in SUBSET RevisionIds /\ Introducing(tip) # {}
    BY <1>2, <2>1 DEF Introducing
  <2> DEFINE s == Min(Introducing(tip))
  <2>3. s \in Introducing(tip) /\ \A q \in Introducing(tip) : s <= q
    BY <2>2, FirstAndLast
  <2>4. s \in Path[tip] /\ HasRow(s) /\ s \in Nat
    BY <1>2, <2>3 DEF Introducing, Introduces
  <2> HIDE DEF s
  <2>5. {q \in Introducing(tip) : q < s} = {}
    BY <1>2, <2>3, <2>4 DEF Introducing
  <2>6. Changed(s) = {"created"}
    BY <1>1, <2>3, <2>5, ChangedIs DEF IntroducedBy
  <2> QED
    BY <2>4, <2>6
<1>6. IsFiniteSet(changing)
  <2>1. IsFiniteSet(RevisionIds)
    BY FS_Interval, BoundsAssumption DEF RevisionIds
  <2>2. changing \in SUBSET RevisionIds
    BY <1>2
  <2> HIDE DEF changing
  <2> QED
    BY <2>1, <2>2, FS_Subset
<1> HIDE DEF changing, event
<1>7. IsFiniteSet({event(r) : r \in changing})
  <2> DEFINE f == [r \in changing |-> event(r)]
  <2>1. f \in Surjection(changing, {event(r) : r \in changing})
    BY DEF Surjection, Range
  <2> QED
    BY <1>6, <2>1, FS_Surjection
<1> QED
  BY <1>3, <1>4, <1>5, <1>7

\* Both strategies give the same events.
LEMMA EventsAre ==
  ASSUME StoreInv, NEW tip \in RevisionIds, HasRow(tip), NEW strategy \in Strategies
  PROVE  LET introductions == Introductions(strategy, Lineage[tip])
         IN  {e \in {Event(s, IntroducedBy(introductions, s)) : s \in introductions} :
                e.introducedBy # {}} = EventsOf(tip)
<1> DEFINE I == Introducing(tip)
           event(s) == Event(s, IntroducedBy(I, s))
           found == {e \in {event(s) : s \in I} : e.introducedBy # {}}
<1>1. commits[tip] # None
  BY DEF HasRow
<1>2. \A s \in I : event(s) = Event(s, Changed(s)) /\ event(s).introducedBy = Changed(s)
  BY <1>1, ChangedIs DEF Event
<1>3. \A s \in I : s \in Path[tip] /\ HasRow(s)
  BY DEF Introducing, Introduces
<1>4. \A r \in Path[tip] : HasRow(r) /\ Changed(r) # {} => r \in I
  BY <1>1, PathIsOlder, ChangesAreIntroductions DEF Introducing
<1> HIDE DEF I, event
<1>5. found = EventsOf(tip)
  <2>1. ASSUME NEW e \in found
        PROVE  e \in EventsOf(tip)
    <3>1. PICK s \in I : e = event(s) /\ e.introducedBy # {}
      OBVIOUS
    <3> QED
      BY <1>2, <1>3, <3>1 DEF EventsOf
  <2>2. ASSUME NEW e \in EventsOf(tip)
        PROVE  e \in found
    <3>1. PICK r \in Path[tip] : HasRow(r) /\ Changed(r) # {} /\ e = Event(r, Changed(r))
      BY DEF EventsOf
    <3> QED
      BY <1>2, <1>4, <3>1
  <2> HIDE DEF found
  <2> QED
    BY <2>1, <2>2
<1>6. Introductions(strategy, Lineage[tip]) = I
  BY IntroductionsAre DEF I
<1> QED
  BY <1>5, <1>6 DEF event

-----------------------------------------------------------------------------
(* Streams. *)

\* Events of as many revisions are put in their order.
LEMMA NewestIs ==
  ASSUME NEW S \in SUBSET Events, IsFiniteSet(S),
         \A e, f \in S : e.revision = f.revision => e = f
  PROVE  /\ Newest(S) \in Seq(Events) /\ Len(Newest(S)) = Cardinality(S)
         /\ \A k, l \in 1..Len(Newest(S)) :
              k < l => Newest(S)[l].revision < Newest(S)[k].revision
<1> DEFINE n == Cardinality(S)
           above(e) == {f \in S : f.revision > e.revision}
           rank == [e \in S |-> Cardinality(above(e))]
           stream == Newest(S)
<1>1. n \in Nat
  BY FS_CardinalityType
<1>2. \A e \in S : e.revision \in Nat
  BY BoundsAssumption DEF Events, RevisionIds
<1>3. ASSUME NEW e \in S
      PROVE  IsFiniteSet(above(e)) /\ Cardinality(above(e)) \in 0..(n - 1)
  <2>1. above(e) \in SUBSET S /\ e \notin above(e)
    BY <1>2
  <2> HIDE DEF above
  <2>2. IsFiniteSet(above(e)) /\ Cardinality(above(e)) <= n /\ Cardinality(above(e)) # n
    BY <2>1, FS_Subset
  <2>3. Cardinality(above(e)) \in Nat
    BY <2>2, FS_CardinalityType
  <2> QED
    BY <1>1, <2>2, <2>3
<1>4. ASSUME NEW e \in S, NEW f \in S, e.revision < f.revision
      PROVE  Cardinality(above(f)) < Cardinality(above(e))
  <2>1. above(f) \in SUBSET above(e) /\ f \in above(e) /\ f \notin above(f)
    BY <1>2, <1>4
  <2> HIDE DEF above
  <2>2. /\ Cardinality(above(f)) <= Cardinality(above(e))
        /\ Cardinality(above(f)) # Cardinality(above(e))
    BY <1>3, <2>1, FS_Subset
  <2> QED
    BY <1>1, <1>3, <2>2
<1>5. rank \in Injection(S, 0..(n - 1))
  <2>1. rank \in [S -> 0..(n - 1)]
    BY <1>3
  <2>2. ASSUME NEW e \in S, NEW f \in S, rank[e] = rank[f]
        PROVE  e = f
    <3> HIDE DEF above
    <3>1. ~(e.revision < f.revision) /\ ~(f.revision < e.revision)
      BY <1>3, <1>4, <2>2
    <3>2. e.revision = f.revision
      BY <1>2, <3>1
    <3> QED
      BY <3>2
  <2> HIDE DEF rank
  <2> QED
    BY <2>1, <2>2 DEF Injection, IsInjective
<1>6. rank \in Surjection(S, 0..(n - 1))
  <2>1. IsFiniteSet(0..(n - 1)) /\ Cardinality(0..(n - 1)) = n
    <3> HIDE DEF n, rank
    <3> DEFINE k == n - 1
    <3>1. k \in Int /\ (IF 0 > k THEN 0 ELSE k - 0 + 1) = n
      BY <1>1
    <3> HIDE DEF k
    <3>2. IsFiniteSet(0..k) /\ Cardinality(0..k) = n
      BY <3>1, FS_Interval
    <3> QED
      BY <3>2 DEF k
  <2> HIDE DEF rank
  <2> QED
    BY <1>5, <2>1, FS_Injection
<1>7. ASSUME NEW k \in 1..n
      PROVE  stream[k] \in S /\ Cardinality(above(stream[k])) = k - 1
  <2>1. k - 1 \in 0..(n - 1)
    BY <1>1
  <2>2. \E e \in S : rank[e] = k - 1
    <3> HIDE DEF rank
    <3> QED
      BY <1>6, <2>1 DEF Surjection, Range
  <2>3. \E e \in S : Cardinality(above(e)) = k - 1
    BY <2>2
  <2>4. stream[k] = CHOOSE e \in S : Cardinality(above(e)) = k - 1
    BY DEF Newest
  <2> HIDE DEF above, stream
  <2> QED
    BY <2>3, <2>4
<1>8. stream \in Seq(Events) /\ Len(stream) = n
  <2> DEFINE at(k) == CHOOSE e \in S : Cardinality(above(e)) = k - 1
  <2>1. stream = [k \in 1..n |-> at(k)]
    BY DEF Newest
  <2> HIDE DEF stream, at, n
  <2>2. \A k \in 1..n : at(k) \in Events
    BY <1>7, <2>1
  <2>3. stream \in [1..n -> Events]
    BY <2>1, <2>2
  <2> QED
    BY <1>1, <2>3
<1>9. ASSUME NEW k \in 1..Len(stream), NEW l \in 1..Len(stream), k < l
      PROVE  stream[l].revision < stream[k].revision
  <2>1. /\ stream[k] \in S /\ Cardinality(above(stream[k])) = k - 1
        /\ stream[l] \in S /\ Cardinality(above(stream[l])) = l - 1
    BY <1>7, <1>8
  <2> HIDE DEF above, stream
  <2>2. stream[k].revision \in Nat /\ stream[l].revision \in Nat /\ k \in Int /\ l \in Int
    BY <1>2, <2>1
  <2>3. ~(stream[k].revision < stream[l].revision)
    BY <1>4, <1>9, <2>1, <2>2
  <2>4. stream[k].revision # stream[l].revision
    <3>1. stream[k] = stream[l] => k - 1 = l - 1
      BY <2>1
    <3> QED
      BY <1>9, <2>1, <2>2, <3>1
  <2> QED
    BY <2>2, <2>3, <2>4
<1> QED
  BY <1>8, <1>9

\* A history, newest change first.
Descending(stream) ==
  /\ stream \in Seq(Events)
  /\ \A k, l \in 1..Len(stream) : k < l => stream[l].revision < stream[k].revision

\* What the service finds is what changed the row, all but the newest change.
LEMMA HistoryIs ==
  ASSUME StoreInv, NEW tip \in RevisionIds, HasRow(tip)
  PROVE  /\ Descending(PreviousChanges(tip))
         /\ \A strategy \in Strategies :
              PreviousEvents(strategy, Lineage[tip]) = PreviousChanges(tip)
<1> DEFINE stream == Newest(EventsOf(tip))
<1>1. /\ stream \in Seq(Events) /\ Len(stream) = Cardinality(EventsOf(tip))
      /\ \A k, l \in 1..Len(stream) : k < l => stream[l].revision < stream[k].revision
  BY EventsFit, NewestIs
<1>2. stream # <<>>
  <2>1. Cardinality(EventsOf(tip)) # 0
    BY EventsFit, FS_EmptySet
  <2> HIDE DEF stream
  <2> QED
    BY <1>1, <2>1
<1>3. PreviousChanges(tip) = Tail(stream)
  BY DEF PreviousChanges, EventsOf
<1>4. ASSUME NEW strategy \in Strategies
      PROVE  PreviousEvents(strategy, Lineage[tip]) = Tail(stream)
  <2> DEFINE I == Introductions(strategy, Lineage[tip])
             found == {e \in {Event(s, IntroducedBy(I, s)) : s \in I} : e.introducedBy # {}}
  <2>1. found = EventsOf(tip)
    BY EventsAre
  <2>2. PreviousEvents(strategy, Lineage[tip]) =
          IF Newest(found) = <<>> THEN <<>> ELSE Tail(Newest(found))
    BY DEF PreviousEvents
  <2> HIDE DEF found
  <2> QED
    BY <1>2, <2>1, <2>2
<1>5. Descending(Tail(stream))
  <2> HIDE DEF stream
  <2>1. /\ Tail(stream) \in Seq(Events) /\ Len(Tail(stream)) = Len(stream) - 1
        /\ \A k \in 1..Len(Tail(stream)) : Tail(stream)[k] = stream[k + 1]
    BY <1>1, <1>2, HeadTailProperties
  <2>2. Len(stream) \in Nat
    BY <1>1
  <2>3. ASSUME NEW k \in 1..Len(Tail(stream)), NEW l \in 1..Len(Tail(stream)), k < l
        PROVE  Tail(stream)[l].revision < Tail(stream)[k].revision
    <3>1. k + 1 \in 1..Len(stream) /\ l + 1 \in 1..Len(stream) /\ k + 1 < l + 1
      BY <2>1, <2>2, <2>3
    <3> QED
      BY <1>1, <2>1, <3>1
  <2> QED
    BY <2>1, <2>3 DEF Descending
<1> QED
  BY <1>3, <1>4, <1>5

\* A page goes on where the pages before it ended.
LEMMA PageFits ==
  ASSUME NEW stream, Descending(stream), NEW got \in Seq(Events), IsPrefix(got, stream),
         NEW first \in PageSizes
  PROVE  LET after == IF got = <<>> THEN None ELSE Last(got).revision
             rest == Rest(stream, after)
             more == got \o SubSeq(rest, 1, Min({first, Len(rest)}))
         IN  /\ CursorValid(stream, after)
             /\ more \in Seq(Events) /\ IsPrefix(more, stream)
             /\ ~(Len(rest) > first) => more = stream
<1> DEFINE n == Len(stream)
           m == Len(got)
           after == IF got = <<>> THEN None ELSE Last(got).revision
           rest == Rest(stream, after)
           positions == {k \in DOMAIN stream : after = None \/ stream[k].revision < after}
           count == Min({first, Len(rest)})
           more == got \o SubSeq(rest, 1, count)
<1>1. /\ stream \in Seq(Events) /\ n \in Nat /\ m \in Nat /\ m <= n /\ DOMAIN stream = 1..n
      /\ first \in Nat
      /\ \A k, l \in 1..n : k < l => stream[l].revision < stream[k].revision
  BY BoundsAssumption DEF Descending, IsPrefix
<1>2. got = SubSeq(stream, 1, m)
  <2>1. SubSeq(got, 1, m) = got
    BY SubSeqFull
  <2> QED
    BY <2>1 DEF IsPrefix
<1>3. \A k \in 1..n : stream[k].revision \in Nat /\ stream[k] \in Events
  <2>1. \A k \in 1..n : stream[k] \in Events
    BY <1>1, ElementOfSeq
  <2> QED
    BY <2>1, BoundsAssumption DEF Events, RevisionIds
<1>4. /\ m = 0 <=> got = <<>>
      /\ m # 0 => m \in 1..n /\ after = stream[m].revision /\ after # None
  <2>1. m = 0 <=> got = <<>>
    BY EmptySeq
  <2>2. ASSUME m # 0
        PROVE  m \in 1..n /\ after = stream[m].revision /\ after # None
    <3>1. m \in 1..m /\ m \in 1..n
      BY <1>1, <2>2
    <3>2. got[m] = stream[m]
      <4> HIDE DEF m, n
      <4>1. \A k \in 1..m : stream[k] \in Events
        BY <1>1, <1>3
      <4>2. SubSeq(stream, 1, m)[m] = stream[m]
        BY <1>1, <3>1, <4>1
      <4> QED
        BY <1>2, <4>2
    <3>3. after = got[m].revision
      BY <2>1, <2>2 DEF Last
    <3> QED
      BY <1>3, <3>1, <3>2, <3>3, NoneAssumption
  <2> QED
    BY <2>1, <2>2
<1>5. CursorValid(stream, after)
  <2> HIDE DEF after, m, n
  <2>1. CASE m = 0
    BY <1>4, <2>1 DEF CursorValid, after
  <2>2. CASE m # 0
    BY <1>1, <1>4, <2>2 DEF CursorValid
  <2> QED
    BY <2>1, <2>2
<1>6. positions = (m + 1)..n
  <2> HIDE DEF after, m, n
  <2>1. CASE m = 0
    <3>1. after = None
      BY <1>4, <2>1 DEF after
    <3> QED
      BY <1>1, <2>1, <3>1
  <2>2. CASE m # 0
    <3>1. ASSUME NEW k \in 1..n
          PROVE  stream[k].revision < after <=> k \in (m + 1)..n
      <4>1. CASE k = m
        BY <1>1, <1>3, <1>4, <2>2, <4>1
      <4>2. CASE k < m
        <5>1. stream[m].revision < stream[k].revision
          BY <1>1, <1>4, <2>2, <4>2
        <5> QED
          BY <1>1, <1>3, <1>4, <2>2, <4>2, <5>1
      <4>3. CASE k > m
        BY <1>1, <1>3, <1>4, <2>2, <4>3
      <4> QED
        BY <1>1, <4>1, <4>2, <4>3
    <3> QED
      BY <1>1, <1>4, <2>2, <3>1
  <2> QED
    BY <2>1, <2>2
<1>7. rest = SubSeq(stream, m + 1, n)
  <2>1. rest = IF positions = {} THEN <<>> ELSE SubSeq(stream, Min(positions), n)
    BY DEF Rest, From
  <2> HIDE DEF positions, rest, m, n, after
  <2>2. CASE m = n
    <3>1. positions = {}
      BY <1>1, <1>6, <2>2
    <3>2. SubSeq(stream, m + 1, n) = <<>>
      BY <1>1, <2>2, SubSeqEmpty
    <3> QED
      BY <2>1, <3>1, <3>2
  <2>3. CASE m # n
    <3>1. m + 1 \in positions /\ \A k \in positions : m + 1 <= k
      BY <1>1, <1>6, <2>3
    <3>2. \A k \in positions : k \in Nat
      BY <1>1, <1>6
    <3>3. \E x \in positions : \A y \in positions : x <= y
      BY <3>1
    <3>4. Min(positions) \in positions /\ \A y \in positions : Min(positions) <= y
      BY <3>3, Zenon DEF Min
    <3>5. Min(positions) = m + 1
      BY <1>1, <3>1, <3>2, <3>4
    <3> QED
      BY <2>1, <3>1, <3>5
  <2> QED
    BY <2>2, <2>3
<1>8. /\ rest \in Seq(Events) /\ Len(rest) = n - m
      /\ \A k \in 1..(n - m) : rest[k] = stream[m + k]
  <2> HIDE DEF rest, m, n, after
  <2>1. \A k \in (m + 1)..n : stream[k] \in Events
    BY <1>1, <1>3
  <2> QED
    BY <1>1, <1>7, <2>1, SubSeqProperties
<1>9. count \in 0..(n - m) /\ (~(Len(rest) > first) => count = n - m)
  <2> HIDE DEF rest, m, n, after
  <2>1. first \in Int /\ Len(rest) \in Int
    BY <1>1, <1>8
  <2>2. \E x \in {first, Len(rest)} : \A y \in {first, Len(rest)} : x <= y
    BY <2>1
  <2>3. count \in {first, Len(rest)} /\ \A y \in {first, Len(rest)} : count <= y
    BY <2>2, Zenon DEF Min
  <2> HIDE DEF count
  <2> QED
    BY <1>1, <1>8, <2>1, <2>3
<1>10. SubSeq(rest, 1, count) = SubSeq(stream, m + 1, m + count)
  <2> HIDE DEF rest, m, n, after, count
  <2> DEFINE a == SubSeq(rest, 1, count)
             b == SubSeq(stream, m + 1, m + count)
  <2>1. \A k \in 1..count : rest[k] \in Events
    BY <1>1, <1>8, <1>9, ElementOfSeq
  <2>2. /\ a \in Seq(Events) /\ Len(a) = IF 1 <= count THEN count - 1 + 1 ELSE 0
        /\ \A k \in 1..(count - 1 + 1) : a[k] = rest[1 + k - 1]
    BY <1>9, <2>1, SubSeqProperties
  <2>3. \A k \in (m + 1)..(m + count) : stream[k] \in Events
    BY <1>1, <1>3, <1>9
  <2>4. /\ b \in Seq(Events)
        /\ Len(b) = IF m + 1 <= m + count THEN (m + count) - (m + 1) + 1 ELSE 0
        /\ \A k \in 1..((m + count) - (m + 1) + 1) : b[k] = stream[(m + 1) + k - 1]
    BY <1>1, <1>9, <2>3, SubSeqProperties
  <2> HIDE DEF a, b
  <2>5. Len(a) = count /\ Len(b) = count
    BY <1>1, <1>9, <2>2, <2>4
  <2>6. ASSUME NEW k \in 1..count
        PROVE  a[k] = b[k]
    <3>1. a[k] = rest[k] /\ b[k] = stream[m + k]
      BY <1>1, <1>9, <2>2, <2>4
    <3>2. k \in 1..(n - m)
      BY <1>1, <1>9
    <3> QED
      BY <1>8, <3>1, <3>2
  <2>7. a = b
    BY <2>2, <2>4, <2>5, <2>6, SeqEqual
  <2> QED
    BY <2>7 DEF a, b
<1>11. more = SubSeq(stream, 1, m + count)
  <2> HIDE DEF rest, m, n, after, count
  <2>1. 1 \in 1..(n + 1) /\ m \in (1 - 1)..n /\ m + count \in m..n
    BY <1>1, <1>9
  <2>2. SubSeq(stream, 1, m) \o SubSeq(stream, m + 1, m + count) = SubSeq(stream, 1, m + count)
    BY <1>1, <2>1, ConcatAdjacentSubSeq DEF n
  <2> QED
    BY <1>2, <1>10, <2>2
<1>12. more \in Seq(Events) /\ Len(more) = m + count
  <2> HIDE DEF rest, m, n, after, count, more
  <2>1. \A k \in 1..(m + count) : stream[k] \in Events
    BY <1>1, <1>3, <1>9
  <2> QED
    BY <1>1, <1>9, <1>11, <2>1, SubSeqProperties
<1>13. IsPrefix(more, stream)
  <2> HIDE DEF rest, m, n, after, count, more
  <2>1. SubSeq(more, 1, Len(more)) = more
    BY <1>12, SubSeqFull
  <2>2. Len(more) <= n
    BY <1>1, <1>9, <1>12
  <2> QED
    BY <1>11, <1>12, <2>1, <2>2 DEF IsPrefix, n
<1>14. ~(Len(rest) > first) => more = stream
  <2> HIDE DEF rest, m, after, count, more
  <2>1. ASSUME ~(Len(rest) > first)
        PROVE  m + count = n
    <3> HIDE DEF n
    <3> QED
      BY <1>1, <1>9, <2>1
  <2> QED
    BY <1>1, <1>11, <2>1, SubSeqFull
<1> QED
  BY <1>5, <1>12, <1>13, <1>14

-----------------------------------------------------------------------------
(* Steps: what is committed is not changed. *)

PathFacts ==
  \A r \in RevisionIds :
    /\ Path[r] = {r} \cup IF ParentOf(r) = None THEN {} ELSE Path[ParentOf(r)]
    /\ commits[r] # None /\ ParentOf(r) # None =>
         ParentOf(r) \in RevisionIds /\ ParentOf(r) < r /\ commits[ParentOf(r)] # None

\* What the proofs about two states use of paths, before a step and after it.
LEMMA PathsAre == ASSUME StoreInv PROVE PathFacts
BY PathIs, ParentIs DEF PathFacts

\* The same, after a step.
LEMMA PathsAreAfter == ASSUME StoreInv' PROVE PathFacts'
BY PathsAre, PTL

CommitsStay ==
  \A r \in RevisionIds : commits[r] # None /\ commits'[r] # None => commits'[r] = commits[r]

\* So the path of a commit that stays is the same after the step.
LEMMA PathStays ==
  ASSUME StoreInv, StoreInv', CommitsStay, NEW tip \in RevisionIds,
         commits[tip] # None, commits'[tip] # None
  PROVE  /\ Path'[tip] = Path[tip]
         /\ \A q \in Path[tip] : q \in RevisionIds /\ commits[q] # None /\ commits'[q] = commits[q]
<1> DEFINE Good(t) == /\ Path'[t] = Path[t]
                      /\ \A q \in Path[t] : commits'[q] = commits[q]
           bad == {t \in RevisionIds : commits[t] # None /\ commits'[t] # None /\ ~Good(t)}
<1>1. PathFacts /\ PathFacts'
  BY PathsAre, PathsAreAfter
<1>2. bad = {}
  <2> SUFFICES ASSUME bad # {}
               PROVE  FALSE
    OBVIOUS
  <2>1. PICK t \in bad : \A u \in bad : t <= u
    <3>1. bad \in SUBSET Nat
      BY BoundsAssumption DEF RevisionIds
    <3> HIDE DEF bad
    <3> QED
      BY <3>1, LeastNumber
  <2>2. t \in RevisionIds /\ t \in Nat /\ commits[t] # None /\ commits'[t] = commits[t]
    BY <2>1, BoundsAssumption DEF RevisionIds, CommitsStay
  <2>3. ParentOf(t)' = ParentOf(t)
    BY <2>2 DEF ParentOf
  <2> DEFINE p == ParentOf(t)
  <2>4. /\ Path[t] = {t} \cup IF p = None THEN {} ELSE Path[p]
        /\ Path'[t] = {t} \cup IF p = None THEN {} ELSE Path'[p]
        /\ p # None => /\ p \in RevisionIds /\ p < t /\ commits[p] # None
                       /\ commits'[p] # None
    BY <1>1, <2>2, <2>3 DEF PathFacts
  <2> HIDE DEF p
  <2>5. CASE p = None
    BY <2>1, <2>2, <2>4, <2>5
  <2>6. CASE p # None
    <3>1. p \in Nat
      BY <2>4, <2>6, BoundsAssumption DEF RevisionIds
    <3>2. Good(p)
      BY <2>1, <2>2, <2>4, <2>6, <3>1
    <3>3. Good(t)
      BY <2>2, <2>4, <2>6, <3>2
    <3> QED
      BY <2>1, <3>3
  <2> QED
    BY <2>5, <2>6
<1> QED
  BY <1>2, PathIsOlder

\* And so is its history.
LEMMA HistoryStays ==
  ASSUME StoreInv, StoreInv', CommitsStay, NEW tip \in RevisionIds,
         commits[tip] # None, commits'[tip] # None
  PROVE  HasRow(tip)' = HasRow(tip) /\ PreviousChanges(tip)' = PreviousChanges(tip)
<1>1. /\ Path'[tip] = Path[tip]
      /\ \A q \in Path[tip] : q \in RevisionIds /\ commits[q] # None /\ commits'[q] = commits[q]
  BY PathStays
<1>2. commits'[tip] = commits[tip]
  BY DEF CommitsStay
<1>3. ASSUME NEW q \in Path[tip]
      PROVE  HasRow(q)' = HasRow(q) /\ Changed(q)' = Changed(q) /\ commits'[q] = commits[q]
  <2>1. ParentOf(q)' = ParentOf(q)
    BY <1>1 DEF ParentOf
  <2>2. ParentOf(q) # None => commits'[ParentOf(q)] = commits[ParentOf(q)]
    <3> SUFFICES ASSUME ParentOf(q) # None
                 PROVE  commits'[ParentOf(q)] = commits[ParentOf(q)]
      OBVIOUS
    <3> DEFINE p == ParentOf(q)
    <3>1. p \in RevisionIds /\ commits[p] # None
      BY <1>1, ParentIs
    <3>2. p \in Path[q]
      BY <1>1, <3>1, PathsAre, PathIsOlder DEF PathFacts
    <3>3. Path[q] \subseteq Path[tip]
      BY PathGoesOn
    <3> QED
      BY <1>1, <3>2, <3>3
  <2>3. HasRow(q)' = HasRow(q)
    BY <1>1 DEF HasRow
  <2>4. Changed(q)' = Changed(q)
    BY <1>1, <2>1, <2>2 DEF Changed, HasRow, ChangeKinds
  <2> QED
    BY <1>1, <2>3, <2>4
<1>4. EventsOf(tip)' = EventsOf(tip)
  <2>1. EventsOf(tip)' =
          {Event(r, Changed(r))' : r \in {q \in Path[tip] : HasRow(q)' /\ Changed(q)' # {}}}
    BY <1>1 DEF EventsOf
  <2>2. \A q \in Path[tip] : Event(q, Changed(q))' = Event(q, Changed(q))
    BY <1>3 DEF Event
  <2>3. EventsOf(tip) = {Event(r, Changed(r)) : r \in {q \in Path[tip] : HasRow(q) /\ Changed(q) # {}}}
    BY DEF EventsOf
  <2> QED
    BY <1>3, <2>1, <2>2, <2>3
<1>5. HasRow(tip)' = HasRow(tip)
  BY <1>2 DEF HasRow
<1>6. PreviousChanges(tip) = Tail(Newest(EventsOf(tip)))
  BY DEF PreviousChanges, EventsOf
<1>7. PreviousChanges(tip)' = Tail(Newest(EventsOf(tip)'))
  BY DEF PreviousChanges, EventsOf
<1> QED
  BY <1>4, <1>5, <1>6, <1>7

\* A commit that may be added under d.
Fits(d, new) ==
  /\ new \in CommitRecord /\ commits[d] = None
  /\ new.parent \in RevisionIds /\ new.parent < d /\ commits[new.parent] # None
  /\ \A q \in CommitsOf(new.branch) : q < d
  /\ new.isStart => CommitsOf(new.branch) = {} /\ new.row = RowOf(new.parent)
  /\ ~new.isStart => /\ new.parent \in CommitsOf(new.branch)
                     /\ \A q \in CommitsOf(new.branch) : q <= new.parent
  /\ \/ new.row \in {RowOf(new.parent), None}
     \/ /\ new.row \in RowRecord
        /\ \A q \in RevisionIds : HasRow(q) => RowOf(q).versionId # new.row.versionId
        /\ HasRow(new.parent) \/ \A q \in RevisionIds : ~HasRow(q)

Adds(d, new) == commits' = [commits EXCEPT ![d] = new]

\* What is there when it was added.
LEMMA AddedIs ==
  ASSUME StoreInv, NEW d \in RevisionIds, NEW new, Fits(d, new), Adds(d, new)
  PROVE  /\ commits' \in [RevisionIds -> CommitRecord \cup {None}]
         /\ commits'[d] = new /\ new # None
         /\ \A r \in RevisionIds : r # d => commits'[r] = commits[r]
         /\ ParentOf(d)' = new.parent /\ RowOf(d)' = new.row
         /\ HasRow(d)' <=> new.row # None
         /\ \A r \in RevisionIds : r # d =>
              /\ ParentOf(r)' = ParentOf(r) /\ RowOf(r)' = RowOf(r)
              /\ HasRow(r)' <=> HasRow(r)
         /\ \A c : CommitsOf(c)' = CommitsOf(c) \cup IF c = new.branch THEN {d} ELSE {}
         /\ CommitsStay
<1>1. /\ commits \in [RevisionIds -> CommitRecord \cup {None}]
      /\ new \in CommitRecord /\ new # None /\ commits[d] = None
  BY NoneAssumption DEF StoreInv, TypeOK, Fits
<1>2. /\ commits' \in [RevisionIds -> CommitRecord \cup {None}]
      /\ commits'[d] = new
      /\ \A r \in RevisionIds : r # d => commits'[r] = commits[r]
  BY <1>1 DEF Adds
<1>3. ParentOf(d)' = new.parent /\ RowOf(d)' = new.row /\ (HasRow(d)' <=> new.row # None)
  BY <1>1, <1>2 DEF ParentOf, RowOf, HasRow
<1>4. \A r \in RevisionIds : r # d =>
        /\ ParentOf(r)' = ParentOf(r) /\ RowOf(r)' = RowOf(r)
        /\ HasRow(r)' <=> HasRow(r)
  BY <1>2 DEF ParentOf, RowOf, HasRow
<1>5. ASSUME NEW c
      PROVE  CommitsOf(c)' = CommitsOf(c) \cup IF c = new.branch THEN {d} ELSE {}
  <2>1. CommitsOf(c)' = {r \in RevisionIds : commits'[r] # None /\ commits'[r].branch = c}
    BY DEF CommitsOf
  <2>2. d \notin CommitsOf(c)
    BY <1>1 DEF CommitsOf
  <2>3. \A r \in RevisionIds : r # d => (r \in CommitsOf(c)' <=> r \in CommitsOf(c))
    BY <1>2, <2>1 DEF CommitsOf
  <2>4. d \in CommitsOf(c)' <=> c = new.branch
    BY <1>1, <1>2, <2>1
  <2>5. CommitsOf(c) \subseteq RevisionIds /\ CommitsOf(c)' \subseteq RevisionIds
    BY <2>1 DEF CommitsOf
  <2> QED
    BY <2>2, <2>3, <2>4, <2>5
<1>6. CommitsStay
  BY <1>1, <1>2 DEF CommitsStay
<1> QED
  BY <1>1, <1>2, <1>3, <1>4, <1>5, <1>6

\* The ancestry goes on with it.
LEMMA AddedKeepsAncestry ==
  ASSUME StoreInv, NEW d \in RevisionIds, NEW new, Fits(d, new), Adds(d, new)
  PROVE  AncestryHolds'
<1> DEFINE follows(r) ==
      LET p == ParentOf(r)
          own == CommitsOf(commits[r].branch)
      IN  /\ p = None => r = 1
          /\ p # None => p \in RevisionIds /\ p < r /\ commits[p] # None
          /\ commits[r].isStart => \A q \in own : r <= q
          /\ commits[r].isStart /\ p # None => p \notin own /\ RowOf(r) = RowOf(p)
          /\ ~commits[r].isStart => p \in own /\ \A q \in own : q < r => q <= p
<1>1. /\ commits'[d] = new /\ new # None /\ commits[d] = None
      /\ \A r \in RevisionIds : r # d => commits'[r] = commits[r]
      /\ ParentOf(d)' = new.parent /\ RowOf(d)' = new.row
      /\ \A r \in RevisionIds : r # d => ParentOf(r)' = ParentOf(r) /\ RowOf(r)' = RowOf(r)
      /\ \A c : CommitsOf(c)' = CommitsOf(c) \cup IF c = new.branch THEN {d} ELSE {}
  BY AddedIs DEF Fits
<1>2. AncestryHolds
  BY DEF StoreInv
<1>3. 1 \in RevisionIds /\ 1 # d
  BY <1>1, <1>2, BoundsAssumption DEF AncestryHolds, RevisionIds
<1>4. commits'[1] # None /\ commits'[1].branch = RootBranch /\ ParentOf(1)' = None
  BY <1>1, <1>2, <1>3 DEF AncestryHolds
<1>5. \A r \in RevisionIds : r \in Nat
  BY BoundsAssumption DEF RevisionIds
<1>6. follows(d)'
  <2> DEFINE p == new.parent
             own == CommitsOf(new.branch) \cup {d}
  <2>1. /\ p # None /\ p \in RevisionIds /\ p < d /\ commits[p] # None /\ p # d
        /\ commits'[p] # None /\ RowOf(p)' = RowOf(p)
    BY <1>1, <1>5, NoneIsNoRevision DEF Fits
  <2>2. CommitsOf(new.branch)' = own
    BY <1>1
  <2>3. new.isStart => /\ \A q \in own : d <= q
                       /\ p \notin own /\ new.row = RowOf(p)
    BY <1>5, <2>1 DEF Fits
  <2>4. ~new.isStart => p \in own /\ \A q \in own : q < d => q <= p
    BY <1>5, <2>1 DEF Fits
  <2> HIDE DEF own, p
  <2> QED
    BY <1>1, <2>1, <2>2, <2>3, <2>4 DEF p
<1>7. ASSUME NEW r \in RevisionIds, r # d, commits[r] # None
      PROVE  follows(r)'
  <2>0. PICK p, b : p = ParentOf(r) /\ b = commits[r].branch
    OBVIOUS
  <2>1. /\ commits'[r] = commits[r] /\ ParentOf(r)' = p /\ RowOf(r)' = RowOf(r)
        /\ CommitsOf(b)' = CommitsOf(b) \cup IF b = new.branch THEN {d} ELSE {}
    BY <1>1, <1>7, <2>0
  <2>2. /\ p = None => r = 1
        /\ p # None => p \in RevisionIds /\ p < r /\ commits[p] # None
        /\ commits[r].isStart => \A q \in CommitsOf(b) : r <= q
        /\ commits[r].isStart /\ p # None => p \notin CommitsOf(b) /\ RowOf(r) = RowOf(p)
        /\ ~commits[r].isStart => p \in CommitsOf(b) /\ \A q \in CommitsOf(b) : q < r => q <= p
    BY <1>2, <1>7, <2>0 DEF AncestryHolds
  <2>3. b = new.branch => r < d
    BY <1>7, <2>0 DEF Fits, CommitsOf
  <2>4. p # None => p # d /\ commits'[p] = commits[p] /\ RowOf(p)' = RowOf(p)
    BY <1>1, <2>2
  <2>5. /\ commits[r].isStart => \A q \in CommitsOf(b)' : r <= q
        /\ commits[r].isStart /\ p # None => p \notin CommitsOf(b)'
        /\ ~commits[r].isStart => p \in CommitsOf(b)' /\ \A q \in CommitsOf(b)' : q < r => q <= p
    BY <1>5, <2>1, <2>2, <2>3, <2>4
  <2> QED
    BY <2>0, <2>1, <2>2, <2>4, <2>5
<1>8. \A r \in RevisionIds : commits'[r] # None => follows(r)'
  <2> HIDE DEF follows
  <2> QED
    BY <1>1, <1>6, <1>7
<1> QED
  BY <1>4, <1>8 DEF AncestryHolds

\* Versions hold with it.
LEMMA AddedKeepsVersions ==
  ASSUME StoreInv, NEW d \in RevisionIds, NEW new, Fits(d, new), Adds(d, new)
  PROVE  VersionsHold'
<1>1. /\ RowOf(d)' = new.row /\ (HasRow(d)' <=> new.row # None) /\ ParentOf(d)' = new.parent
      /\ \A r \in RevisionIds : r # d =>
           /\ ParentOf(r)' = ParentOf(r) /\ RowOf(r)' = RowOf(r)
           /\ HasRow(r)' <=> HasRow(r)
  BY AddedIs
<1>2. \A r \in RevisionIds : r \in Nat
  BY BoundsAssumption DEF RevisionIds
<1>3. PICK p \in RevisionIds : p = new.parent /\ p < d /\ commits[p] # None /\ p # None
  BY NoneIsNoRevision DEF Fits
<1>4. p # d /\ p \in Nat /\ d \in Nat /\ (HasRow(p) <=> RowOf(p) # None)
  BY <1>2, <1>3 DEF HasRow, RowOf
<1>5. ~HasRow(d)
  BY DEF Fits, HasRow
<1> DEFINE fresh == /\ new.row \in RowRecord
                    /\ \A q \in RevisionIds : HasRow(q) => RowOf(q).versionId # new.row.versionId
                    /\ HasRow(p) \/ \A q \in RevisionIds : ~HasRow(q)
<1>6. new.row = RowOf(p) \/ new.row = None \/ fresh
  BY <1>3 DEF Fits
<1>7. \A r, q \in RevisionIds :
        HasRow(r) /\ HasRow(q) /\ RowOf(r).versionId = RowOf(q).versionId => RowOf(r) = RowOf(q)
  BY DEF StoreInv, VersionsHold
<1>8. \A r, q \in RevisionIds :
        Introduces(r) /\ HasRow(q) =>
          /\ RowOf(q).versionId = RowOf(r).versionId => r <= q
          /\ ParentOf(r) = None \/ ~HasRow(ParentOf(r)) => r <= q
  BY DEF StoreInv, VersionsHold
<1>9. ASSUME NEW r \in RevisionIds, r # d, HasRow(r)
      PROVE  /\ Introduces(r)' <=> Introduces(r)
             /\ ParentOf(r)' = ParentOf(r)
             /\ ParentOf(r) # None => (HasRow(ParentOf(r))' <=> HasRow(ParentOf(r)))
  <2>0. PICK s : s = ParentOf(r)
    OBVIOUS
  <2>1. s # None => s \in RevisionIds /\ s # d
    <3>1. commits[r] # None
      BY <1>9 DEF HasRow
    <3> QED
      BY <2>0, <3>1, ParentIs DEF Fits
  <2>2. ParentOf(r)' = s /\ RowOf(r)' = RowOf(r) /\ HasRow(r)'
    BY <1>1, <1>9, <2>0
  <2>3. s # None => RowOf(s)' = RowOf(s) /\ (HasRow(s)' <=> HasRow(s))
    BY <1>1, <2>1
  <2>4. s # None => (HasRow(ParentOf(r))' <=> HasRow(ParentOf(r)))
    BY <2>0, <2>2, <2>3 DEF HasRow
  <2>5. Introduces(r)' <=> HasRow(r)' /\ (s = None \/ RowOf(s)' # RowOf(r)')
    BY <2>2 DEF Introduces, RowOf
  <2>6. Introduces(r) <=> HasRow(r) /\ (s = None \/ RowOf(s) # RowOf(r))
    BY <2>0 DEF Introduces
  <2> QED
    BY <1>9, <2>0, <2>2, <2>3, <2>4, <2>5, <2>6
<1>10. /\ Introduces(d)' => new.row # None /\ new.row # RowOf(p)
       /\ HasRow(ParentOf(d))' <=> HasRow(p)
  <2>1. ParentOf(d)' = p /\ RowOf(p)' = RowOf(p) /\ (HasRow(p)' <=> HasRow(p))
    BY <1>1, <1>3, <1>4
  <2>2. Introduces(d)' => HasRow(d)' /\ RowOf(p)' # RowOf(d)'
    BY <1>3, <2>1 DEF Introduces, RowOf
  <2>3. HasRow(ParentOf(d))' <=> HasRow(p)'
    BY <2>1 DEF HasRow
  <2> QED
    BY <1>1, <2>1, <2>2, <2>3
<1> HIDE DEF fresh
<1>11. ASSUME NEW r \in RevisionIds, NEW q \in RevisionIds, HasRow(r)', HasRow(q)',
              RowOf(r)'.versionId = RowOf(q)'.versionId
       PROVE  RowOf(r)' = RowOf(q)'
  <2>1. ASSUME NEW s \in RevisionIds, s # d, HasRow(s), new.row # None,
               RowOf(s).versionId = new.row.versionId
        PROVE  RowOf(s) = new.row
    <3>1. ~fresh
      BY <2>1 DEF fresh
    <3> QED
      BY <1>3, <1>4, <1>6, <1>7, <2>1, <3>1
  <2>2. CASE r = d /\ q = d
    BY <2>2
  <2>3. CASE r = d /\ q # d
    BY <1>1, <1>11, <2>1, <2>3
  <2>4. CASE r # d /\ q = d
    BY <1>1, <1>11, <2>1, <2>4
  <2>5. CASE r # d /\ q # d
    BY <1>1, <1>7, <1>11, <2>5
  <2> QED
    BY <2>2, <2>3, <2>4, <2>5
<1>12. ASSUME NEW r \in RevisionIds, NEW q \in RevisionIds, Introduces(r)', HasRow(q)'
       PROVE  /\ RowOf(q)'.versionId = RowOf(r)'.versionId => r <= q
              /\ ParentOf(r)' = None \/ ~HasRow(ParentOf(r))' => r <= q
  <2>1. HasRow(r)'
    BY <1>12 DEF Introduces
  <2>2. CASE r = d /\ q = d
    BY <1>2, <2>2
  <2>3. CASE r = d /\ q # d
    <3>1. HasRow(q) /\ RowOf(q)' = RowOf(q)
      BY <1>1, <1>12, <2>3
    <3>2. fresh
      BY <1>6, <1>10, <1>12, <2>3
    <3> QED
      BY <1>1, <1>3, <1>10, <2>3, <3>1, <3>2 DEF fresh
  <2>4. CASE r # d
    <3>1. /\ HasRow(r) /\ RowOf(r)' = RowOf(r) /\ Introduces(r)
          /\ (ParentOf(r)' = None \/ ~HasRow(ParentOf(r))')
               => (ParentOf(r) = None \/ ~HasRow(ParentOf(r)))
      BY <1>1, <1>9, <1>12, <2>1, <2>4
    <3>2. CASE q # d
      <4>1. HasRow(q) /\ RowOf(q)' = RowOf(q)
        BY <1>1, <1>12, <3>2
      <4> QED
        BY <1>8, <3>1, <4>1
    <3>3. CASE q = d
      <4>1. new.row # None /\ RowOf(q)' = new.row
        BY <1>1, <1>12, <3>3
      <4>2. r <= p => r <= q
        BY <1>2, <1>3, <1>4, <3>3
      <4>3. CASE new.row = RowOf(p)
        <5>1. HasRow(p)
          BY <1>4, <4>1, <4>3
        <5> QED
          BY <1>3, <1>8, <3>1, <4>1, <4>2, <4>3, <5>1
      <4>4. CASE fresh
        <5>1. HasRow(p)
          BY <3>1, <4>4 DEF fresh
        <5>2. RowOf(q)'.versionId # RowOf(r)'.versionId
          BY <3>1, <4>1, <4>4 DEF fresh
        <5> QED
          BY <1>3, <1>8, <3>1, <4>2, <5>1, <5>2
      <4> QED
        BY <1>6, <4>1, <4>3, <4>4
    <3> QED
      BY <3>2, <3>3
  <2> QED
    BY <2>2, <2>3, <2>4
<1> QED
  BY <1>11, <1>12 DEF VersionsHold

-----------------------------------------------------------------------------
(* The store's actions. *)

\* What appears in a step was a draft, or is new.
Appears ==
  \A r \in RevisionIds : commits[r] = None /\ commits'[r] # None =>
    lastSequence < r \/ \E b \in Branches : draftSequence[b] = r

StoreStep == StoreInv' /\ CommitsStay /\ Appears /\ ReaderFits'

\* What is edited is a version that is not in use.
LEMMA EditedIs ==
  ASSUME StoreInv, NEW b \in Branches, NEW row \in Edited(b)
  PROVE  \/ row \in {RowOf(HeadOf(b)), None}
         \/ /\ row \in RowRecord
            /\ \A q \in RevisionIds : HasRow(q) => RowOf(q).versionId # row.versionId
            /\ RowOf(HeadOf(b)) # None \/ \A q \in RevisionIds : ~HasRow(q)
<1>1. \A q \in RevisionIds : HasRow(q) =>
        RowOf(q).versionId \in RowVersions /\ RowOf(q).versionId \notin UnusedVersions
  BY RowIs DEF StoreInv, UnusedVersions, RowOf
<1>2. CASE row \in {RowOf(HeadOf(b)), None}
  BY <1>2
<1>3. CASE row \notin {RowOf(HeadOf(b)), None}
  <2>1. row \in Clones /\ (RowOf(HeadOf(b)) # None \/ UnusedVersions = RowVersions)
    BY <1>3 DEF Edited, RowOf
  <2> DEFINE v == CHOOSE w \in UnusedVersions : TRUE
  <2>2. UnusedVersions # {} /\ row \in [versionId : {v}, id : RowIds, hash : Hashes]
    BY <2>1 DEF Clones
  <2>3. v \in UnusedVersions
    BY <2>2
  <2>4. v \in RowVersions
    BY <2>3 DEF UnusedVersions
  <2> HIDE DEF v
  <2>5. row \in RowRecord /\ row.versionId = v
    BY <2>2, <2>4 DEF RowRecord
  <2> QED
    BY <1>1, <2>1, <2>3, <2>5
<1> QED
  BY <1>2, <1>3

\* A step that adds a commit to a branch and gives the branch a new draft.
LEMMA AddedKeeps ==
  ASSUME StoreInv, ReaderFits, NEW b \in Branches, NEW d \in RevisionIds, NEW new,
         Fits(d, new), Adds(d, new), new.branch = b,
         lastSequence < d \/ d = draftSequence[b],
         NEW next \in Nat, d < next, lastSequence < next,
         draftSequence' = [draftSequence EXCEPT ![b] = next], lastSequence' = next,
         reader' = reader
  PROVE  StoreStep
<1>1. /\ d \in Nat /\ lastSequence \in Nat /\ None \notin Nat
      /\ \A r \in RevisionIds : r \in Nat
      /\ draftSequence \in [Branches -> Nat \cup {None}]
  BY NoneIsNoRevision, BoundsAssumption DEF StoreInv, TypeOK, RevisionIds
<1>2. /\ \A r \in RevisionIds : commits[r] # None => r <= lastSequence
      /\ \A c \in Branches : BranchExists(c) <=> draftSequence[c] # None
      /\ \A c \in Branches : draftSequence[c] # None =>
           /\ draftSequence[c] <= lastSequence
           /\ draftSequence[c] \in RevisionIds => commits[draftSequence[c]] = None
           /\ \A r \in CommitsOf(c) : r < draftSequence[c]
           /\ \A k \in Branches \ {c} : draftSequence[k] # draftSequence[c]
  BY DEF StoreInv, DraftsAreAhead
<1>3. /\ commits' \in [RevisionIds -> CommitRecord \cup {None}]
      /\ commits'[d] # None
      /\ \A r \in RevisionIds : r # d => commits'[r] = commits[r]
      /\ \A c : CommitsOf(c)' = CommitsOf(c) \cup IF c = b THEN {d} ELSE {}
      /\ CommitsStay
  <2>1. /\ commits' \in [RevisionIds -> CommitRecord \cup {None}]
        /\ commits'[d] = new /\ new # None
        /\ \A r \in RevisionIds : r # d => commits'[r] = commits[r]
        /\ \A c : CommitsOf(c)' = CommitsOf(c) \cup IF c = new.branch THEN {d} ELSE {}
        /\ CommitsStay
    BY AddedIs
  <2> QED
    BY <2>1
<1>4. AncestryHolds' /\ VersionsHold'
  BY AddedKeepsAncestry, AddedKeepsVersions
<1>5. TypeOK'
  BY <1>1, <1>3 DEF StoreInv, TypeOK
<1>6. /\ draftSequence'[b] = next
      /\ \A c \in Branches : c # b => draftSequence'[c] = draftSequence[c]
  BY <1>1
<1>7. ASSUME NEW c \in Branches, c # b
      PROVE  draftSequence'[c] # next /\ draftSequence[c] # d
  <2>1. draftSequence[c] \in Nat => draftSequence[c] <= lastSequence
    BY <1>1, <1>2
  <2>2. draftSequence[c] \in Nat \cup {None}
    BY <1>1
  <2>3. d = draftSequence[b] => draftSequence[c] # d
    BY <1>1, <1>2, <1>7
  <2> QED
    BY <1>1, <1>6, <1>7, <2>1, <2>2, <2>3
<1>8. DraftsAreAhead'
  <2>1. ASSUME NEW c \in Branches
        PROVE  BranchExists(c)' <=> draftSequence'[c] # None
    <3>1. CASE c = b
      BY <1>1, <1>3, <1>6, <3>1 DEF BranchExists
    <3>2. CASE c # b
      BY <1>2, <1>3, <1>6, <3>2 DEF BranchExists
    <3> QED
      BY <3>1, <3>2
  <2>2. ASSUME NEW r \in RevisionIds, commits'[r] # None
        PROVE  r <= lastSequence'
    BY <1>1, <1>2, <1>3, <2>2
  <2>3. ASSUME NEW c \in Branches, draftSequence'[c] # None
        PROVE  /\ draftSequence'[c] <= lastSequence'
               /\ draftSequence'[c] \in RevisionIds => commits'[draftSequence'[c]] = None
               /\ \A r \in CommitsOf(c)' : r < draftSequence'[c]
               /\ \A k \in Branches \ {c} : draftSequence'[k] # draftSequence'[c]
    <3>1. CASE c = b
      <4>1. next \in RevisionIds => commits'[next] = None
        BY <1>1, <1>2, <1>3
      <4>2. ASSUME NEW r \in CommitsOf(c)'
            PROVE  r < next
        <5>1. r \in CommitsOf(c) \/ r = d
          BY <1>3
        <5>2. CASE r = d
          BY <5>2
        <5>3. CASE r \in CommitsOf(c)
          <6>1. r \in RevisionIds /\ r <= lastSequence
            BY <1>2, <5>3 DEF CommitsOf
          <6>2. r \in Nat
            BY <1>1, <6>1
          <6> QED
            BY <1>1, <6>1, <6>2
        <5> QED
          BY <5>1, <5>2, <5>3
      <4> QED
        BY <1>6, <1>7, <3>1, <4>1, <4>2
    <3>2. CASE c # b
      <4>1. /\ draftSequence'[c] = draftSequence[c] /\ draftSequence[c] # None
            /\ draftSequence[c] # d /\ draftSequence[c] # next
            /\ CommitsOf(c)' = CommitsOf(c)
        BY <1>3, <1>6, <1>7, <2>3, <3>2
      <4>2. draftSequence[c] <= next
        BY <1>1, <1>2, <4>1
      <4>3. draftSequence[c] \in RevisionIds => commits'[draftSequence[c]] = None
        BY <1>2, <1>3, <4>1
      <4>4. \A r \in CommitsOf(c) : r < draftSequence[c]
        BY <1>2, <4>1
      <4>5. \A k \in Branches \ {c} : draftSequence'[k] # draftSequence[c]
        BY <1>2, <1>6, <4>1
      <4> QED
        BY <4>1, <4>2, <4>3, <4>4, <4>5
    <3> QED
      BY <3>1, <3>2
  <2> QED
    BY <2>1, <2>2, <2>3 DEF DraftsAreAhead
<1>9. Appears
  BY <1>3 DEF Appears
<1>10. ReaderFits'
  <2>1. ASSUME reader.tip # None
        PROVE  reader.tip <= next /\ \A c \in Branches : draftSequence'[c] # reader.tip
    <3>1. reader.tip \in Nat /\ reader.tip <= lastSequence
      BY <1>1, <2>1 DEF StoreInv, TypeOK, ReaderFits
    <3> QED
      BY <1>1, <1>6, <2>1, <3>1 DEF ReaderFits
  <2> QED
    BY <2>1 DEF ReaderFits, NoReader
<1> QED
  BY <1>3, <1>4, <1>5, <1>8, <1>9, <1>10 DEF StoreStep, StoreInv

\* A commit adds what its branch's draft was: the next after the head.
LEMMA CommitDraftKeeps ==
  ASSUME StoreInv, ReaderFits, NEW b \in Branches, CommitDraft(b)
  PROVE  StoreStep
<1> DEFINE own == CommitsOf(b)
<1>1. PICK d : d = draftSequence[b]
  OBVIOUS
<1>2. /\ own # {} /\ own \in SUBSET RevisionIds /\ d \in RevisionIds /\ d # None
      /\ d \in Nat /\ lastSequence \in Nat
  BY <1>1, NoneIsNoRevision, BoundsAssumption
     DEF CommitDraft, BranchExists, CommitsOf, StoreInv, TypeOK, RevisionIds
<1>3. PICK p : p = HeadOf(b) /\ p \in own /\ \A q \in own : q <= p
  BY <1>2, FirstAndLast DEF HeadOf
<1>4. p \in RevisionIds /\ commits[p] # None
  BY <1>3 DEF CommitsOf
<1>5. d <= lastSequence /\ commits[d] = None /\ \A r \in own : r < d
  BY <1>1, <1>2 DEF StoreInv, DraftsAreAhead
<1>6. PICK row \in Edited(b) :
        commits' = [commits EXCEPT ![d] = [branch |-> b, parent |-> p, isStart |-> FALSE, row |-> row]]
  BY <1>1, <1>3 DEF CommitDraft
<1>7. PICK new : new = [branch |-> b, parent |-> p, isStart |-> FALSE, row |-> row]
  OBVIOUS
<1>8. Adds(d, new)
  BY <1>6, <1>7 DEF Adds
<1>9. Fits(d, new)
  <2>1. \/ row \in {RowOf(p), None}
        \/ /\ row \in RowRecord
           /\ \A q \in RevisionIds : HasRow(q) => RowOf(q).versionId # row.versionId
           /\ RowOf(p) # None \/ \A q \in RevisionIds : ~HasRow(q)
    BY <1>3, <1>6, EditedIs
  <2>2. row \in RowRecord \cup {None} /\ (RowOf(p) # None => HasRow(p))
    BY <1>4, <2>1, CommitIs DEF StoreInv, HasRow, RowOf
  <2>3. new \in CommitRecord
    BY <1>4, <1>7, <2>2 DEF CommitRecord
  <2> HIDE DEF own
  <2>4. /\ new.branch = b /\ new.parent = p /\ new.isStart = FALSE /\ new.row = row
    BY <1>7
  <2>5. p < d /\ CommitsOf(new.branch) = own
    BY <1>3, <1>5, <2>4 DEF own
  <2> QED
    BY <1>3, <1>4, <1>5, <2>1, <2>2, <2>3, <2>4, <2>5 DEF Fits
<1>10. /\ draftSequence' = [draftSequence EXCEPT ![b] = lastSequence + 1]
       /\ lastSequence' = lastSequence + 1 /\ reader' = reader
  BY DEF CommitDraft
<1>11. new.branch = b
  BY <1>7
<1>12. PICK next \in Nat : next = lastSequence + 1 /\ d < next /\ lastSequence < next
  BY <1>2, <1>5
<1> QED
  BY <1>1, <1>2, <1>8, <1>9, <1>10, <1>11, <1>12, AddedKeeps

\* A fork adds the first commit of a new branch, with the row of its source.
LEMMA CreateBranchKeeps ==
  ASSUME StoreInv, ReaderFits, NEW source \in RevisionIds, NEW b \in Branches,
         CreateBranch(source, b)
  PROVE  StoreStep
<1>1. lastSequence \in Nat
  BY DEF StoreInv, TypeOK
<1>2. PICK d \in RevisionIds : d = lastSequence + 1 /\ lastSequence < d /\ d \in Nat
  BY <1>1 DEF CreateBranch
<1>3. PICK new : new = [branch |-> b, parent |-> source, isStart |-> TRUE, row |-> RowOf(source)]
  OBVIOUS
<1>4. Adds(d, new)
  BY <1>2, <1>3 DEF CreateBranch, Adds, RowOf
<1>5. new.branch = b /\ new.parent = source /\ new.isStart = TRUE /\ new.row = RowOf(source)
  BY <1>3
<1>6. commits[source] # None /\ CommitsOf(b) = {}
  BY DEF CreateBranch, BranchExists
<1>7. Fits(d, new)
  <2>1. RowOf(source) \in RowRecord \cup {None}
    BY <1>6, CommitIs DEF StoreInv
  <2>2. new \in CommitRecord
    BY <1>3, <2>1 DEF CommitRecord
  <2>3. \A r \in RevisionIds : commits[r] # None => r < d
    BY <1>1, <1>2, BoundsAssumption DEF StoreInv, DraftsAreAhead, RevisionIds
  <2> QED
    BY <1>2, <1>5, <1>6, <2>2, <2>3 DEF Fits
<1>8. /\ draftSequence' = [draftSequence EXCEPT ![b] = lastSequence + 2]
      /\ lastSequence' = lastSequence + 2 /\ reader' = reader
  BY DEF CreateBranch
<1>9. PICK next \in Nat : next = lastSequence + 2 /\ d < next /\ lastSequence < next
  BY <1>1, <1>2
<1> QED
  BY <1>2, <1>4, <1>5, <1>7, <1>8, <1>9, AddedKeeps

\* What is left when a branch is deleted: the rest, as nobody follows it.
LEMMA DeletedIs ==
  ASSUME StoreInv, NEW b \in Branches, DeleteBranch(b)
  PROVE  /\ \A r \in RevisionIds :
              commits'[r] = IF r \in CommitsOf(b) THEN None ELSE commits[r]
         /\ \A r \in RevisionIds : commits'[r] # None /\ ParentOf(r) # None =>
              commits'[ParentOf(r)] # None /\ ParentOf(r) \in RevisionIds
         /\ \A c : CommitsOf(c)' = IF c = b THEN {} ELSE CommitsOf(c)
<1>1. commits' = [r \in RevisionIds |->
                    IF r \in CommitsOf(b) THEN None
                    ELSE IF commits[r] # None /\ commits[r].parent \in CommitsOf(b)
                         THEN [commits[r] EXCEPT !.parent = None]
                         ELSE commits[r]]
  BY DEF DeleteBranch
<1>2. ASSUME NEW r \in RevisionIds, r \notin CommitsOf(b), commits[r] # None
      PROVE  commits[r].parent \notin CommitsOf(b)
  <2>1. ParentOf(r) = commits[r].parent /\ commits[r].isStart \in BOOLEAN
    BY <1>2, CommitIs DEF StoreInv
  <2>2. CASE commits[r].isStart
    BY <1>2, <2>2 DEF DeleteBranch, HasChildBranch
  <2>3. CASE ~commits[r].isStart
    <3>1. ParentOf(r) \in CommitsOf(commits[r].branch) /\ commits[r].branch # b
      BY <1>2, <2>3 DEF StoreInv, AncestryHolds, CommitsOf
    <3> QED
      BY <2>1, <3>1 DEF CommitsOf
  <2> QED
    BY <2>1, <2>2, <2>3
<1>3. \A r \in RevisionIds : commits'[r] = IF r \in CommitsOf(b) THEN None ELSE commits[r]
  BY <1>1, <1>2
<1>4. ASSUME NEW r \in RevisionIds, commits'[r] # None, ParentOf(r) # None
      PROVE  commits'[ParentOf(r)] # None /\ ParentOf(r) \in RevisionIds
  <2>1. r \notin CommitsOf(b) /\ commits[r] # None
    BY <1>3, <1>4
  <2>2. ParentOf(r) \in RevisionIds /\ commits[ParentOf(r)] # None
    BY <1>4, <2>1, ParentIs
  <2>3. ParentOf(r) \notin CommitsOf(b)
    BY <1>2, <2>1, CommitIs DEF StoreInv
  <2> QED
    BY <1>3, <2>2, <2>3
<1>5. ASSUME NEW c
      PROVE  CommitsOf(c)' = IF c = b THEN {} ELSE CommitsOf(c)
  <2>1. CommitsOf(c)' = {r \in RevisionIds : commits'[r] # None /\ commits'[r].branch = c}
    BY DEF CommitsOf
  <2> QED
    BY <1>3, <2>1 DEF CommitsOf
<1> QED
  BY <1>3, <1>4, <1>5

\* What is left when a branch without children is deleted has its ancestry still.
LEMMA DeleteBranchKeeps ==
  ASSUME StoreInv, ReaderFits, NEW b \in Branches, DeleteBranch(b)
  PROVE  StoreStep
<1>1. /\ \A r \in RevisionIds :
           commits'[r] = IF r \in CommitsOf(b) THEN None ELSE commits[r]
      /\ \A r \in RevisionIds : commits'[r] # None /\ ParentOf(r) # None =>
           commits'[ParentOf(r)] # None /\ ParentOf(r) \in RevisionIds
      /\ \A c : CommitsOf(c)' = IF c = b THEN {} ELSE CommitsOf(c)
  BY DeletedIs
<1>2. /\ draftSequence' = [draftSequence EXCEPT ![b] = None]
      /\ lastSequence' = lastSequence /\ reader' = reader
      /\ b # RootBranch
      /\ commits' \in [RevisionIds -> CommitRecord \cup {None}]
  <2>1. /\ draftSequence' = [draftSequence EXCEPT ![b] = None]
        /\ lastSequence' = lastSequence /\ reader' = reader /\ b # RootBranch
        /\ commits' = [r \in RevisionIds |-> commits'[r]]
    BY DEF DeleteBranch
  <2>2. \A r \in RevisionIds : commits'[r] \in CommitRecord \cup {None}
    BY <1>1 DEF StoreInv, TypeOK
  <2> QED
    BY <2>1, <2>2
<1>3. /\ draftSequence \in [Branches -> Nat \cup {None}] /\ None \notin Nat
      /\ draftSequence'[b] = None
      /\ \A c \in Branches : c # b => draftSequence'[c] = draftSequence[c]
  BY <1>2, NoneIsNoRevision DEF StoreInv, TypeOK
<1>4. TypeOK'
  BY <1>2, <1>3 DEF StoreInv, TypeOK
<1>5. CommitsStay /\ Appears
  BY <1>1 DEF CommitsStay, Appears
<1>6. ASSUME NEW r \in RevisionIds, commits'[r] # None
      PROVE  /\ commits'[r] = commits[r] /\ r \notin CommitsOf(b)
             /\ commits[r].branch # b /\ ParentOf(r)' = ParentOf(r) /\ RowOf(r)' = RowOf(r)
             /\ HasRow(r)' <=> HasRow(r)
  BY <1>1, <1>6 DEF CommitsOf, ParentOf, RowOf, HasRow
<1>7. AncestryHolds'
  <2>1. AncestryHolds /\ 1 \in RevisionIds
    BY BoundsAssumption DEF StoreInv, RevisionIds
  <2>2. commits'[1] # None /\ commits'[1].branch = RootBranch /\ ParentOf(1)' = None
    BY <1>1, <1>2, <1>6, <2>1 DEF AncestryHolds, CommitsOf
  <2>3. ASSUME NEW r \in RevisionIds, commits'[r] # None
        PROVE  (LET p == ParentOf(r)
                    own == CommitsOf(commits[r].branch)
                IN  /\ p = None => r = 1
                    /\ p # None => p \in RevisionIds /\ p < r /\ commits[p] # None
                    /\ commits[r].isStart => \A q \in own : r <= q
                    /\ commits[r].isStart /\ p # None => p \notin own /\ RowOf(r) = RowOf(p)
                    /\ ~commits[r].isStart => p \in own /\ \A q \in own : q < r => q <= p)'
    <3>1. PICK p, c : p = ParentOf(r) /\ c = commits[r].branch
      OBVIOUS
    <3>2. /\ commits'[r] = commits[r] /\ commits[r] # None /\ c # b
          /\ ParentOf(r)' = p /\ RowOf(r)' = RowOf(r) /\ CommitsOf(c)' = CommitsOf(c)
      BY <1>1, <1>6, <2>3, <3>1
    <3>3. p # None => p \in RevisionIds /\ commits'[p] = commits[p] /\ RowOf(p)' = RowOf(p)
      BY <1>1, <1>6, <2>3, <3>1
    <3>4. /\ p = None => r = 1
          /\ p # None => p \in RevisionIds /\ p < r /\ commits[p] # None
          /\ commits[r].isStart => \A q \in CommitsOf(c) : r <= q
          /\ commits[r].isStart /\ p # None => p \notin CommitsOf(c) /\ RowOf(r) = RowOf(p)
          /\ ~commits[r].isStart => p \in CommitsOf(c) /\ \A q \in CommitsOf(c) : q < r => q <= p
      BY <2>1, <3>1, <3>2 DEF AncestryHolds
    <3> QED
      BY <3>1, <3>2, <3>3, <3>4
  <2> QED
    BY <2>2, <2>3 DEF AncestryHolds
<1>8. VersionsHold'
  <2>1. \A r, q \in RevisionIds :
          HasRow(r) /\ HasRow(q) /\ RowOf(r).versionId = RowOf(q).versionId => RowOf(r) = RowOf(q)
    BY DEF StoreInv, VersionsHold
  <2>2. \A r, q \in RevisionIds :
          Introduces(r) /\ HasRow(q) =>
            /\ RowOf(q).versionId = RowOf(r).versionId => r <= q
            /\ ParentOf(r) = None \/ ~HasRow(ParentOf(r)) => r <= q
    BY DEF StoreInv, VersionsHold
  <2>3. ASSUME NEW r \in RevisionIds, HasRow(r)'
        PROVE  HasRow(r) /\ RowOf(r)' = RowOf(r) /\ commits'[r] # None
    <3>1. commits'[r] # None
      BY <2>3 DEF HasRow
    <3> QED
      BY <1>6, <2>3, <3>1
  <2>4. ASSUME NEW r \in RevisionIds, Introduces(r)'
        PROVE  /\ HasRow(r)' /\ Introduces(r)
               /\ ParentOf(r)' = ParentOf(r)
               /\ ParentOf(r) # None => (HasRow(ParentOf(r))' <=> HasRow(ParentOf(r)))
    <3>1. PICK p : p = ParentOf(r)
      OBVIOUS
    <3>2. HasRow(r)'
      BY <2>4 DEF Introduces
    <3>3. HasRow(r) /\ RowOf(r)' = RowOf(r) /\ commits'[r] # None /\ ParentOf(r)' = p
      BY <1>6, <2>3, <3>1, <3>2
    <3>4. p # None => RowOf(p)' = RowOf(p) /\ (HasRow(p)' <=> HasRow(p))
      BY <1>1, <1>6, <3>1, <3>3
    <3>5. p = None \/ RowOf(p)' # RowOf(r)'
      BY <2>4, <3>3 DEF Introduces, RowOf
    <3>6. Introduces(r)
      BY <3>1, <3>3, <3>4, <3>5 DEF Introduces
    <3>7. p # None => (HasRow(ParentOf(r))' <=> HasRow(p))
      BY <3>3, <3>4 DEF HasRow
    <3> QED
      BY <3>1, <3>2, <3>3, <3>6, <3>7
  <2>5. ASSUME NEW r \in RevisionIds, NEW q \in RevisionIds, HasRow(r)', HasRow(q)',
               RowOf(r)'.versionId = RowOf(q)'.versionId
        PROVE  RowOf(r)' = RowOf(q)'
    BY <2>1, <2>3, <2>5
  <2>6. ASSUME NEW r \in RevisionIds, NEW q \in RevisionIds, Introduces(r)', HasRow(q)'
        PROVE  /\ RowOf(q)'.versionId = RowOf(r)'.versionId => r <= q
               /\ ParentOf(r)' = None \/ ~HasRow(ParentOf(r))' => r <= q
    BY <2>2, <2>3, <2>4, <2>6
  <2> QED
    BY <2>5, <2>6 DEF VersionsHold
<1>9. DraftsAreAhead'
  <2>1. /\ \A r \in RevisionIds : commits[r] # None => r <= lastSequence
        /\ \A c \in Branches : BranchExists(c) <=> draftSequence[c] # None
        /\ \A c \in Branches : draftSequence[c] # None =>
             /\ draftSequence[c] <= lastSequence
             /\ draftSequence[c] \in RevisionIds => commits[draftSequence[c]] = None
             /\ \A r \in CommitsOf(c) : r < draftSequence[c]
             /\ \A k \in Branches \ {c} : draftSequence[k] # draftSequence[c]
    BY DEF StoreInv, DraftsAreAhead
  <2>2. ASSUME NEW c \in Branches
        PROVE  BranchExists(c)' <=> draftSequence'[c] # None
    <3>1. CASE c = b
      BY <1>1, <1>3, <3>1 DEF BranchExists
    <3>2. CASE c # b
      BY <1>1, <1>3, <2>1, <3>2 DEF BranchExists
    <3> QED
      BY <3>1, <3>2
  <2>3. ASSUME NEW c \in Branches, draftSequence'[c] # None
        PROVE  /\ draftSequence'[c] <= lastSequence'
               /\ draftSequence'[c] \in RevisionIds => commits'[draftSequence'[c]] = None
               /\ \A r \in CommitsOf(c)' : r < draftSequence'[c]
               /\ \A k \in Branches \ {c} : draftSequence'[k] # draftSequence'[c]
    <3>1. /\ c # b /\ draftSequence'[c] = draftSequence[c] /\ draftSequence[c] # None
          /\ CommitsOf(c)' = CommitsOf(c)
      BY <1>1, <1>3, <2>3
    <3>2. draftSequence[c] \in RevisionIds => commits'[draftSequence[c]] = None
      BY <1>1, <2>1, <3>1
    <3>3. \A k \in Branches \ {c} : draftSequence'[k] # draftSequence[c]
      BY <1>3, <2>1, <3>1
    <3> QED
      BY <1>2, <2>1, <3>1, <3>2, <3>3
  <2> QED
    BY <1>2, <1>6, <2>1, <2>2, <2>3 DEF DraftsAreAhead
<1>10. ReaderFits'
  <2>1. ASSUME reader.tip # None
        PROVE  reader.tip <= lastSequence /\ \A c \in Branches : draftSequence'[c] # reader.tip
    BY <1>3, <2>1 DEF ReaderFits
  <2> QED
    BY <1>2, <2>1 DEF ReaderFits, NoReader
<1> QED
  BY <1>4, <1>5, <1>7, <1>8, <1>9, <1>10 DEF StoreStep, StoreInv

-----------------------------------------------------------------------------
(* The reader. *)

\* Whatever the store does, what was read is still right.
LEMMA StoreStepKeeps ==
  ASSUME IInv, StoreStep, reader' = reader
  PROVE  IInv'
<1>1. StoreInv /\ StoreInv' /\ CommitsStay /\ ReaderFits /\ ReaderFits'
  BY DEF IInv, StoreStep
<1>2. PICK t : t = reader.tip /\ t = reader'.tip
  OBVIOUS
<1>3. /\ reader.at = "refused" => commits[t] = None
      /\ reader.at = "done" /\ HasRow(t) => reader.got = PreviousChanges(t)
      /\ t # None /\ HasRow(t) => IsPrefix(reader.got, PreviousChanges(t))
  BY <1>2 DEF IInv, HistoryIsComplete, PagesJoinUp
<1>4. /\ HistoryIsComplete' <=>
           /\ reader.at = "refused" => commits'[t] = None
           /\ reader.at = "done" /\ HasRow(t)' => reader.got = PreviousChanges(t)'
      /\ PagesJoinUp' <=> (t # None /\ HasRow(t)' => IsPrefix(reader.got, PreviousChanges(t)'))
  BY <1>2 DEF HistoryIsComplete, PagesJoinUp
<1>5. CASE t = None
  <2>1. reader.at = "reading"
    BY <1>1, <1>2, <1>5 DEF ReaderFits, NoReader
  <2> QED
    BY <1>1, <1>4, <1>5, <2>1 DEF IInv
<1>6. CASE t # None
  <2>1. t \in RevisionIds /\ t \in Nat
    BY <1>1, <1>2, <1>6, BoundsAssumption DEF StoreInv, TypeOK, RevisionIds
  <2>2. CASE commits'[t] = None
    <3>1. ~HasRow(t)'
      BY <2>2 DEF HasRow
    <3> QED
      BY <1>1, <1>4, <2>2, <3>1 DEF IInv
  <2>3. CASE commits'[t] # None
    <3>1. commits[t] # None
      <4>1. t <= lastSequence /\ lastSequence \in Nat /\ \A b \in Branches : draftSequence[b] # t
        BY <1>1, <1>2, <1>6 DEF ReaderFits, StoreInv, TypeOK
      <4> QED
        BY <2>1, <2>3, <4>1 DEF StoreStep, Appears
    <3>2. HasRow(t)' = HasRow(t) /\ PreviousChanges(t)' = PreviousChanges(t)
      BY <1>1, <2>1, <2>3, <3>1, HistoryStays
    <3> QED
      BY <1>1, <1>3, <1>4, <3>1, <3>2 DEF IInv
  <2> QED
    BY <2>2, <2>3
<1> QED
  BY <1>5, <1>6

\* A client changes nothing in the store.
LEMMA StoreIsKept ==
  ASSUME IInv, UNCHANGED store,
         reader' \in [tip : RevisionIds \cup {None}, got : Seq(Events),
                      at : {"reading", "done", "refused"}]
  PROVE  /\ StoreInv'
         /\ \A t \in RevisionIds :
              /\ HasRow(t)' <=> HasRow(t)
              /\ HasRow(t) => PreviousChanges(t)' = PreviousChanges(t)
<1>1. commits' = commits /\ draftSequence' = draftSequence /\ lastSequence' = lastSequence
  BY DEF store
<1>2. TypeOK'
  BY <1>1 DEF IInv, StoreInv, TypeOK
<1>3. AncestryHolds'
  BY <1>1 DEF IInv, StoreInv, AncestryHolds, ParentOf, CommitsOf, RowOf
<1>4. DraftsAreAhead'
  BY <1>1 DEF IInv, StoreInv, DraftsAreAhead, BranchExists, CommitsOf
<1>5. VersionsHold'
  BY <1>1 DEF IInv, StoreInv, VersionsHold, Introduces, HasRow, RowOf, ParentOf
<1>6. StoreInv /\ StoreInv' /\ CommitsStay
  BY <1>1, <1>2, <1>3, <1>4, <1>5 DEF IInv, StoreInv, CommitsStay
<1>7. ASSUME NEW t \in RevisionIds
      PROVE  /\ HasRow(t)' <=> HasRow(t)
             /\ HasRow(t) => PreviousChanges(t)' = PreviousChanges(t)
  <2>1. HasRow(t)' <=> HasRow(t)
    BY <1>1 DEF HasRow
  <2>2. ASSUME HasRow(t)
        PROVE  PreviousChanges(t)' = PreviousChanges(t)
    <3>1. commits[t] # None /\ commits'[t] # None
      BY <1>1, <2>2 DEF HasRow
    <3> QED
      BY <1>6, <3>1, HistoryStays
  <2> QED
    BY <2>1, <2>2
<1> QED
  BY <1>6, <1>7

\* A history is opened at a commit, with nothing of it read.
LEMMA OpenKeeps ==
  ASSUME IInv, NEW tip \in RevisionIds, Open(tip)
  PROVE  IInv'
<1>1. /\ commits[tip] # None /\ reader' = [tip |-> tip, got |-> <<>>, at |-> "reading"]
      /\ UNCHANGED store
  BY DEF Open, NoReader
<1>2. <<>> \in Seq(Events)
  BY EmptySeq
<1>3. /\ reader'.tip = tip /\ reader'.got = <<>> /\ reader'.at = "reading"
      /\ reader' \in [tip : RevisionIds \cup {None}, got : Seq(Events),
                      at : {"reading", "done", "refused"}]
  BY <1>1, <1>2
<1>4. /\ StoreInv' /\ (HasRow(tip)' <=> HasRow(tip))
      /\ HasRow(tip) => PreviousChanges(tip)' = PreviousChanges(tip)
  BY <1>1, <1>3, StoreIsKept
<1>5. ReaderFits'
  <2>1. tip <= lastSequence /\ \A b \in Branches : draftSequence[b] # tip
    BY <1>1, NoneIsNoRevision DEF IInv, StoreInv, DraftsAreAhead
  <2> QED
    BY <1>1, <1>3, <2>1, NoneIsNoRevision DEF ReaderFits, store
<1>6. HistoryIsComplete'
  BY <1>3 DEF HistoryIsComplete
<1>7. PagesJoinUp'
  <2>1. ASSUME HasRow(tip)
        PROVE  IsPrefix(<<>>, PreviousChanges(tip))
    <3>1. PreviousChanges(tip) \in Seq(Events)
      BY <2>1, HistoryIs DEF IInv, Descending
    <3>2. Len(PreviousChanges(tip)) \in Nat /\ Len(<<>>) = 0
      BY <3>1, EmptySeq
    <3>3. \A s : SubSeq(s, 1, 0) = <<>>
      BY SubSeqEmpty
    <3> QED
      BY <3>2, <3>3 DEF IsPrefix
  <2>2. PagesJoinUp' <=> (tip # None /\ HasRow(tip)' => IsPrefix(reader'.got, PreviousChanges(tip)'))
    BY <1>3 DEF PagesJoinUp
  <2> QED
    BY <1>3, <1>4, <2>1, <2>2
<1> QED
  BY <1>4, <1>5, <1>6, <1>7 DEF IInv

\* A page is the next part of the history, and the last one ends it.
LEMMA ReadPageKeeps ==
  ASSUME IInv, NEW strategy \in Strategies, NEW first \in PageSizes, ReadPage(strategy, first)
  PROVE  IInv'
<1>1. StoreInv /\ ReaderFits /\ UNCHANGED store
  BY DEF IInv, ReadPage
<1>2. PICK t : t = reader.tip
  OBVIOUS
<1>3. PICK got : got = reader.got
  OBVIOUS
<1>4. /\ t # None /\ t \in RevisionIds /\ HasRow(t) /\ got \in Seq(Events)
      /\ reader \in [tip : RevisionIds \cup {None}, got : Seq(Events),
                     at : {"reading", "done", "refused"}]
  BY <1>1, <1>2, <1>3 DEF ReadPage, StoreInv, TypeOK
<1>5. PICK stream : stream = PreviousChanges(t)
  OBVIOUS
<1>6. /\ Descending(stream) /\ IsPrefix(got, stream)
      /\ PreviousEvents(strategy, Lineage[t]) = stream
      /\ ~Refused(strategy, Lineage[t])
  BY <1>1, <1>2, <1>3, <1>4, <1>5, HistoryIs, NotRefused DEF IInv, PagesJoinUp
<1> DEFINE after == IF got = <<>> THEN None ELSE Last(got).revision
           rest == Rest(stream, after)
           more == got \o SubSeq(rest, 1, Min({first, Len(rest)}))
<1>7. /\ CursorValid(stream, after)
      /\ more \in Seq(Events) /\ IsPrefix(more, stream)
      /\ ~(Len(rest) > first) => more = stream
  BY <1>4, <1>6, PageFits
<1>8. reader' = [reader EXCEPT !.got = more, !.at = IF Len(rest) > first THEN "reading" ELSE "done"]
  <2>1. reader' = IF Refused(strategy, Lineage[t]) \/ ~CursorValid(stream, after)
                  THEN [reader EXCEPT !.at = "refused"]
                  ELSE [reader EXCEPT !.got = @ \o SubSeq(rest, 1, Min({first, Len(rest)})),
                                      !.at = IF Len(rest) > first THEN "reading" ELSE "done"]
    BY <1>2, <1>3, <1>6 DEF ReadPage
  <2> HIDE DEF after, rest
  <2> QED
    BY <1>3, <1>6, <1>7, <2>1
<1> HIDE DEF after, rest, more
<1>9. /\ reader'.tip = t /\ reader'.got = more /\ reader'.at \in {"reading", "done"}
      /\ reader'.at = "done" => more = stream
      /\ reader' \in [tip : RevisionIds \cup {None}, got : Seq(Events),
                      at : {"reading", "done", "refused"}]
  BY <1>2, <1>4, <1>7, <1>8
<1>10. StoreInv' /\ HasRow(t)' /\ PreviousChanges(t)' = stream
  BY <1>1, <1>4, <1>5, <1>9, StoreIsKept
<1>11. ReaderFits'
  BY <1>1, <1>2, <1>4, <1>9 DEF ReaderFits, store
<1>12. HistoryIsComplete'
  <2>1. HistoryIsComplete' <=>
          /\ reader'.at = "refused" => commits'[t] = None
          /\ reader'.at = "done" /\ HasRow(t)' => reader'.got = PreviousChanges(t)'
    BY <1>9 DEF HistoryIsComplete
  <2> QED
    BY <1>9, <1>10, <2>1
<1>13. PagesJoinUp'
  <2>1. PagesJoinUp' <=> (t # None /\ HasRow(t)' => IsPrefix(reader'.got, PreviousChanges(t)'))
    BY <1>9 DEF PagesJoinUp
  <2> QED
    BY <1>7, <1>9, <1>10, <2>1
<1> QED
  BY <1>10, <1>11, <1>12, <1>13 DEF IInv

\* A history is lost only with its revision.
LEMMA FindGoneKeeps ==
  ASSUME IInv, FindGone
  PROVE  IInv'
<1>1. PICK t : t = reader.tip
  OBVIOUS
<1>2. /\ t # None /\ commits[t] = None /\ UNCHANGED store
      /\ reader' = [reader EXCEPT !.at = "refused"]
      /\ reader \in [tip : RevisionIds \cup {None}, got : Seq(Events),
                     at : {"reading", "done", "refused"}]
  BY <1>1 DEF FindGone, IInv, StoreInv, TypeOK
<1>3. /\ reader'.tip = t /\ reader'.at = "refused"
      /\ reader' \in [tip : RevisionIds \cup {None}, got : Seq(Events),
                      at : {"reading", "done", "refused"}]
  BY <1>1, <1>2
<1>4. StoreInv'
  BY <1>2, <1>3, StoreIsKept
<1>5. ReaderFits'
  BY <1>1, <1>2, <1>3 DEF IInv, ReaderFits, store
<1>6. commits'[t] = None /\ ~HasRow(t)'
  BY <1>2 DEF store, HasRow
<1>7. HistoryIsComplete' /\ PagesJoinUp'
  BY <1>3, <1>6 DEF HistoryIsComplete, PagesJoinUp
<1> QED
  BY <1>4, <1>5, <1>7 DEF IInv

\* A client that has left claims nothing.
LEMMA LeaveKeeps ==
  ASSUME IInv, Leave
  PROVE  IInv'
<1>1. reader' = NoReader /\ UNCHANGED store
  BY DEF Leave
<1>2. /\ reader'.tip = None /\ reader'.at = "reading"
      /\ reader' \in [tip : RevisionIds \cup {None}, got : Seq(Events),
                      at : {"reading", "done", "refused"}]
  BY <1>1, EmptySeq DEF NoReader
<1>3. StoreInv'
  BY <1>1, <1>2, StoreIsKept
<1>4. ReaderFits'
  BY <1>1, <1>2 DEF ReaderFits, NoReader
<1>5. HistoryIsComplete' /\ PagesJoinUp'
  BY <1>2 DEF HistoryIsComplete, PagesJoinUp
<1> QED
  BY <1>3, <1>4, <1>5 DEF IInv

\* A new project has one commit, without the row.
LEMMA InitFits ==
  ASSUME Init
  PROVE  IInv
<1>1. /\ 1 \in RevisionIds /\ \A r \in RevisionIds : r \in Nat /\ r >= 1
      /\ RootBranch \in Branches /\ None \notin Nat /\ None \notin RevisionIds
  BY BoundsAssumption, RootAssumption, NoneAssumption DEF RevisionIds
<1>2. PICK root : root = [branch |-> RootBranch, parent |-> None, isStart |-> TRUE, row |-> None]
  OBVIOUS
<1>3. /\ root \in CommitRecord /\ root # None
      /\ root.branch = RootBranch /\ root.parent = None /\ root.isStart = TRUE /\ root.row = None
  <2>1. root \in CommitRecord
    BY <1>1, <1>2 DEF CommitRecord
  <2> QED
    BY <1>2, <2>1, NoneAssumption
<1>4. /\ commits = [r \in RevisionIds |-> IF r = 1 THEN root ELSE None]
      /\ draftSequence = [b \in Branches |-> IF b = RootBranch THEN 2 ELSE None]
      /\ lastSequence = 2 /\ reader = NoReader
  BY <1>2 DEF Init
<1>5. /\ commits[1] = root
      /\ \A r \in RevisionIds : commits[r] # None <=> r = 1
      /\ ParentOf(1) = None
      /\ \A r \in RevisionIds : ~HasRow(r)
  BY <1>1, <1>3, <1>4 DEF ParentOf, HasRow
<1>6. /\ 1 \in CommitsOf(RootBranch)
      /\ \A b : b # RootBranch => CommitsOf(b) = {}
      /\ \A b : \A r \in CommitsOf(b) : r = 1
  BY <1>1, <1>3, <1>5 DEF CommitsOf
<1>7. /\ reader.tip = None /\ reader.got = <<>> /\ reader.at = "reading"
      /\ reader \in [tip : RevisionIds \cup {None}, got : Seq(Events),
                     at : {"reading", "done", "refused"}]
  BY <1>4, EmptySeq DEF NoReader
<1>8. TypeOK
  BY <1>1, <1>3, <1>4, <1>7 DEF TypeOK
<1>9. AncestryHolds
  BY <1>1, <1>3, <1>5, <1>6 DEF AncestryHolds
<1>10. DraftsAreAhead
  BY <1>1, <1>4, <1>5, <1>6 DEF DraftsAreAhead, BranchExists
<1>11. VersionsHold
  BY <1>5 DEF VersionsHold, Introduces
<1>12. ReaderFits
  BY <1>4, <1>7 DEF ReaderFits
<1>13. HistoryIsComplete /\ PagesJoinUp
  BY <1>7 DEF HistoryIsComplete, PagesJoinUp
<1> QED
  BY <1>8, <1>9, <1>10, <1>11, <1>12, <1>13 DEF IInv, StoreInv

\* The invariant is inductive: one lemma to an action.
LEMMA StepKeeps ==
  ASSUME IInv, [Next]_vars
  PROVE  IInv'
<1>1. StoreInv /\ ReaderFits
  BY DEF IInv
<1>2. ASSUME NEW b \in Branches, DeleteBranch(b)
      PROVE  IInv'
  <2>1. reader' = reader
    BY <1>2 DEF DeleteBranch
  <2> QED
    BY <1>1, <1>2, <2>1, DeleteBranchKeeps, StoreStepKeeps
<1>3. ASSUME NEW b \in Branches, CommitDraft(b)
      PROVE  IInv'
  <2>1. reader' = reader
    BY <1>3 DEF CommitDraft
  <2> QED
    BY <1>1, <1>3, <2>1, CommitDraftKeeps, StoreStepKeeps
<1>4. ASSUME NEW source \in RevisionIds, NEW b \in Branches, CreateBranch(source, b)
      PROVE  IInv'
  <2>1. reader' = reader
    BY <1>4 DEF CreateBranch
  <2> QED
    BY <1>1, <1>4, <2>1, CreateBranchKeeps, StoreStepKeeps
<1>5. ASSUME NEW tip \in RevisionIds, Open(tip)
      PROVE  IInv'
  BY <1>5, OpenKeeps
<1>6. ASSUME NEW strategy \in Strategies, NEW first \in PageSizes, ReadPage(strategy, first)
      PROVE  IInv'
  BY <1>6, ReadPageKeeps
<1>7. CASE FindGone
  BY <1>7, FindGoneKeeps
<1>8. CASE Leave
  BY <1>8, LeaveKeeps
<1>9. CASE UNCHANGED vars
  <2>1. UNCHANGED store /\ commits' = commits /\ reader' = reader
    BY <1>9 DEF vars, store
  <2>2. reader' \in [tip : RevisionIds \cup {None}, got : Seq(Events),
                     at : {"reading", "done", "refused"}]
    BY <1>1, <2>1 DEF StoreInv, TypeOK
  <2>3. StoreInv'
    BY <2>1, <2>2, StoreIsKept
  <2>4. CommitsStay /\ Appears
    BY <2>1 DEF CommitsStay, Appears
  <2>5. ReaderFits'
    BY <1>1, <2>1 DEF ReaderFits, store
  <2> QED
    BY <2>1, <2>3, <2>4, <2>5, StoreStepKeeps DEF StoreStep
<1> QED
  BY <1>2, <1>3, <1>4, <1>5, <1>6, <1>7, <1>8, <1>9 DEF Next

\* The inductive invariant holds.
LEMMA Inductive == Spec => []IInv
<1>1. Init => IInv
  BY InitFits
<1>2. IInv /\ [Next]_vars => IInv'
  BY StepKeeps
<1> QED
  BY <1>1, <1>2, PTL DEF Spec

-----------------------------------------------------------------------------
(* The theorems. *)

\* The history of a committed revision is served for as long as the revision is there,
\* however its branch was forked from others and whatever is committed or deleted
\* beside it; and bisection and scan give exactly the commits from the root to it that
\* changed the row (interpretPreviousRowStatesResult over introduction_events).
THEOREM HistoriesAreComplete == Spec => []HistoryIsComplete
<1>1. IInv => HistoryIsComplete
  BY DEF IInv
<1> QED
  BY <1>1, Inductive, PTL

\* A client that reads page after page gets a prefix of that history: each change once
\* and in order, for pages of any size that are found in either way, with commits and
\* deletions in between (cursor_check, page_plus_one).
THEOREM PagesAlwaysJoinUp == Spec => []PagesJoinUp
<1>1. IInv => PagesJoinUp
  BY DEF IInv
<1> QED
  BY <1>1, Inductive, PTL

\* What the two properties rest on: from every committed revision its parents lead,
\* each older than its child, to the root's first commit, whatever branches are
\* deleted (DeleteBranchHandler, which refuses a branch with children).
THEOREM AncestryStaysWhole == Spec => []AncestryHolds
<1>1. IInv => AncestryHolds
  BY DEF IInv, StoreInv
<1> QED
  BY <1>1, Inductive, PTL

\* And: a version of the row is linked from the commit that introduced it on and never
\* comes back after it was replaced, which is what makes halving an interval between
\* equal ends unnecessary (segments).
THEOREM VersionsNeverReturn == Spec => []VersionsHold
<1>1. IInv => VersionsHold
  BY DEF IInv, StoreInv
<1> QED
  BY <1>1, Inductive, PTL
=============================================================================

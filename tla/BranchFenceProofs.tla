------------------------- MODULE BranchFenceProofs -------------------------
(***************************************************************************)
(* The fence of a branch, for any number of operations, writers and        *)
(* branches, and a pool of any size: an escalated attempt meets nobody but *)
(* attempts that have lost their own fence, slots are neither lost nor     *)
(* handed out twice, and nothing of an attempt outlives it.                *)
(***************************************************************************)
EXTENDS BranchFence, FiniteSetTheorems, SequenceTheorems, TLAPS

-----------------------------------------------------------------------------
(* Lines of those that wait, each at most once. *)

\* Who gets in line is last in it,
LEMMA AppendWaiter ==
  ASSUME NEW S, NEW s \in Seq(S), IsInjective(s), NEW e \in S, e \notin ToSet(s)
  PROVE  /\ Append(s, e) \in Seq(S) /\ IsInjective(Append(s, e))
         /\ ToSet(Append(s, e)) = ToSet(s) \cup {e}
<1>1. /\ Append(s, e) \in Seq(S) /\ Len(Append(s, e)) = Len(s) + 1
      /\ \A i \in 1..Len(s) : Append(s, e)[i] = s[i]
      /\ Append(s, e)[Len(s) + 1] = e
  OBVIOUS
<1>2. DOMAIN s = 1..Len(s) /\ DOMAIN Append(s, e) = 1..Len(s) + 1 /\ Len(s) \in Nat
  BY <1>1
<1> DEFINE t == Append(s, e)
<1> HIDE DEF t
<1>3. IsInjective(t)
  BY <1>1, <1>2 DEF IsInjective, ToSet, t
<1>4. ToSet(t) = ToSet(s) \cup {e}
  BY <1>1, <1>2 DEF ToSet, t
<1>5. QED
  BY <1>1, <1>3, <1>4 DEF t

\* ... who is served was first,
LEMMA TailOfWaiters ==
  ASSUME NEW S, NEW s \in Seq(S), IsInjective(s), s # <<>>
  PROVE  /\ Head(s) \in ToSet(s)
         /\ Tail(s) \in Seq(S) /\ IsInjective(Tail(s))
         /\ ToSet(Tail(s)) = ToSet(s) \ {Head(s)}
<1>1. /\ Tail(s) \in Seq(S) /\ Len(Tail(s)) = Len(s) - 1 /\ Len(s) \in Nat /\ Len(s) >= 1
      /\ \A i \in 1..Len(s) - 1 : Tail(s)[i] = s[i + 1]
      /\ Head(s) = s[1]
  OBVIOUS
<1>2. DOMAIN s = 1..Len(s) /\ DOMAIN Tail(s) = 1..Len(s) - 1
  BY <1>1
<1> DEFINE t == Tail(s)
<1> HIDE DEF t
<1>3. IsInjective(t)
  BY <1>1, <1>2 DEF IsInjective, t
<1>4. ASSUME NEW x \in ToSet(s) \ {Head(s)}
      PROVE  x \in ToSet(t)
  <2>1. PICK i \in 1..Len(s) : s[i] = x
    BY <1>2 DEF ToSet
  <2>2. i # 1 /\ i - 1 \in 1..Len(s) - 1 /\ t[i - 1] = s[i]
    BY <1>1, <2>1 DEF t
  <2>3. QED
    BY <1>2, <2>1, <2>2 DEF ToSet, t
<1>5. ToSet(t) \subseteq ToSet(s) \ {Head(s)}
  BY <1>1, <1>2 DEF ToSet, IsInjective, t
<1>6. QED
  BY <1>1, <1>2, <1>3, <1>4, <1>5 DEF ToSet, t

\* A sequence with one element taken out: the later ones close up.
LEMMA TakenOut ==
  ASSUME NEW S, NEW s \in Seq(S), NEW i \in 1..Len(s)
  PROVE  /\ RemoveAt(s, i) \in Seq(S) /\ Len(RemoveAt(s, i)) = Len(s) - 1
         /\ \A j \in 1..Len(s) - 1 :
              RemoveAt(s, i)[j] = IF j < i THEN s[j] ELSE s[j + 1]
<1> DEFINE before == SubSeq(s, 1, i - 1)
           after == SubSeq(s, i + 1, Len(s))
<1>1. PICK n \in Nat : n = Len(s) /\ \A j \in 1..n : s[j] \in S
  OBVIOUS
<1>2. i \in Nat /\ 1 <= i /\ i <= n
  BY <1>1
<1>3. /\ before \in Seq(S) /\ Len(before) = i - 1
      /\ \A j \in 1..i - 1 : before[j] = s[j]
  BY <1>1, <1>2
<1>4. /\ after \in Seq(S) /\ Len(after) = n - i
      /\ \A j \in 1..n - i : after[j] = s[i + j]
  <2>1. /\ after \in Seq(S)
        /\ Len(after) = IF i + 1 <= n THEN n - (i + 1) + 1 ELSE 0
        /\ \A j \in 1..n - (i + 1) + 1 : after[j] = s[i + 1 + j - 1]
    BY <1>1, <1>2, SubSeqProperties
  <2> HIDE DEF after
  <2>2. Len(after) = n - i /\ \A j \in 1..n - i : j \in 1..n - (i + 1) + 1 /\ i + 1 + j - 1 = i + j
    BY <1>2, <2>1
  <2>3. QED
    BY <2>1, <2>2
<1> HIDE DEF before, after
<1>5. RemoveAt(s, i) = before \o after
  BY DEF RemoveAt, before, after
<1> DEFINE t == before \o after
<1>6. /\ t \in Seq(S) /\ Len(t) = (i - 1) + (n - i)
      /\ \A j \in 1..(i - 1) + (n - i) : t[j] = IF j <= i - 1 THEN before[j] ELSE after[j - (i - 1)]
  <2>1. /\ t \in Seq(S) /\ Len(t) = Len(before) + Len(after)
        /\ \A j \in 1..Len(before) + Len(after) :
             t[j] = IF j <= Len(before) THEN before[j] ELSE after[j - Len(before)]
    BY <1>3, <1>4, ConcatProperties, Zenon
  <2> HIDE DEF t
  <2>2. QED
    BY <1>3, <1>4, <2>1
<1> HIDE DEF t
<1>7. ASSUME NEW j \in 1..n - 1
      PROVE  t[j] = IF j < i THEN s[j] ELSE s[j + 1]
  <2>1. CASE j < i
    <3>1. j \in 1..(i - 1) + (n - i) /\ j <= i - 1 /\ j \in 1..i - 1
      BY <1>2, <2>1
    <3>2. QED
      BY <1>3, <1>6, <2>1, <3>1
  <2>2. CASE ~(j < i)
    <3>1. /\ j \in 1..(i - 1) + (n - i) /\ ~(j <= i - 1)
          /\ j - (i - 1) \in 1..n - i /\ i + (j - (i - 1)) = j + 1
      BY <1>2, <2>2
    <3>2. QED
      BY <1>4, <1>6, <2>2, <3>1
  <2>3. QED
    BY <2>1, <2>2
<1>8. (i - 1) + (n - i) = n - 1
  BY <1>2
<1>9. QED
  BY <1>1, <1>5, <1>6, <1>7, <1>8 DEF t

\* ... and who gives up leaves the others in line.
LEMMA WithoutWaiter ==
  ASSUME NEW S, NEW s \in Seq(S), IsInjective(s), NEW e
  PROVE  /\ RemoveFirst(s, e) \in Seq(S) /\ IsInjective(RemoveFirst(s, e))
         /\ ToSet(RemoveFirst(s, e)) = ToSet(s) \ {e}
<1>1. DOMAIN s = 1..Len(s) /\ Len(s) \in Nat
  OBVIOUS
<1>2. CASE ~\E i \in 1..Len(s) : s[i] = e
  BY <1>1, <1>2 DEF RemoveFirst, ToSet
<1>3. CASE \E i \in 1..Len(s) : s[i] = e
  <2>1. PICK i \in 1..Len(s) : s[i] = e
    BY <1>3
  <2>2. {j \in 1..Len(s) : s[j] = e} = {i}
    BY <1>1, <2>1 DEF IsInjective
  <2>3. SelectInSeq(s, LAMBDA v : v = e) = i
    BY <2>2 DEF SelectInSeq, Min
  <2> DEFINE t == RemoveAt(s, i)
  <2>4. RemoveFirst(s, e) = t
    BY <1>3, <2>3 DEF RemoveFirst
  <2>5. /\ t \in Seq(S) /\ Len(t) = Len(s) - 1
        /\ \A j \in 1..Len(s) - 1 : t[j] = IF j < i THEN s[j] ELSE s[j + 1]
    BY TakenOut
  <2> HIDE DEF t
  <2>6. DOMAIN t = 1..Len(s) - 1
    BY <2>5
  <2>7. IsInjective(t)
    <3>1. ASSUME NEW j \in 1..Len(s) - 1, NEW k \in 1..Len(s) - 1, t[j] = t[k]
          PROVE  j = k
      <4> DEFINE from(x) == IF x < i THEN x ELSE x + 1
      <4>1. /\ from(j) \in 1..Len(s) /\ from(k) \in 1..Len(s)
            /\ t[j] = s[from(j)] /\ t[k] = s[from(k)]
        BY <1>1, <2>1, <2>5
      <4>2. from(j) = from(k)
        <5> HIDE DEF from
        <5> QED
          BY <1>1, <3>1, <4>1 DEF IsInjective
      <4> QED
        BY <1>1, <2>1, <4>2
    <3> QED
      BY <2>6, <3>1 DEF IsInjective
  <2>8. ToSet(t) \subseteq ToSet(s) \ {e}
    <3>1. ASSUME NEW j \in 1..Len(s) - 1
          PROVE  t[j] \in ToSet(s) \ {e}
      <4>1. PICK k \in 1..Len(s) : k # i /\ t[j] = s[k]
        BY <1>1, <2>1, <2>5
      <4>2. s[k] # e
        BY <1>1, <2>1, <4>1 DEF IsInjective
      <4> QED
        BY <1>1, <4>1, <4>2 DEF ToSet
    <3> QED
      BY <2>6, <3>1 DEF ToSet
  <2>9. ASSUME NEW x \in ToSet(s) \ {e}
        PROVE  x \in ToSet(t)
    <3>1. PICK j \in 1..Len(s) : s[j] = x
      BY <1>1 DEF ToSet
    <3>2. CASE j < i
      BY <1>1, <2>1, <2>5, <2>6, <3>1, <3>2 DEF ToSet
    <3>3. CASE j > i
      <4>1. j - 1 \in 1..Len(s) - 1 /\ ~(j - 1 < i) /\ (j - 1) + 1 = j
        BY <1>1, <2>1, <3>3
      <4>2. QED
        BY <2>5, <2>6, <3>1, <4>1 DEF ToSet
    <3>4. QED
      BY <2>1, <3>1, <3>2, <3>3
  <2>10. QED
    BY <2>4, <2>5, <2>7, <2>8, <2>9
<1>4. QED
  BY <1>2, <1>3

-----------------------------------------------------------------------------
(* The invariant. *)

\* What a run has where it stands: only an escalated attempt has a holder, any
\* other shares the fence while it works, and nothing is kept beyond that.
Underway(p) ==
  /\ at[p] \in {"slot", "find", "holder", "lock", "release", "free"} => Escalated(p)
  /\ at[p] \in {"open", "enter"} => ~Escalated(p)
  /\ at[p] = "work" => IF Escalated(p) THEN holder[p] # "none" ELSE p \in shared
  /\ holder[p] # "none" => Escalated(p) /\ at[p] \in {"work", "release"}
  /\ p \in shared => ~Escalated(p) /\ at[p] = "work"

\* The advisory lock: who holds it holds it alone.
FenceExcludes ==
  \A p, q \in Procs : BranchOf[p] = BranchOf[q] /\ holder[p] = "held" =>
    q \notin shared /\ (holder[q] = "held" => p = q)

\* Whoever is in line waits there.
LinesAreWaiting ==
  \A p \in Procs :
    /\ p \in ToSet(waiting) => at[p] = "slot"
    /\ \A b \in Branches : p \in ToSet(queue[b]) =>
         BranchOf[p] = b /\ at[p] \in {"lock", "enter"}

Slotted == {p \in Procs : HasSlot(p)}

FInv ==
  /\ TypeOK /\ (\A p \in Procs : Underway(p)) /\ FenceExcludes /\ LinesAreWaiting
  /\ IsFiniteSet(Slotted) /\ SlotsAreConserved

\* The pool has a slot.
LEMMA SlotsThere ==
  ASSUME TypeOK
  PROVE  Slots \in Nat
<1>1. poolSize \in Nat /\ poolSize >= 2
  BY PoolAssumption DEF TypeOK
<1>2. QED
  BY <1>1 DEF Slots

\* A step of p that concerns no other run but for what it waits for.
OnlyMoves(p) ==
  \A q \in Procs \ {p} :
    /\ at'[q] = at[q] /\ attempt'[q] = attempt[q] /\ holder'[q] = holder[q]
    /\ q \in shared' <=> q \in shared

\* The line for the fence: p gets in,
LEMMA RequestLine ==
  ASSUME FInv, NEW p \in Procs, at[p] \notin {"lock", "enter"}, Request(p)
  PROVE  /\ queue' \in [Branches -> Seq(Procs)] /\ \A b \in Branches : IsInjective(queue'[b])
         /\ ToSet(queue'[BranchOf[p]]) = ToSet(queue[BranchOf[p]]) \cup {p}
         /\ \A b \in Branches \ {BranchOf[p]} : queue'[b] = queue[b]
<1> DEFINE b == BranchOf[p]
<1>1. b \in Branches /\ queue[b] \in Seq(Procs) /\ IsInjective(queue[b]) /\ p \notin ToSet(queue[b])
  BY BranchOfAssumption DEF FInv, TypeOK, LinesAreWaiting
<1>2. queue' = [queue EXCEPT ![b] = Append(queue[b], p)]
  BY DEF Request
<1>3. /\ Append(queue[b], p) \in Seq(Procs) /\ IsInjective(Append(queue[b], p))
      /\ ToSet(Append(queue[b], p)) = ToSet(queue[b]) \cup {p}
  BY <1>1, AppendWaiter
<1> HIDE DEF b
<1>4. queue'[b] = Append(queue[b], p) /\ \A c \in Branches \ {b} : queue'[c] = queue[c]
  BY <1>1, <1>2 DEF FInv, TypeOK
<1>5. queue' \in [Branches -> Seq(Procs)] /\ \A c \in Branches : IsInjective(queue'[c])
  BY <1>1, <1>2, <1>3, <1>4 DEF FInv, TypeOK
<1>6. QED
  BY <1>3, <1>4, <1>5 DEF b

\* ... and is out of it, having been granted the lock or having ended.
LEMMA LeaveLine ==
  ASSUME FInv, NEW p \in Procs,
         \/ IsNext(p) /\ Granted(p)
         \/ queue' = [queue EXCEPT ![BranchOf[p]] = RemoveFirst(@, p)]
  PROVE  /\ queue' \in [Branches -> Seq(Procs)] /\ \A b \in Branches : IsInjective(queue'[b])
         /\ \A b \in Branches : ToSet(queue'[b]) = ToSet(queue[b]) \ {p}
<1> DEFINE b == BranchOf[p]
<1>1. b \in Branches /\ queue[b] \in Seq(Procs) /\ IsInjective(queue[b])
  BY BranchOfAssumption DEF FInv, TypeOK
<1>2. PICK line \in Seq(Procs) :
        /\ IsInjective(line) /\ ToSet(line) = ToSet(queue[b]) \ {p}
        /\ queue' = [queue EXCEPT ![b] = line]
  <2>1. CASE IsNext(p) /\ Granted(p)
    <3>1. queue[b] # <<>> /\ p = Head(queue[b])
      BY <2>1 DEF IsNext
    <3>2. /\ Tail(queue[b]) \in Seq(Procs) /\ IsInjective(Tail(queue[b]))
          /\ ToSet(Tail(queue[b])) = ToSet(queue[b]) \ {p}
      BY <1>1, <3>1, TailOfWaiters
    <3>3. queue' = [queue EXCEPT ![b] = Tail(queue[b])]
      BY <2>1 DEF Granted
    <3>4. QED
      BY <3>2, <3>3, Zenon
  <2>2. CASE queue' = [queue EXCEPT ![b] = RemoveFirst(@, p)]
    <3>1. queue' = [queue EXCEPT ![b] = RemoveFirst(queue[b], p)]
      BY <2>2
    <3>2. QED
      BY <1>1, <3>1, WithoutWaiter, Zenon
  <2>3. QED
    BY <2>1, <2>2
<1> HIDE DEF b
<1>3. queue'[b] = line /\ \A c \in Branches \ {b} : queue'[c] = queue[c]
  BY <1>1, <1>2 DEF FInv, TypeOK
<1>4. queue' \in [Branches -> Seq(Procs)] /\ \A c \in Branches : IsInjective(queue'[c])
  BY <1>1, <1>2, <1>3 DEF FInv, TypeOK
<1>5. \A c \in Branches \ {b} : p \notin ToSet(queue[c])
  BY DEF FInv, LinesAreWaiting, b
<1>6. QED
  BY <1>2, <1>3, <1>4, <1>5

\* A step that concerns one run, and no slots.
LEMMA OnlyMovesKeeps ==
  ASSUME FInv, NEW p \in Procs, poolSize' = poolSize, TypeOK', OnlyMoves(p),
         Underway(p)', HasSlot(p)' = HasSlot(p),
         free' = free, waiting' = waiting \/ (waiting' # <<>> => free = 0),
         holder'[p] = "held" \/ p \in shared' =>
           \/ holder'[p] = holder[p] /\ (p \in shared' <=> p \in shared)
           \/ \A q \in Procs : BranchOf[q] = BranchOf[p] =>
                /\ holder[q] # "held"
                /\ holder'[p] = "held" => q \notin shared',
         LinesAreWaiting'
  PROVE  FInv'
<1>1. \A q \in Procs : Underway(q)'
  BY DEF FInv, OnlyMoves, Underway, Escalated
<1>2. FenceExcludes'
  BY DEF FInv, FenceExcludes, OnlyMoves, Underway
<1>3. Slotted' = Slotted
  BY DEF Slotted, OnlyMoves, HasSlot, Escalated
<1>4. IsFiniteSet(Slotted)' /\ SlotsAreConserved'
  BY <1>3 DEF FInv, SlotsAreConserved, Slotted, Slots
<1>5. QED
  BY <1>1, <1>2, <1>4 DEF FInv

\* A first attempt.
LEMMA BeginKeeps ==
  ASSUME FInv, NEW p \in Procs, poolSize' = poolSize, Begin(p)
  PROVE  FInv'
<1>1. /\ at[p] = "idle" /\ Underway(p)
      /\ attempt'[p] = 0 /\ at'[p] = "connect" /\ holder' = holder /\ shared' = shared
      /\ OnlyMoves(p)
  BY DEF FInv, TypeOK, Begin, Goto, OnlyMoves
<1>2. TypeOK'
  BY AttemptsAssumption DEF FInv, TypeOK, Begin, Goto, Slots
<1>3. Underway(p)' /\ HasSlot(p)' = HasSlot(p)
  BY <1>1 DEF Underway, HasSlot, Escalated, FailuresBeforeEscalation
<1>4. LinesAreWaiting'
  BY <1>1 DEF FInv, LinesAreWaiting, OnlyMoves, Begin
<1>5. QED
  BY <1>1, <1>2, <1>3, <1>4, OnlyMovesKeeps DEF Begin

\* A later one: it needs no slot, or takes one, or gets in line for one.
LEMMA NextAttemptKeeps ==
  ASSUME FInv, NEW p \in Procs, poolSize' = poolSize, NextAttempt(p)
  PROVE  FInv'
<1>1. /\ at[p] = "backoff" /\ Underway(p) /\ holder[p] = "none" /\ p \notin shared
      /\ attempt' = attempt /\ holder' = holder /\ shared' = shared /\ queue' = queue
      /\ OnlyMoves(p) /\ ~HasSlot(p)
  BY DEF FInv, TypeOK, NextAttempt, Goto, OnlyMoves, Underway, HasSlot
<1>2. Slots \in Nat /\ free \in Nat
  BY SlotsThere DEF FInv, TypeOK
<1>3. CASE ~Escalated(p) /\ Goto(p, "connect") /\ UNCHANGED <<free, waiting>>
  <2>1. at'[p] = "connect"
    BY <1>3 DEF FInv, TypeOK, Goto
  <2>2. TypeOK'
    BY <1>3 DEF FInv, TypeOK, NextAttempt, Goto, Slots
  <2>3. Underway(p)' /\ HasSlot(p)' = HasSlot(p)
    BY <1>1, <1>3, <2>1 DEF Underway, HasSlot, Escalated
  <2>4. LinesAreWaiting'
    BY <1>1, <1>3 DEF FInv, LinesAreWaiting, OnlyMoves
  <2>5. QED
    BY <1>1, <1>3, <2>2, <2>3, <2>4, OnlyMovesKeeps
<1>4. CASE Escalated(p) /\ free > 0 /\ free' = free - 1 /\ Goto(p, "find") /\ UNCHANGED waiting
  <2>1. at'[p] = "find" /\ free' \in 0..Slots
    BY <1>2, <1>4 DEF FInv, TypeOK, Goto
  <2>2. TypeOK'
    BY <1>4, <2>1 DEF FInv, TypeOK, NextAttempt, Goto, Slots
  <2>3. Underway(p)' /\ HasSlot(p)'
    BY <1>1, <1>4, <2>1 DEF Underway, HasSlot, Escalated
  <2>4. LinesAreWaiting'
    BY <1>1, <1>4 DEF FInv, LinesAreWaiting, OnlyMoves
  <2>5. \A q \in Procs : Underway(q)'
    BY <1>1, <2>3 DEF FInv, OnlyMoves, Underway, Escalated
  <2>6. FenceExcludes'
    BY <1>1 DEF FInv, FenceExcludes
  <2>7. Slotted' = Slotted \cup {p} /\ p \notin Slotted
    BY <1>1, <2>3 DEF Slotted, OnlyMoves, HasSlot, Escalated
  <2>8. IsFiniteSet(Slotted') /\ Cardinality(Slotted') = Cardinality(Slotted) + 1
    BY <2>7, FS_AddElement DEF FInv
  <2>9. Cardinality(Slotted) \in Nat /\ free + Cardinality(Slotted) = Slots
    BY FS_CardinalityType DEF FInv, SlotsAreConserved, Slotted
  <2>10. free' + Cardinality(Slotted') = Slots /\ Slots' = Slots
    BY <1>2, <1>4, <2>8, <2>9 DEF Slots
  <2>11. waiting' = <<>>
    BY <1>4 DEF FInv, SlotsAreConserved
  <2>12. SlotsAreConserved'
    BY <2>10, <2>11 DEF SlotsAreConserved, Slotted
  <2>13. QED
    BY <2>2, <2>4, <2>5, <2>6, <2>8, <2>12 DEF FInv
<1>5. CASE Escalated(p) /\ free = 0 /\ waiting' = Append(waiting, p) /\ Goto(p, "slot")
           /\ UNCHANGED free
  <2>1. at'[p] = "slot"
    BY <1>5 DEF FInv, TypeOK, Goto
  <2>2. /\ waiting \in Seq(Operations) /\ IsInjective(waiting) /\ p \notin ToSet(waiting)
        /\ p \in Operations
    BY <1>1, <1>5 DEF FInv, TypeOK, LinesAreWaiting, Escalated
  <2>3. /\ waiting' \in Seq(Operations) /\ IsInjective(waiting')
        /\ ToSet(waiting') = ToSet(waiting) \cup {p}
    BY <1>5, <2>2, AppendWaiter
  <2>4. TypeOK'
    BY <1>5, <2>3 DEF FInv, TypeOK, NextAttempt, Goto, Slots
  <2>5. Underway(p)' /\ HasSlot(p)' = HasSlot(p)
    BY <1>1, <1>5, <2>1 DEF Underway, HasSlot, Escalated
  <2>6. LinesAreWaiting'
    BY <1>1, <2>1, <2>3 DEF FInv, LinesAreWaiting, OnlyMoves
  <2>7. QED
    BY <1>1, <1>5, <2>4, <2>5, <2>6, OnlyMovesKeeps
<1>6. QED
  BY <1>3, <1>4, <1>5 DEF NextAttempt

\* On the way to its transaction, and to its holder's.
LEMMA PooledKeeps ==
  ASSUME FInv, NEW p \in Procs, poolSize' = poolSize, Pooled(p)
  PROVE  FInv'
<1>1. /\ attempt' = attempt /\ holder' = holder /\ shared' = shared
      /\ free' = free /\ waiting' = waiting /\ OnlyMoves(p) /\ Underway(p)
  BY DEF FInv, TypeOK, Pooled, FindBranch, Connect, OpenHolder, Goto, OnlyMoves
<1>2. CASE FindBranch(p) \/ Connect(p)
  <2>1. /\ at[p] \in {"find", "connect"} /\ queue' = queue
        /\ IF Escalated(p) THEN at'[p] \in {"connect", "holder"} ELSE at'[p] = "open"
    BY <1>1, <1>2 DEF FInv, TypeOK, FindBranch, Connect, Goto, Underway
  <2>2. TypeOK'
    BY <1>2 DEF FInv, TypeOK, FindBranch, Connect, Goto, Slots
  <2>3. Underway(p)' /\ HasSlot(p)' = HasSlot(p)
    BY <1>1, <2>1 DEF Underway, HasSlot, Escalated
  <2>4. LinesAreWaiting'
    BY <1>1, <2>1 DEF FInv, LinesAreWaiting, OnlyMoves
  <2>5. QED
    BY <1>1, <2>2, <2>3, <2>4, OnlyMovesKeeps
<1>3. CASE OpenHolder(p)
  <2>1. at[p] = "holder" /\ at'[p] = "lock" /\ Request(p)
    BY <1>3 DEF FInv, TypeOK, OpenHolder, Goto
  <2>2. /\ queue' \in [Branches -> Seq(Procs)] /\ \A b \in Branches : IsInjective(queue'[b])
        /\ ToSet(queue'[BranchOf[p]]) = ToSet(queue[BranchOf[p]]) \cup {p}
        /\ \A b \in Branches \ {BranchOf[p]} : queue'[b] = queue[b]
    BY <2>1, RequestLine
  <2>3. TypeOK'
    BY <1>3, <2>2 DEF FInv, TypeOK, OpenHolder, Goto, Slots
  <2>4. Underway(p)' /\ HasSlot(p)' = HasSlot(p)
    BY <1>1, <2>1 DEF Underway, HasSlot, Escalated
  <2>5. LinesAreWaiting'
    <3>1. ASSUME NEW k \in Procs, k \in ToSet(waiting)
          PROVE  at'[k] = "slot"
      BY <1>1, <2>1, <3>1 DEF FInv, LinesAreWaiting, OnlyMoves
    <3>2. ASSUME NEW k \in Procs, NEW b \in Branches, k \in ToSet(queue'[b])
          PROVE  BranchOf[k] = b /\ at'[k] \in {"lock", "enter"}
      <4>1. CASE k = p
        BY <2>1, <2>2, <3>2, <4>1 DEF FInv, LinesAreWaiting
      <4>2. CASE k # p
        <5>1. k \in ToSet(queue[b])
          BY <2>2, <3>2, <4>2
        <5>2. QED
          BY <1>1, <4>2, <5>1 DEF FInv, LinesAreWaiting, OnlyMoves
      <4>3. QED
        BY <4>1, <4>2
    <3>3. QED
      BY <1>1, <3>1, <3>2 DEF LinesAreWaiting
  <2>6. QED
    BY <1>1, <2>3, <2>4, <2>5, OnlyMovesKeeps
<1>4. QED
  BY <1>2, <1>3 DEF Pooled

\* The holder has the lock to itself.
LEMMA HoldKeeps ==
  ASSUME FInv, NEW p \in Procs, poolSize' = poolSize, Hold(p)
  PROVE  FInv'
<1>1. /\ at[p] = "lock" /\ at'[p] = "work" /\ holder'[p] = "held"
      /\ attempt' = attempt /\ shared' = shared /\ free' = free /\ waiting' = waiting
      /\ OnlyMoves(p) /\ Underway(p)
  BY DEF FInv, TypeOK, Hold, Goto, OnlyMoves
<1>2. /\ queue' \in [Branches -> Seq(Procs)] /\ \A b \in Branches : IsInjective(queue'[b])
      /\ \A b \in Branches : ToSet(queue'[b]) = ToSet(queue[b]) \ {p}
  BY LeaveLine DEF Hold
<1>3. TypeOK'
  BY <1>2 DEF FInv, TypeOK, Hold, Goto, Slots
<1>4. Underway(p)' /\ HasSlot(p)' = HasSlot(p)
  BY <1>1 DEF Underway, HasSlot, Escalated
<1>5. LinesAreWaiting'
  BY <1>1, <1>2 DEF FInv, LinesAreWaiting, OnlyMoves
<1>6. \A q \in Procs : BranchOf[q] = BranchOf[p] => holder[q] # "held" /\ q \notin shared'
  BY <1>1 DEF Hold, Holding, Sharing
<1>7. QED
  BY <1>1, <1>3, <1>4, <1>5, <1>6, OnlyMovesKeeps

\* A writer shares it, with nobody holding it.
LEMMA WriterKeeps ==
  ASSUME FInv, NEW p \in Procs, poolSize' = poolSize, Enter(p) \/ Admit(p)
  PROVE  FInv'
<1>1. /\ attempt' = attempt /\ holder' = holder /\ free' = free /\ waiting' = waiting
      /\ OnlyMoves(p) /\ Underway(p)
  BY DEF FInv, TypeOK, Enter, Admit, Goto, OnlyMoves
<1>2. CASE Enter(p)
  <2>1. at[p] = "open" /\ at'[p] = "enter" /\ shared' = shared
    BY <1>2 DEF FInv, TypeOK, Enter, Goto
  <2>2. /\ queue' \in [Branches -> Seq(Procs)] /\ \A b \in Branches : IsInjective(queue'[b])
        /\ ToSet(queue'[BranchOf[p]]) = ToSet(queue[BranchOf[p]]) \cup {p}
        /\ \A b \in Branches \ {BranchOf[p]} : queue'[b] = queue[b]
    BY <1>2, <2>1, RequestLine DEF Enter
  <2>3. TypeOK'
    BY <1>2, <2>2 DEF FInv, TypeOK, Enter, Goto, Slots
  <2>4. Underway(p)' /\ HasSlot(p)' = HasSlot(p)
    BY <1>1, <2>1 DEF Underway, HasSlot, Escalated
  <2>5. LinesAreWaiting'
    BY <1>1, <2>1, <2>2 DEF FInv, LinesAreWaiting, OnlyMoves
  <2>6. QED
    BY <1>1, <2>1, <2>3, <2>4, <2>5, OnlyMovesKeeps
<1>3. CASE Admit(p)
  <2>1. at[p] = "enter" /\ at'[p] = "work" /\ shared' = shared \cup {p}
    BY <1>3 DEF FInv, TypeOK, Admit, Goto
  <2>2. /\ queue' \in [Branches -> Seq(Procs)] /\ \A b \in Branches : IsInjective(queue'[b])
        /\ \A b \in Branches : ToSet(queue'[b]) = ToSet(queue[b]) \ {p}
    BY <1>3, LeaveLine DEF Admit
  <2>3. TypeOK'
    BY <1>3, <2>2 DEF FInv, TypeOK, Admit, Goto, Slots
  <2>4. Underway(p)' /\ HasSlot(p)' = HasSlot(p)
    BY <1>1, <2>1 DEF Underway, HasSlot, Escalated
  <2>5. LinesAreWaiting'
    BY <1>1, <2>1, <2>2 DEF FInv, LinesAreWaiting, OnlyMoves
  <2>6. /\ holder'[p] = "none"
        /\ \A q \in Procs : BranchOf[q] = BranchOf[p] => holder[q] # "held"
    BY <1>1, <1>3, <2>1 DEF Admit, Holding, Underway
  <2>7. QED
    BY <1>1, <2>3, <2>4, <2>5, <2>6, OnlyMovesKeeps
<1>4. QED
  BY <1>2, <1>3

\* A transaction ends, whatever becomes of its attempt.
LEMMA EndTransactionKeeps ==
  ASSUME FInv, NEW p \in Procs, poolSize' = poolSize,
         at[p] \in {"open", "holder", "lock", "enter", "work"},
         NEW result \in {"done", "conflict", "refused"}, EndTransaction(p, result),
         rival' \in [Procs -> BOOLEAN]
  PROVE  FInv'
<1> DEFINE again == result = "conflict" /\ attempt[p] < MaxAttempts - 1
<1>1. /\ shared' = shared \ {p} /\ holder' = holder /\ free' = free /\ waiting' = waiting
      /\ at'[p] = IF Escalated(p) THEN "release" ELSE IF again THEN "backoff" ELSE "idle"
      /\ attempt'[p] = IF ~Escalated(p) /\ again THEN attempt[p] + 1 ELSE attempt[p]
      /\ OnlyMoves(p) /\ Underway(p)
  BY DEF FInv, TypeOK, EndTransaction, Goto, OnlyMoves
<1>2. /\ queue' \in [Branches -> Seq(Procs)] /\ \A b \in Branches : IsInjective(queue'[b])
      /\ \A b \in Branches : ToSet(queue'[b]) = ToSet(queue[b]) \ {p}
  BY LeaveLine DEF EndTransaction
<1>3. TypeOK'
  <2>1. attempt' \in [Procs -> 0..MaxAttempts - 1]
    BY AttemptsAssumption DEF FInv, TypeOK, EndTransaction
  <2>2. /\ at' \in [Procs -> {"idle", "slot", "find", "connect", "open", "holder", "lock",
                             "enter", "work", "release", "free", "backoff"}]
        /\ outcome' \in [Procs -> {"none", "done", "conflict", "refused"}]
    BY DEF FInv, TypeOK, EndTransaction, Goto
  <2>3. QED
    BY <1>1, <1>2, <2>1, <2>2 DEF FInv, TypeOK, Slots
<1>4. CASE Escalated(p)
  <2>1. at'[p] = "release" /\ Escalated(p)' /\ p \notin shared /\ p \notin shared'
    BY <1>1, <1>4 DEF Escalated, Underway
  <2>2. Underway(p)' /\ HasSlot(p)' = HasSlot(p)
    BY <1>1, <1>4, <2>1 DEF Underway, HasSlot
  <2>3. LinesAreWaiting'
    BY <1>1, <1>2 DEF FInv, LinesAreWaiting, OnlyMoves
  <2>4. QED
    BY <1>1, <1>3, <2>1, <2>2, <2>3, OnlyMovesKeeps
<1>5. CASE ~Escalated(p)
  <2>1. at'[p] \in {"backoff", "idle"} /\ holder[p] = "none" /\ p \notin shared'
    BY <1>1, <1>5 DEF Underway
  <2>2. Underway(p)' /\ HasSlot(p)' = HasSlot(p)
    BY <1>1, <1>5, <2>1 DEF Underway, HasSlot
  <2>3. LinesAreWaiting'
    BY <1>1, <1>2 DEF FInv, LinesAreWaiting, OnlyMoves
  <2>4. QED
    BY <1>1, <1>3, <2>1, <2>2, <2>3, OnlyMovesKeeps
<1>6. QED
  BY <1>4, <1>5

\* The fence is given back, or lost.
LEMMA ReleaseKeeps ==
  ASSUME FInv, NEW p \in Procs, poolSize' = poolSize, ReleaseFence(p) \/ HolderLost(p)
  PROVE  FInv'
<1>1. /\ attempt' = attempt /\ shared' = shared /\ free' = free /\ waiting' = waiting
      /\ queue' = queue /\ OnlyMoves(p) /\ Underway(p)
  BY DEF FInv, TypeOK, ReleaseFence, HolderLost, Goto, OnlyMoves
<1>2. TypeOK'
  BY DEF FInv, TypeOK, ReleaseFence, HolderLost, Goto, Slots
<1>3. \/ at[p] = "release" /\ at'[p] = "free" /\ holder'[p] = "none"
      \/ at[p] = "work" /\ at'[p] = "work" /\ holder[p] = "held" /\ holder'[p] = "lost"
  BY DEF FInv, TypeOK, ReleaseFence, HolderLost, Goto
<1>4. Underway(p)' /\ HasSlot(p)' = HasSlot(p) /\ p \notin shared
  BY <1>1, <1>3 DEF Underway, HasSlot, Escalated
<1>5. LinesAreWaiting'
  BY <1>1, <1>3 DEF FInv, LinesAreWaiting, OnlyMoves
<1>6. QED
  BY <1>1, <1>2, <1>3, <1>4, <1>5, OnlyMovesKeeps

\* A wait for a slot or a connection reaches its limit.
LEMMA ExpiryKeeps ==
  ASSUME FInv, NEW p \in Procs, poolSize' = poolSize, SlotExpires(p) \/ ConnectExpires(p)
  PROVE  FInv'
<1>1. /\ attempt' = attempt /\ holder' = holder /\ shared' = shared /\ free' = free
      /\ queue' = queue /\ OnlyMoves(p) /\ Underway(p)
  BY DEF FInv, TypeOK, SlotExpires, ConnectExpires, Goto, OnlyMoves
<1>2. CASE SlotExpires(p)
  <2>1. at[p] = "slot" /\ at'[p] = "idle"
    BY <1>2 DEF FInv, TypeOK, SlotExpires, Goto
  <2>2. /\ waiting' \in Seq(Operations) /\ IsInjective(waiting')
        /\ ToSet(waiting') = ToSet(waiting) \ {p}
    BY <1>2, WithoutWaiter DEF FInv, TypeOK, SlotExpires
  <2>3. TypeOK'
    BY <1>2, <2>2 DEF FInv, TypeOK, SlotExpires, Goto, Slots
  <2>4. Underway(p)' /\ HasSlot(p)' = HasSlot(p)
    BY <1>1, <2>1 DEF Underway, HasSlot, Escalated
  <2>5. LinesAreWaiting'
    BY <1>1, <2>1, <2>2 DEF FInv, LinesAreWaiting, OnlyMoves
  <2>6. waiting' # <<>> => free = 0
    <3>1. waiting' # <<>> => ToSet(waiting') # {}
      BY <2>2 DEF ToSet
    <3>2. waiting = <<>> => ToSet(waiting) = {}
      BY DEF ToSet
    <3>3. QED
      BY <2>2, <3>1, <3>2 DEF FInv, SlotsAreConserved
  <2>7. QED
    BY <1>1, <2>3, <2>4, <2>5, <2>6, OnlyMovesKeeps
<1>3. CASE ConnectExpires(p)
  <2>1. /\ at[p] \in {"find", "connect"} /\ waiting' = waiting
        /\ at'[p] = IF Escalated(p) THEN "free" ELSE "idle"
    BY <1>3 DEF FInv, TypeOK, ConnectExpires, Goto
  <2>2. TypeOK'
    BY <1>3 DEF FInv, TypeOK, ConnectExpires, Goto, Slots
  <2>3. Underway(p)' /\ HasSlot(p)' = HasSlot(p)
    BY <1>1, <2>1 DEF Underway, HasSlot, Escalated
  <2>4. LinesAreWaiting'
    BY <1>1, <2>1 DEF FInv, LinesAreWaiting, OnlyMoves
  <2>5. QED
    BY <1>1, <2>1, <2>2, <2>3, <2>4, OnlyMovesKeeps
<1>4. QED
  BY <1>2, <1>3

\* A slot goes to the first that waits for one, or back.
LEMMA ReleaseSlotKeeps ==
  ASSUME FInv, NEW p \in Procs, poolSize' = poolSize, ReleaseSlot(p)
  PROVE  FInv'
<1> DEFINE again == outcome[p] = "conflict" /\ attempt[p] < MaxAttempts - 1
           ended == [at EXCEPT ![p] = IF again THEN "backoff" ELSE "idle"]
<1>1. /\ at[p] = "free" /\ Underway(p) /\ Escalated(p)
      /\ holder[p] = "none" /\ p \notin shared
      /\ holder' = holder /\ shared' = shared /\ queue' = queue
  BY DEF FInv, ReleaseSlot, Underway
<1>2. /\ ended \in [Procs -> {"idle", "slot", "find", "connect", "open", "holder", "lock",
                             "enter", "work", "release", "free", "backoff"}]
      /\ ended[p] \in {"backoff", "idle"} /\ \A q \in Procs \ {p} : ended[q] = at[q]
  BY DEF FInv, TypeOK
<1>3. /\ attempt' \in [Procs -> 0..MaxAttempts - 1]
      /\ \A q \in Procs \ {p} : attempt'[q] = attempt[q]
  <2>1. attempt' = IF again THEN [attempt EXCEPT ![p] = @ + 1] ELSE attempt
    BY DEF ReleaseSlot
  <2>2. QED
    BY <2>1, AttemptsAssumption DEF FInv, TypeOK
<1>4. FenceExcludes'
  BY <1>1 DEF FInv, FenceExcludes
<1>5. p \in Slotted /\ IsFiniteSet(Slotted)
  BY <1>1 DEF FInv, Slotted, HasSlot
<1>6. /\ IsFiniteSet(Slotted \ {p}) /\ Cardinality(Slotted \ {p}) = Cardinality(Slotted) - 1
      /\ Cardinality(Slotted) \in Nat /\ Cardinality(Slotted \ {p}) \in Nat
  BY <1>5, FS_RemoveElement, FS_CardinalityType
<1>7. Slots \in Nat /\ Slots' = Slots /\ free \in Nat /\ free + Cardinality(Slotted) = Slots
  BY SlotsThere DEF FInv, TypeOK, SlotsAreConserved, Slotted, Slots
<1>8. CASE waiting # <<>>
  <2> DEFINE w == Head(waiting)
  <2>1. /\ waiting \in Seq(Operations) /\ IsInjective(waiting)
        /\ w \in Operations /\ w \in ToSet(waiting)
        /\ Tail(waiting) \in Seq(Operations) /\ IsInjective(Tail(waiting))
        /\ ToSet(Tail(waiting)) = ToSet(waiting) \ {w}
    BY <1>8, TailOfWaiters DEF FInv, TypeOK
  <2> HIDE DEF w, ended, again
  <2>2. w \in Procs /\ at[w] = "slot" /\ w # p /\ Escalated(w) /\ holder[w] = "none" /\ w \notin shared
    BY <1>1, <2>1 DEF FInv, LinesAreWaiting, Procs, Underway
  <2>3. /\ at' = [ended EXCEPT ![w] = "find"] /\ waiting' = Tail(waiting) /\ free' = free
    BY <1>8 DEF ReleaseSlot, w, ended, again
  <2>4. /\ at'[p] \in {"backoff", "idle"} /\ at'[w] = "find"
        /\ \A q \in Procs \ {p, w} : at'[q] = at[q]
    BY <1>2, <2>2, <2>3
  <2>5. TypeOK'
    BY <1>1, <1>2, <1>3, <1>7, <2>1, <2>3 DEF FInv, TypeOK, ReleaseSlot
  <2>6. \A q \in Procs : Underway(q)'
    BY <1>1, <1>3, <2>2, <2>4 DEF FInv, Underway, Escalated
  <2>7. LinesAreWaiting'
    BY <1>1, <2>1, <2>2, <2>3, <2>4 DEF FInv, LinesAreWaiting
  <2>8. w \notin Slotted /\ Slotted' = (Slotted \ {p}) \cup {w}
    BY <1>3, <2>2, <2>4 DEF Slotted, HasSlot, Escalated
  <2>9. IsFiniteSet(Slotted') /\ Cardinality(Slotted') = Cardinality(Slotted)
    <3>1. /\ IsFiniteSet((Slotted \ {p}) \cup {w})
          /\ Cardinality((Slotted \ {p}) \cup {w}) = Cardinality(Slotted \ {p}) + 1
      BY <1>6, <2>8, FS_AddElement, Zenon
    <3>2. QED
      BY <1>6, <2>8, <3>1
  <2>10. free = 0
    BY <1>8 DEF FInv, SlotsAreConserved
  <2>11. SlotsAreConserved'
    BY <1>7, <2>3, <2>9, <2>10 DEF SlotsAreConserved, Slotted
  <2>12. QED
    BY <1>4, <2>5, <2>6, <2>7, <2>9, <2>11 DEF FInv
<1>9. CASE waiting = <<>>
  <2>1. at' = ended /\ free' = free + 1 /\ waiting' = <<>>
    BY <1>9 DEF ReleaseSlot
  <2> HIDE DEF ended, again
  <2>2. TypeOK'
    BY <1>1, <1>2, <1>3, <1>6, <1>7, <1>9, <2>1 DEF FInv, TypeOK, ReleaseSlot
  <2>3. \A q \in Procs : Underway(q)'
    BY <1>1, <1>2, <1>3, <2>1 DEF FInv, Underway, Escalated
  <2>4. LinesAreWaiting'
    BY <1>1, <1>2, <1>9, <2>1 DEF FInv, LinesAreWaiting
  <2>5. Slotted' = Slotted \ {p}
    BY <1>2, <1>3, <2>1 DEF Slotted, HasSlot, Escalated
  <2>6. SlotsAreConserved'
    <3>1. free' + Cardinality(Slotted') = Slots'
      BY <1>6, <1>7, <2>1, <2>5
    <3>2. QED
      BY <2>1, <3>1 DEF SlotsAreConserved, Slotted
  <2>7. QED
    BY <1>4, <1>6, <2>2, <2>3, <2>4, <2>5, <2>6 DEF FInv
<1>10. QED
  BY <1>8, <1>9

-----------------------------------------------------------------------------

\* Nobody runs, and every slot is free.
LEMMA InitIsFree == Init => FInv
<1> SUFFICES ASSUME Init PROVE FInv
  OBVIOUS
<1>1. Slots \in Nat
  <2>1. poolSize \in Nat /\ poolSize >= 2
    BY PoolAssumption DEF Init
  <2>2. QED
    BY <2>1 DEF Slots
<1>2. IsInjective(<<>>) /\ <<>> \in Seq(Procs) /\ <<>> \in Seq(Operations) /\ ToSet(<<>>) = {}
  BY DEF IsInjective, ToSet
<1>3. TypeOK
  BY <1>1, <1>2, AttemptsAssumption DEF Init, TypeOK
<1>4. (\A p \in Procs : Underway(p)) /\ FenceExcludes
  BY DEF Init, Underway, FenceExcludes
<1>5. LinesAreWaiting
  BY <1>2 DEF Init, LinesAreWaiting
<1>6. Slotted = {}
  BY DEF Init, Slotted, HasSlot
<1>7. IsFiniteSet(Slotted) /\ SlotsAreConserved
  <2>1. IsFiniteSet({}) /\ Cardinality({}) = 0
    BY FS_EmptySet
  <2>2. free + Cardinality(Slotted) = Slots /\ waiting = <<>>
    BY <1>1, <1>6, <2>1 DEF Init
  <2>3. QED
    BY <1>6, <2>1, <2>2 DEF SlotsAreConserved, Slotted
<1>8. QED
  BY <1>3, <1>4, <1>5, <1>7 DEF FInv

\* Every step keeps the invariant.
LEMMA FenceStepKeeps == FInv /\ Next => FInv'
<1> SUFFICES ASSUME FInv, poolSize' = poolSize, NEW p \in Procs,
                    Begin(p) \/ Pooled(p) \/ Step(p) \/ Conflict(p) \/ Disturb(p)
             PROVE  FInv'
  BY DEF Next
<1>1. CASE Commit(p)
  <2>1. rival' \in [Procs -> BOOLEAN]
    BY <1>1 DEF FInv, TypeOK, Commit
  <2>2. QED
    BY <1>1, <2>1, EndTransactionKeeps DEF Commit
<1>2. CASE Conflict(p) \/ AttemptFails(p)
  <2>1. rival' \in [Procs -> BOOLEAN]
    BY <1>2 DEF FInv, TypeOK, Conflict, AttemptFails
  <2>2. QED
    BY <1>2, <2>1, EndTransactionKeeps DEF Conflict, AttemptFails
<1>3. QED
  BY <1>1, <1>2, BeginKeeps, PooledKeeps, NextAttemptKeeps, HoldKeeps, WriterKeeps, ReleaseKeeps,
     ReleaseSlotKeeps, ExpiryKeeps DEF Step, Disturb

\* The invariant always holds.
LEMMA FenceInvariant == Spec => []FInv
<1>1. FInv /\ UNCHANGED vars => FInv'
  BY DEF FInv, vars, TypeOK, Underway, FenceExcludes, LinesAreWaiting, SlotsAreConserved, Slotted,
     HasSlot, Escalated, Slots
<1>2. QED
  BY <1>1, InitIsFree, FenceStepKeeps, PTL DEF Spec

\* Every run, queue and counter has its type, and nobody waits in line twice.
THEOREM FenceTypeCorrect == Spec => []TypeOK
<1>1. FInv => TypeOK
  BY DEF FInv
<1>2. QED
  BY <1>1, FenceInvariant, PTL

\* No slot is lost or handed out twice, however waits expire, whatever the size
\* of the pool: as many are free or in use as there ever were.
THEOREM SlotsStayConserved == Spec => []SlotsAreConserved
<1>1. FInv => SlotsAreConserved
  BY DEF FInv
<1>2. QED
  BY <1>1, FenceInvariant, PTL

\* Nobody that is through with an attempt keeps the fence, its share of it, or a
\* place in line for it.
THEOREM FenceIsGivenBack == Spec => []FenceIsReleased
<1>1. FInv => FenceIsReleased
  BY DEF FInv, FenceIsReleased, Underway, LinesAreWaiting
<1>2. QED
  BY <1>1, FenceInvariant, PTL

\* Under its fence an escalated attempt meets nobody at work on its branch but
\* attempts that have lost their fence, and no commit but one of theirs comes
\* after its snapshot; with any number of writers at work.
THEOREM EscalationIsAlone == Spec => EscalatedRunsAlone
<1> DEFINE Alone == \A p \in Procs : at[p] = "work" /\ Escalated(p) /\ holder[p] # "lost" =>
              /\ \A q \in Rivals(p) : Escalated(q) /\ holder[q] = "lost"
              /\ rival'[p] => rival[p] \/ \E q \in Rivals(p) : Commit(q)
<1>1. ASSUME FInv, [Next]_vars
      PROVE  Alone
  <2>1. SUFFICES ASSUME NEW p \in Procs, at[p] = "work", Escalated(p), holder[p] # "lost"
                 PROVE  /\ \A q \in Rivals(p) : Escalated(q) /\ holder[q] = "lost"
                        /\ rival'[p] => rival[p] \/ \E q \in Rivals(p) : Commit(q)
    OBVIOUS
  <2>2. holder[p] = "held"
    BY <1>1, <2>1 DEF FInv, TypeOK, Underway
  <2>3. ASSUME NEW q \in Rivals(p)
        PROVE  Escalated(q) /\ holder[q] = "lost"
    BY <1>1, <2>1, <2>2 DEF FInv, TypeOK, Underway, FenceExcludes, Rivals
  <2>4. ASSUME rival'[p], ~rival[p]
        PROVE  \E q \in Rivals(p) : Commit(q)
    <3>1. PICK q \in Procs : Begin(q) \/ Pooled(q) \/ Step(q) \/ Conflict(q) \/ Disturb(q)
      BY <1>1, <2>4 DEF Next, vars
    <3>2. CASE Commit(q)
      <4>1. q # p /\ BranchOf[q] = BranchOf[p] /\ at[q] = "work"
        BY <2>4, <3>2 DEF Commit
      <4>2. QED
        BY <3>2, <4>1 DEF Rivals
    <3>3. CASE Hold(q) \/ Enter(q)
      BY <1>1, <2>4, <3>3 DEF Hold, Enter, FInv, TypeOK
    <3>4. CASE ~Commit(q) /\ ~Hold(q) /\ ~Enter(q)
      <4>1. rival' = rival
        BY <3>1, <3>4 DEF Begin, Pooled, FindBranch, Connect, OpenHolder, Step, NextAttempt, Admit,
           ReleaseFence, ReleaseSlot, Conflict, Disturb, SlotExpires, ConnectExpires, AttemptFails,
           HolderLost
      <4>2. QED
        BY <2>4, <4>1
    <3>5. QED
      BY <3>2, <3>3, <3>4
  <2>5. QED
    BY <2>3, <2>4
<1>2. QED
  BY <1>1, FenceInvariant, PTL DEF Spec, EscalatedRunsAlone
=============================================================================

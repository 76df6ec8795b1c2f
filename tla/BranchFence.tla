---------------------------- MODULE BranchFence ----------------------------
(***************************************************************************)
(* Serializable writes of a branch, and the fence that an operation which  *)
(* lost to them twice takes for its next attempt                           *)
(* (src/infrastructure/database).                                          *)
(*                                                                         *)
(* Writers retry what fails serialization; operations (commit and revert)  *)
(* do too, and from the third attempt on run each attempt under a fence    *)
(* of the whole branch.  The fence is an advisory lock: transactions of    *)
(* writers share it, and an escalated attempt has a second transaction, on *)
(* a connection of its own, that holds it exclusively.  Connections come   *)
(* from a pool, and slots keep escalated attempts from exhausting it.      *)
(*                                                                         *)
(* Times are abstracted to whether a wait reaches its limit.  Serialization *)
(* failures come from transactions of the same branch; those that          *)
(* PostgreSQL finds between branches by the coarseness of its locks are    *)
(* left out.                                                               *)
(***************************************************************************)
EXTENDS Integers, FiniteSets, Sequences, SequencesExt

CONSTANTS
  Operations,   \* runs of EscalatingTransactionRunner
  Writers,      \* runs of TransactionPrismaService.runSerializable
  Branches,     \* branch ids
  BranchOf,     \* the branch that each of them writes to
  PoolSizes,    \* numbers of connections that the pool may have
  MaxAttempts   \* serializableMaxAttempts

Procs == Operations \cup Writers

ASSUME BranchOfAssumption == BranchOf \in [Procs -> Branches]
\* With a pool of one the holder of an escalated attempt, which has the one
\* connection, can only wait until its limit.
ASSUME PoolAssumption == PoolSizes \subseteq {n \in Nat : n >= 2}
\* Below that an operation never escalates.
ASSUME AttemptsAssumption == MaxAttempts \in Nat /\ MaxAttempts >= 3

\* SERIALIZATION_FAILURES_BEFORE_ESCALATION
FailuresBeforeEscalation == 2

VARIABLES
  poolSize, \* PrismaService.connectionPoolSize
  at,       \* where each run is
  attempt,  \* the number of its attempt
  outcome,  \* how its last attempt ended
  rival,    \* whether its branch changed after its snapshot
  holder,   \* the transaction that holds the fence for it
  shared,   \* the runs whose transactions share the fence of their branch
  queue,    \* by branch: the runs whose requests for the fence wait
  free,     \* EscalationSlots.free
  waiting   \* EscalationSlots.waiting

vars == <<poolSize, at, attempt, outcome, rival, holder, shared, queue, free, waiting>>

\* Mutated: an attempt is counted for one connection.
SlotsOfPool == poolSize

\* EscalationSlots
Slots == IF poolSize \div 2 >= 1 THEN poolSize \div 2 ELSE 1

\* Every variable has its type, and each waits in one queue at most once.
TypeOK ==
  /\ poolSize \in PoolSizes
  /\ at \in [Procs -> {"idle", "slot", "find", "connect", "open", "holder", "lock", "enter",
                       "work", "release", "free", "backoff"}]
  /\ attempt \in [Procs -> 0..MaxAttempts - 1]
  /\ outcome \in [Procs -> {"none", "done", "conflict", "refused"}]
  /\ rival \in [Procs -> BOOLEAN]
  /\ holder \in [Procs -> {"none", "held", "lost"}]
  /\ shared \in SUBSET Procs
  /\ queue \in [Branches -> Seq(Procs)] /\ waiting \in Seq(Operations)
  /\ free \in 0..Slots
  /\ IsInjective(waiting) /\ \A b \in Branches : IsInjective(queue[b])

-----------------------------------------------------------------------------

Escalated(p) == p \in Operations /\ attempt[p] >= FailuresBeforeEscalation
Holding(b) == {p \in Procs : BranchOf[p] = b /\ holder[p] = "held"}
Sharing(b) == {p \in shared : BranchOf[p] = b}
Rivals(p) == {q \in Procs \ {p} : BranchOf[q] = BranchOf[p] /\ at[q] = "work"}

\* Connections checked out: an attempt's own, and its holder's.
HasOwn(p) == at[p] \in {"open", "holder", "lock", "enter", "work"}
HasHolder(p) == at[p] = "lock" \/ holder[p] = "held"
Used == Cardinality({p \in Procs : HasOwn(p)}) + Cardinality({p \in Procs : HasHolder(p)})
ConnectionFree == Used < poolSize

HasSlot(p) == Escalated(p) /\ at[p] \notin {"idle", "backoff", "slot"}

Goto(p, next) == at' = [at EXCEPT ![p] = next]
Request(p) == queue' = [queue EXCEPT ![BranchOf[p]] = Append(@, p)]
IsNext(p) == queue[BranchOf[p]] # <<>> /\ Head(queue[BranchOf[p]]) = p
Granted(p) == queue' = [queue EXCEPT ![BranchOf[p]] = Tail(@)]

-----------------------------------------------------------------------------
(* An attempt. *)

\* retryOnSerializationFailure, its first attempt
Begin(p) ==
  /\ at[p] = "idle"
  /\ attempt' = [attempt EXCEPT ![p] = 0] /\ outcome' = [outcome EXCEPT ![p] = "none"]
  /\ Goto(p, "connect")
  /\ UNCHANGED <<rival, holder, shared, queue, free, waiting>>

\* ... and every later one; EscalationSlots.acquire
NextAttempt(p) ==
  /\ at[p] = "backoff"
  /\ \/ ~Escalated(p) /\ Goto(p, "connect") /\ UNCHANGED <<free, waiting>>
     \/ Escalated(p) /\ free > 0 /\ free' = free - 1 /\ Goto(p, "find") /\ UNCHANGED waiting
     \/ Escalated(p) /\ free = 0 /\ waiting' = Append(waiting, p) /\ Goto(p, "slot")
        /\ UNCHANGED free
  /\ UNCHANGED <<attempt, outcome, rival, holder, shared, queue>>

\* findBranchId, a query on a connection that it gives back
FindBranch(p) ==
  /\ at[p] = "find" /\ ConnectionFree
  /\ Goto(p, "connect")
  /\ UNCHANGED <<attempt, outcome, rival, holder, shared, queue, free, waiting>>

\* The transaction of an escalated attempt takes its fence before anything else.
Connect(p) ==
  /\ at[p] = "connect" /\ ConnectionFree
  /\ Goto(p, IF Escalated(p) THEN "holder" ELSE "open")
  /\ UNCHANGED <<attempt, outcome, rival, holder, shared, queue, free, waiting>>

\* ExclusiveFenceHolder.acquire
OpenHolder(p) ==
  /\ at[p] = "holder" /\ ConnectionFree
  /\ Goto(p, "lock") /\ Request(p)
  /\ UNCHANGED <<attempt, outcome, rival, holder, shared, free, waiting>>

\* Mutated: writers in flight are not waited for.
HoldAtOnce(p) ==
  /\ at[p] = "lock" /\ IsNext(p)
  /\ Holding(BranchOf[p]) = {}
  /\ holder' = [holder EXCEPT ![p] = "held"] /\ Granted(p)
  /\ rival' = [rival EXCEPT ![p] = FALSE] /\ Goto(p, "work")
  /\ UNCHANGED <<attempt, outcome, shared, free, waiting>>

\* The lock is granted; the attempt's snapshot is taken after that.
Hold(p) ==
  /\ at[p] = "lock" /\ IsNext(p)
  /\ Holding(BranchOf[p]) = {} /\ Sharing(BranchOf[p]) = {}
  /\ holder' = [holder EXCEPT ![p] = "held"] /\ Granted(p)
  /\ rival' = [rival EXCEPT ![p] = FALSE] /\ Goto(p, "work")
  /\ UNCHANGED <<attempt, outcome, shared, free, waiting>>

\* enterSharedForRevision: the statement that requests the lock has taken the
\* snapshot already.
Enter(p) ==
  /\ at[p] = "open"
  /\ rival' = [rival EXCEPT ![p] = FALSE] /\ Request(p) /\ Goto(p, "enter")
  /\ UNCHANGED <<attempt, outcome, holder, shared, free, waiting>>

Admit(p) ==
  /\ at[p] = "enter" /\ IsNext(p)
  /\ Holding(BranchOf[p]) = {}
  /\ shared' = shared \cup {p} /\ Granted(p) /\ Goto(p, "work")
  /\ UNCHANGED <<attempt, outcome, rival, holder, free, waiting>>

\* The transaction ends, and with it what it shares; what holds the fence for
\* it outlasts it.
EndTransaction(p, result) ==
  /\ shared' = shared \ {p}
  /\ queue' = [queue EXCEPT ![BranchOf[p]] = RemoveFirst(@, p)]
  /\ outcome' = [outcome EXCEPT ![p] = result]
  /\ Goto(p, IF Escalated(p) THEN "release"
             ELSE IF result = "conflict" /\ attempt[p] < MaxAttempts - 1 THEN "backoff"
             ELSE "idle")
  /\ attempt' = IF ~Escalated(p) /\ result = "conflict" /\ attempt[p] < MaxAttempts - 1
                THEN [attempt EXCEPT ![p] = @ + 1] ELSE attempt
  /\ UNCHANGED <<holder, free, waiting>>

Commit(p) ==
  /\ at[p] = "work"
  /\ EndTransaction(p, "done")
  /\ rival' = [q \in Procs |->
       rival[q] \/ (q # p /\ BranchOf[q] = BranchOf[p] /\ at[q] \in {"enter", "work"})]

\* A serialization failure or a deadlock of two transactions.
Conflict(p) ==
  /\ at[p] = "work" /\ (rival[p] \/ Rivals(p) # {})
  /\ EndTransaction(p, "conflict")
  /\ UNCHANGED rival

\* Mutated: the fence of an attempt that failed is kept.
ReleaseFenceOfDone(p) ==
  /\ at[p] = "release"
  /\ holder' = IF outcome[p] = "done" THEN [holder EXCEPT ![p] = "none"] ELSE holder
  /\ Goto(p, "free")
  /\ UNCHANGED <<attempt, outcome, rival, shared, queue, free, waiting>>

\* ExclusiveFenceHolder.release
ReleaseFence(p) ==
  /\ at[p] = "release"
  /\ holder' = [holder EXCEPT ![p] = "none"] /\ Goto(p, "free")
  /\ UNCHANGED <<attempt, outcome, rival, shared, queue, free, waiting>>

\* EscalationSlots.release, to the first that waits if any does; the attempt is
\* over, and retryOnSerializationFailure goes on.
ReleaseSlot(p) ==
  LET again == outcome[p] = "conflict" /\ attempt[p] < MaxAttempts - 1
      ended == [at EXCEPT ![p] = IF again THEN "backoff" ELSE "idle"]
  IN  /\ at[p] = "free"
      /\ \/ /\ waiting # <<>>
            /\ at' = [ended EXCEPT ![Head(waiting)] = "find"]
            /\ waiting' = Tail(waiting) /\ UNCHANGED free
         \/ /\ waiting = <<>>
            /\ at' = ended /\ free' = free + 1 /\ UNCHANGED waiting
      /\ attempt' = IF again THEN [attempt EXCEPT ![p] = @ + 1] ELSE attempt
      /\ UNCHANGED <<outcome, rival, holder, shared, queue>>

-----------------------------------------------------------------------------
(* Limits and losses. *)

\* Mutated: who gives up waiting stays in line.
SlotExpiresInLine(p) ==
  /\ at[p] = "slot"
  /\ outcome' = [outcome EXCEPT ![p] = "refused"] /\ Goto(p, "idle")
  /\ UNCHANGED <<attempt, rival, holder, shared, queue, free, waiting>>

\* waitForSlot, its expiry
SlotExpires(p) ==
  /\ at[p] = "slot"
  /\ waiting' = RemoveFirst(waiting, p)
  /\ outcome' = [outcome EXCEPT ![p] = "refused"] /\ Goto(p, "idle")
  /\ UNCHANGED <<attempt, rival, holder, shared, queue, free>>

\* maxWait for a connection that nothing is held on yet
ConnectExpires(p) ==
  /\ at[p] \in {"find", "connect"}
  /\ outcome' = [outcome EXCEPT ![p] = "refused"]
  /\ Goto(p, IF Escalated(p) THEN "free" ELSE "idle")
  /\ UNCHANGED <<attempt, rival, holder, shared, queue, free, waiting>>

\* The holder's connection or lock, a writer's share, or the work itself takes
\* too long, or fails for another reason.
AttemptFails(p) ==
  /\ at[p] \in {"open", "holder", "lock", "enter", "work"}
  /\ EndTransaction(p, "refused")
  /\ UNCHANGED rival

\* The holder's connection ends, or its grace does, while the attempt runs on.
HolderLost(p) ==
  /\ at[p] = "work" /\ holder[p] = "held"
  /\ holder' = [holder EXCEPT ![p] = "lost"]
  /\ UNCHANGED <<at, attempt, outcome, rival, shared, queue, free, waiting>>

-----------------------------------------------------------------------------

Init ==
  /\ poolSize \in PoolSizes
  /\ at = [p \in Procs |-> "idle"] /\ attempt = [p \in Procs |-> 0]
  /\ outcome = [p \in Procs |-> "none"] /\ rival = [p \in Procs |-> FALSE]
  /\ holder = [p \in Procs |-> "none"] /\ shared = {}
  /\ queue = [b \in Branches |-> <<>>]
  /\ free = Slots /\ waiting = <<>>

Disturb(p) == SlotExpires(p) \/ ConnectExpires(p) \/ AttemptFails(p) \/ HolderLost(p)

Pooled(p) == FindBranch(p) \/ Connect(p) \/ OpenHolder(p)

Step(p) ==
  \/ NextAttempt(p) \/ Hold(p) \/ Enter(p) \/ Admit(p) \/ Commit(p) \/ ReleaseFence(p)
  \/ ReleaseSlot(p)

Next ==
  /\ UNCHANGED poolSize
  /\ \E p \in Procs : Begin(p) \/ Pooled(p) \/ Step(p) \/ Conflict(p) \/ Disturb(p)

Spec == Init /\ [][Next]_vars

\* What runs goes on; the pool serves those that wait for a connection in order.
FairSpec ==
  Spec /\ \A p \in Procs :
    /\ WF_vars(UNCHANGED poolSize /\ (Step(p) \/ Conflict(p)))
    /\ SF_vars(UNCHANGED poolSize /\ Pooled(p))

-----------------------------------------------------------------------------
(* Properties. *)

\* From its snapshot until it has committed or rolled back, an escalated attempt
\* meets nobody at work on its branch but attempts whose own fence was lost, and
\* only the commit of one of those makes it a victim again.
EscalatedRunsAlone ==
  [][\A p \in Procs : at[p] = "work" /\ Escalated(p) /\ holder[p] # "lost" =>
       /\ \A q \in Rivals(p) : Escalated(q) /\ holder[q] = "lost"
       /\ rival'[p] => rival[p] \/ \E q \in Rivals(p) : Commit(q)]_vars

\* No slot is lost or handed out twice, however waits expire, and nobody waits
\* for a slot that is free.
SlotsAreConserved ==
  /\ free + Cardinality({p \in Procs : HasSlot(p)}) = Slots
  /\ waiting # <<>> => free = 0

\* Nobody that is through with an attempt still keeps the fence or a connection
\* of it.
FenceIsReleased ==
  \A p \in Procs : at[p] \in {"idle", "backoff", "slot", "find", "connect"} =>
    holder[p] = "none" /\ p \notin shared /\ \A b \in Branches : p \notin ToSet(queue[b])

\* Once no wait reaches its limit and nothing is lost, every operation that
\* runs commits, against any number of writers that never cease: escalations
\* never wait for each other's connections for ever, and two lost attempts are
\* all that writers can make an operation lose.
Disturbed == \E p \in Procs : Disturb(p)
EveryOperationCommits ==
  <>[][~Disturbed]_vars =>
    \A o \in Operations : <>[](at[o] # "idle" => <>(outcome[o] = "done"))
=============================================================================

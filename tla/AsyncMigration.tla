--------------------------- MODULE AsyncMigration ---------------------------
(***************************************************************************)
(* The migration of a large table's rows to a new schema                   *)
(* (src/features/migration): batches are copied into a shadow table, which *)
(* then takes the table's place in the draft in one transaction.           *)
(*                                                                         *)
(* Any number of processes drive the one record that a draft's table can   *)
(* have; each statement or transaction of a driver is an action, and what  *)
(* it read earlier it remembers.  Time appears as what it makes of the     *)
(* record's timestamps: whether its lease has expired, and whether it is   *)
(* too late for progress.                                                  *)
(***************************************************************************)
EXTENDS Integers, FiniteSetsExt

CONSTANTS
  Workers,     \* drivers, in whatever process
  Tokens,      \* claim tokens; one that no other driver remembers is as good as new
  Versions,    \* versions of the table, the bound on those that exist at once
  Schemas,     \* schemas of the table
  Rows,        \* row ids, in the order of their collation
  Written,     \* the sets of rows that draft operations leave in the table
  BatchSize,   \* rows in a batch
  MaxRetries,  \* TableMigration.maxRetries
  None         \* no record, no owner, no version

\* A row id has a bounded length: there are not infinitely many.
ASSUME NumbersAssumption ==
  Rows \subseteq Nat \ {0} /\ BatchSize \in Nat \ {0} /\ MaxRetries \in Nat
  /\ Written \subseteq SUBSET Rows /\ Versions \subseteq Nat /\ Tokens \subseteq Nat
  /\ IsFiniteSet(Rows)

VARIABLES
  table,    \* Table and its rows, by version: how many copies of each row
  links,    \* the versions that the head and the draft revision link
  schema,   \* the draft's schema row of the table
  record,   \* TableMigration
  worker    \* where each driver is, and what it has read

vars == <<table, links, schema, record, worker>>

Active == {"PENDING", "COPYING", "SWAPPING"}
Contents == [Rows -> Nat]
TableRecord == [rows : Contents, schema : Schemas]

\* What a driver keeps of the record it read.
View == [source : Versions, shadow : Versions \cup {None}, from : Schemas, to : Schemas,
         total : Nat, copied : Nat, last : Rows \cup {0}]

MigrationRecord ==
  [status : Active \cup {"FAILED", "CANCELLED"}, lockedBy : Tokens \cup {None},
   retryCount : 0..MaxRetries, view : View,
   expired : BOOLEAN, late : BOOLEAN]

ASSUME NoneAssumption ==
  None \notin Nat \cup Schemas \cup Contents \cup TableRecord \cup View \cup MigrationRecord

Idle == [at |-> "idle", token |-> None, view |-> None, batch |-> {}]

\* Every column has its type; the retry budget is never exceeded.
TypeOK ==
  /\ table \in [Versions -> TableRecord \cup {None}]
  /\ links \in [head : Versions \cup {None}, draft : Versions \cup {None}]
  /\ schema \in Schemas
  /\ record \in MigrationRecord \cup {None}
  /\ worker \in [Workers ->
       [at : {"down", "idle", "takeover", "giveUp", "step", "init", "copy", "write", "beginSwap",
              "swap", "fail"},
        token : Tokens \cup {None}, view : View \cup {None}, batch : SUBSET Rows]]

-----------------------------------------------------------------------------

IsActive == record # None /\ record.status \in Active
HasStatus(s) == record # None /\ record.status = s
DraftExists == links.draft # None

Once(S) == [r \in Rows |-> IF r \in S THEN 1 ELSE 0]
RowsOf(v) == IF table[v] = None THEN {} ELSE {r \in Rows : table[v].rows[r] > 0}
Copies(v) == UNION {{r} \X (1..table[v].rows[r]) : r \in Rows}
CountRows(v) == IF table[v] = None THEN 0 ELSE Cardinality(Copies(v))

Linked == {links.head, links.draft}
\* A version that nothing refers to is as good as new, deleted or not.
FreshVersions ==
  {v \in Versions : v \notin Linked
     /\ (record # None => v \notin {record.view.source, record.view.shadow})
     /\ \A w \in Workers : worker[w].view # None =>
          v \notin {worker[w].view.source, worker[w].view.shadow}}
FreshTokens(w) == {t \in Tokens : \A u \in Workers \ {w} : worker[u].token # t}

\* The one of these names that is taken next.
First(S) == {x \in S : \A y \in S : x <= y}

Owns(w) == record # None /\ record.lockedBy = worker[w].token
Goto(w, at) == worker' = [worker EXCEPT ![w].at = at]
Released(r) == [r EXCEPT !.lockedBy = None, !.expired = FALSE]
Ended(s) == [Released(record) EXCEPT !.status = s, !.late = FALSE]

\* withoutLiveLease
Claimable == record.lockedBy = None \/ record.expired

\* deleteUnlinkedTable
WithoutUnlinked(v) ==
  [u \in Versions |-> IF u = v /\ u \notin Linked THEN None ELSE table[u]]

-----------------------------------------------------------------------------
(* What happens to the draft.  Writers and the start of a migration are     *)
(* admitted in serializable transactions that find no active record.        *)

\* A draft operation: it copies a version that the head has too.
DraftWrite(S, s) ==
  /\ DraftExists /\ ~IsActive
  /\ \E v \in IF links.draft = links.head THEN First(FreshVersions) ELSE {links.draft} :
       /\ links' = [links EXCEPT !.draft = v]
       /\ table' = [table EXCEPT ![v] = [rows |-> Once(S), schema |-> s]]
  /\ schema' = s
  /\ UNCHANGED <<record, worker>>

\* A record that ended stays with the committed revision, where only its
\* deletion is left.
Commit ==
  /\ DraftExists /\ ~IsActive
  /\ links' = [links EXCEPT !.head = links.draft]
  /\ record' = None
  /\ UNCHANGED <<table, schema, worker>>

\* Mutated: a swap is neither cancelled nor a reason to refuse.
RevertAnyway ==
  /\ DraftExists
  /\ record' = IF IsActive /\ ~HasStatus("SWAPPING") THEN None ELSE record
  /\ table' = IF IsActive /\ ~HasStatus("SWAPPING")
              THEN WithoutUnlinked(record.view.shadow) ELSE table
  /\ links' = [links EXCEPT !.draft = links.head]
  /\ schema' = table[links.head].schema
  /\ UNCHANGED worker

\* cancelBranchMigrations, then the head's versions in one transaction.
Revert ==
  /\ DraftExists /\ ~HasStatus("SWAPPING")
  /\ record' = IF IsActive THEN None ELSE record
  /\ table' = IF IsActive THEN WithoutUnlinked(record.view.shadow) ELSE table
  /\ links' = [links EXCEPT !.draft = links.head]
  /\ schema' = table[links.head].schema
  /\ UNCHANGED worker

\* The deletion of a branch does not look at migrations.
DeleteBranch ==
  /\ DraftExists
  /\ links' = [head |-> None, draft |-> None]
  /\ UNCHANGED <<table, schema, record, worker>>

\* The shadow tables of active records are kept.
DeleteOrphanTables ==
  LET kept == Linked \cup (IF IsActive THEN {record.view.shadow} ELSE {})
  IN  /\ \E v \in Versions \ kept : table[v] # None
      /\ table' = [v \in Versions |-> IF v \in kept THEN table[v] ELSE None]
      /\ UNCHANGED <<links, schema, record, worker>>

\* A failed or cancelled record of the table makes room.
Start(to) ==
  /\ DraftExists /\ ~IsActive /\ to # schema
  /\ record' = [status |-> "PENDING", lockedBy |-> None, retryCount |-> 0,
                view |-> [source |-> links.draft, shadow |-> None, from |-> schema, to |-> to,
                          total |-> CountRows(links.draft), copied |-> 0, last |-> 0],
                expired |-> FALSE, late |-> FALSE]
  /\ UNCHANGED <<table, links, schema, worker>>

\* Mutated: a record is aborted whatever it does.
AbortAlways ==
  /\ record # None
  /\ record' = None /\ table' = WithoutUnlinked(record.view.shadow)
  /\ UNCHANGED <<links, schema, worker>>

Abort ==
  /\ record # None /\ record.status \in {"PENDING", "COPYING", "FAILED"}
  /\ record' = None
  /\ table' = WithoutUnlinked(record.view.shadow)
  /\ UNCHANGED <<links, schema, worker>>

-----------------------------------------------------------------------------
(* Time, and the sweep's deadline. *)

RunsAs(w) == worker[w].at \notin {"down", "idle", "takeover", "giveUp"} /\ Owns(w)
OwnerRuns == \E w \in Workers : RunsAs(w)

\* The heartbeat of an owner that is gone is not renewed any more.
LeaseExpires ==
  /\ IsActive /\ record.lockedBy # None /\ ~OwnerRuns /\ ~record.expired
  /\ record' = [record EXCEPT !.expired = TRUE]
  /\ UNCHANGED <<table, links, schema, worker>>

\* A process is suspended for longer than its lease lasts.
Suspend(w) ==
  /\ IsActive /\ RunsAs(w) /\ ~record.expired
  /\ record' = [record EXCEPT !.expired = TRUE]
  /\ UNCHANGED <<table, links, schema, worker>>

\* withoutProgressWithin: the later of the last progress and the start of the
\* lease is too long ago; both a claim and progress begin anew.
Stall ==
  /\ IsActive /\ ~record.late
  /\ record' = [record EXCEPT !.late = TRUE]
  /\ UNCHANGED <<table, links, schema, worker>>

\* The owner's timer.
Renew(w) ==
  /\ RunsAs(w) /\ record.expired
  /\ record' = [record EXCEPT !.expired = FALSE]
  /\ UNCHANGED <<table, links, schema, worker>>

CancelStalled ==
  /\ HasStatus("PENDING") \/ HasStatus("COPYING")
  /\ record.late
  /\ record' = Ended("CANCELLED")
  /\ UNCHANGED <<table, links, schema, worker>>

Crash(w) ==
  /\ worker[w].at \notin {"idle", "down"}
  /\ worker' = [worker EXCEPT ![w] = [Idle EXCEPT !.at = "down"]]
  /\ UNCHANGED <<table, links, schema, record>>

Restart(w) ==
  /\ worker[w].at = "down"
  /\ worker' = [worker EXCEPT ![w] = Idle]
  /\ UNCHANGED <<table, links, schema, record>>

-----------------------------------------------------------------------------
(* Becoming the owner. *)

\* ownedBy a new lease
TakeLease(w, retries) ==
  \E t \in First(FreshTokens(w)) :
    /\ record' = [record EXCEPT !.lockedBy = t, !.expired = FALSE, !.late = FALSE,
                                !.retryCount = retries]
    /\ worker' = [worker EXCEPT ![w] = [Idle EXCEPT !.at = "step", !.token = t]]
    /\ UNCHANGED <<table, links, schema>>

Claim(w) ==
  /\ worker[w].at = "idle"
  /\ HasStatus("PENDING") \/ HasStatus("COPYING")
  /\ Claimable
  /\ TakeLease(w, record.retryCount)

\* Mutated: the budget is not looked at.
ReplaceSwapOwnerUnbounded(w, owner) ==
  IF owner THEN TakeLease(w, record.retryCount + 1)
  ELSE Goto(w, "giveUp") /\ UNCHANGED <<table, links, schema, record>>

\* replaceSwapOwner: an owner it cannot replace it may still have to fail.
ReplaceSwapOwner(w, owner) ==
  IF owner /\ record.retryCount < MaxRetries THEN TakeLease(w, record.retryCount + 1)
  ELSE Goto(w, "giveUp") /\ UNCHANGED <<table, links, schema, record>>

ClaimSwap(w) ==
  /\ worker[w].at = "idle" /\ HasStatus("SWAPPING")
  /\ ReplaceSwapOwner(w, Claimable)

FindStalledSwap(w) ==
  /\ worker[w].at = "idle" /\ HasStatus("SWAPPING")
  /\ record.lockedBy # None /\ record.late
  /\ worker' = [worker EXCEPT ![w] = [Idle EXCEPT !.at = "takeover", !.token = record.lockedBy]]
  /\ UNCHANGED <<table, links, schema, record>>

\* The owner observed to stall is replaced, not another that came after it.
TakeOver(w) ==
  /\ worker[w].at = "takeover"
  /\ ReplaceSwapOwner(w, HasStatus("SWAPPING") /\ Owns(w))

\* Mutated: the budget has to be exceeded.
FailStalledSwapOverBudget(w) ==
  LET owner == IF worker[w].token = None THEN Claimable ELSE Owns(w)
  IN  /\ worker[w].at = "giveUp"
      /\ record' = IF HasStatus("SWAPPING") /\ owner /\ record.retryCount > MaxRetries
                   THEN Ended("FAILED") ELSE record
      /\ worker' = [worker EXCEPT ![w] = Idle]
      /\ UNCHANGED <<table, links, schema>>

\* failStalledSwap, under the same conditions on the owner as the replacement.
FailStalledSwap(w) ==
  LET owner == IF worker[w].token = None THEN Claimable ELSE Owns(w)
  IN  /\ worker[w].at = "giveUp"
      /\ record' = IF HasStatus("SWAPPING") /\ owner /\ record.retryCount >= MaxRetries
                   THEN Ended("FAILED") ELSE record
      /\ worker' = [worker EXCEPT ![w] = Idle]
      /\ UNCHANGED <<table, links, schema>>

-----------------------------------------------------------------------------
(* The owner's steps.  A step that finds its guard unmet stops the driver, *)
(* which has nothing left to release: a lost token is never held again.    *)

Stop(w) == worker' = [worker EXCEPT ![w] = Idle]
Continue(w) == worker' = [worker EXCEPT ![w] = [Idle EXCEPT !.at = "step", !.token = worker[w].token]]
FailLater(w) == worker' = [worker EXCEPT ![w] = [Idle EXCEPT !.at = "fail", !.token = worker[w].token]]

\* findOwned, and the step for its status.
ReadOwned(w) ==
  LET v == record.view
      next == CASE record.status = "PENDING" -> "init"
                [] record.status = "COPYING" -> IF v.copied < v.total THEN "copy" ELSE "beginSwap"
                [] OTHER -> "swap"
  IN  /\ worker[w].at = "step"
      /\ IF Owns(w) THEN worker' = [worker EXCEPT ![w].at = next, ![w].view = v] ELSE Stop(w)
      /\ UNCHANGED <<table, links, schema, record>>

\* handleStepFailure: transitions.retry gives the lease back for another claim;
\* without a retry left it is transitions.fail.
RetryOrFail(w) ==
  \/ /\ IsActive /\ Owns(w) /\ record.retryCount < MaxRetries
     /\ record' = [Released(record) EXCEPT !.retryCount = @ + 1]
     /\ Stop(w)
  \/ /\ IsActive /\ Owns(w) /\ record.retryCount = MaxRetries
     /\ FailLater(w) /\ UNCHANGED record
  \/ /\ ~(IsActive /\ Owns(w))
     /\ Stop(w) /\ UNCHANGED record

\* beginCopy; a source that is gone is an error like any other.
BeginCopy(w) ==
  LET v == worker[w].view
  IN  /\ worker[w].at = "init"
      /\ \/ /\ ~(Owns(w) /\ HasStatus("PENDING"))
            /\ Stop(w) /\ UNCHANGED <<table, record>>
         \/ /\ Owns(w) /\ HasStatus("PENDING") /\ table[v.source] = None
            /\ RetryOrFail(w) /\ UNCHANGED table
         \/ /\ Owns(w) /\ HasStatus("PENDING") /\ table[v.source] # None
            /\ \E shadow \in First(FreshVersions) :
                 /\ record' = [record EXCEPT !.status = "COPYING", !.late = FALSE,
                                             !.view.shadow = shadow]
                 /\ table' = [table EXCEPT ![shadow] = [rows |-> Once({}), schema |-> v.to]]
            /\ Continue(w)
      /\ UNCHANGED <<links, schema>>

\* Mutated: the batch starts at the row where the last one ended.
BatchFrom(source, last) ==
  LET rest == {r \in RowsOf(source) : r >= last}
  IN  {r \in rest : Cardinality({x \in rest : x < r}) < BatchSize}

\* loadBatchRows
Batch(source, last) ==
  LET rest == {r \in RowsOf(source) : r > last}
  IN  {r \in rest : Cardinality({x \in rest : x < r}) < BatchSize}

\* copyNextBatch reads outside the transaction that writes.
LoadBatch(w) ==
  LET batch == Batch(worker[w].view.source, worker[w].view.last)
  IN  /\ worker[w].at = "copy"
      /\ IF batch = {} THEN RetryOrFail(w)
         ELSE /\ worker' = [worker EXCEPT ![w].at = "write", ![w].batch = batch]
              /\ UNCHANGED record
      /\ UNCHANGED <<table, links, schema>>

\* validateMigratedRows: a row the new schema or a foreign key refuses.
RefuseBatch(w) ==
  /\ worker[w].at = "write"
  /\ FailLater(w)
  /\ UNCHANGED <<table, links, schema, record>>

\* Mutated: the owner and the checkpoint are not compared.
CheckpointAtStatus(w) == HasStatus("COPYING")

\* advanceCheckpoint, its guard
CheckpointAt(w) ==
  /\ HasStatus("COPYING") /\ Owns(w)
  /\ record.view.copied = worker[w].view.copied /\ record.view.last = worker[w].view.last

\* writeBatch: the checkpoint, then the rows, in one transaction.
WriteBatch(w) ==
  LET v == worker[w].view
      batch == worker[w].batch
  IN  /\ worker[w].at = "write"
      /\ \/ /\ ~CheckpointAt(w)
            /\ Stop(w) /\ UNCHANGED <<table, record>>
         \/ /\ CheckpointAt(w) /\ table[v.shadow] # None
            /\ record' = [record EXCEPT !.view.copied = v.copied + Cardinality(batch),
                                        !.view.last = Max(batch), !.late = FALSE]
            /\ table' = [table EXCEPT ![v.shadow].rows = [r \in Rows |-> @[r] + Once(batch)[r]]]
            /\ Continue(w)
      /\ UNCHANGED <<links, schema>>

BeginSwap(w) ==
  /\ worker[w].at = "beginSwap"
  /\ IF Owns(w) /\ HasStatus("COPYING") /\ record.view.copied = record.view.total
     THEN record' = [record EXCEPT !.status = "SWAPPING", !.late = FALSE] /\ Continue(w)
     ELSE Stop(w) /\ UNCHANGED record
  /\ UNCHANGED <<table, links, schema>>

\* SwapRecheckService.recheck
Rechecked(v) ==
  /\ DraftExists
  /\ links.draft = v.source
  /\ schema = v.from
  /\ CountRows(v.shadow) = v.total

\* The swap's transaction: lockSwap, the checks, the relinking, the native
\* schema writer, and the record's deletion.
Swap(w) ==
  LET v == worker[w].view
      locked == Owns(w) /\ HasStatus("SWAPPING")
  IN  /\ worker[w].at = "swap"
      /\ IF locked /\ Rechecked(v)
         THEN /\ links' = [links EXCEPT !.draft = v.shadow]
              /\ schema' = v.to
              /\ record' = None
              /\ Stop(w)
         ELSE /\ IF locked THEN FailLater(w) ELSE Stop(w)
              /\ UNCHANGED <<links, schema, record>>
      /\ UNCHANGED table

\* A timeout, a lost connection, a fence that was not given in time.
StepThrows(w) ==
  /\ worker[w].at \in {"step", "init", "copy", "write", "beginSwap", "swap"}
  /\ RetryOrFail(w)
  /\ UNCHANGED <<table, links, schema>>

\* transitions.fail
Fail(w) ==
  /\ worker[w].at = "fail"
  /\ record' = IF IsActive /\ Owns(w) THEN Ended("FAILED") ELSE record
  /\ Stop(w)
  /\ UNCHANGED <<table, links, schema>>

\* The statement that counts a failure fails as well: the lease is released.
FailureThrows(w) ==
  /\ worker[w].at = "fail" /\ Owns(w)
  /\ record' = Released(record)
  /\ Stop(w)
  /\ UNCHANGED <<table, links, schema>>

-----------------------------------------------------------------------------

Init ==
  \E v \in First(Versions), S \in Written, s \in Schemas :
    /\ table = [u \in Versions |-> IF u = v THEN [rows |-> Once(S), schema |-> s] ELSE None]
    /\ links = [head |-> v, draft |-> v]
    /\ schema = s
    /\ record = None
    /\ worker = [w \in Workers |-> Idle]

Draft ==
  \/ \E S \in Written, s \in Schemas : DraftWrite(S, s)
  \/ \E s \in Schemas : Start(s)
  \/ Commit \/ Revert \/ Abort \/ DeleteBranch \/ DeleteOrphanTables

Time == LeaseExpires \/ Stall

Run(w) ==
  \/ TakeOver(w) \/ FailStalledSwap(w) \/ ReadOwned(w) \/ BeginCopy(w) \/ LoadBatch(w)
  \/ WriteBatch(w) \/ BeginSwap(w) \/ Swap(w) \/ Fail(w) \/ Restart(w)

\* What only a disturbed process or database does.
Disturb(w) == Crash(w) \/ Suspend(w) \/ FailureThrows(w)

Next ==
  \/ Draft \/ Time \/ CancelStalled
  \/ \E w \in Workers :
       \/ Claim(w) \/ ClaimSwap(w) \/ FindStalledSwap(w) \/ Renew(w) \/ Run(w)
       \/ RefuseBatch(w) \/ StepThrows(w) \/ Disturb(w)

Spec == Init /\ [][Next]_vars

\* A lease that nobody renews expires, a process that died is replaced, each
\* sweep claims what can be claimed, and a driver that runs goes on.  Neither
\* the sweep's deadline nor its takeovers are needed for an end.
FairSpec ==
  /\ Spec
  /\ WF_vars(LeaseExpires)
  /\ WF_vars(\E w \in Workers : Claim(w) \/ (ClaimSwap(w) /\ Claimable))
  /\ \A w \in Workers : WF_vars(Run(w))

-----------------------------------------------------------------------------
(* Properties. *)

\* The shadow of a migration that copies or swaps holds exactly the rows up to
\* its checkpoint, each once, whoever wrote them and however often they tried.
ShadowHoldsCheckpoint ==
  HasStatus("COPYING") \/ HasStatus("SWAPPING") =>
    /\ table[record.view.shadow] # None
    /\ CountRows(record.view.shadow) = record.view.copied
    /\ (record.view.source \in Linked =>
          table[record.view.shadow].rows =
            Once({r \in RowsOf(record.view.source) : r <= record.view.last}))

\* Everything the swap looks at again is still as it was when the migration
\* began, unless the branch is gone: nobody was admitted in between, and the
\* recheck never has to fail a migration of a draft that exists.
SwapFindsItsSource == HasStatus("SWAPPING") /\ DraftExists => Rechecked(record.view)

\* No abort, revert, cleanup or late driver deletes or writes what the head
\* links.
HeadNeverChanges ==
  [][links'.head # None => table'[links'.head] = table[links'.head]]_vars

\* What a reader of the draft finds; a schema row that is not the schema the
\* linked rows have would be no schema at all.
SeenRows == IF DraftExists THEN table[links.draft].rows ELSE None
SeenSchema ==
  IF ~DraftExists THEN None
  ELSE IF table[links.draft].schema = schema THEN schema ELSE <<schema>>
SeenPhase == IF record = None THEN "NONE" ELSE record.status

\* To readers and writers of the draft it is a change of the schema in one
\* step, with no write in between.
Seen ==
  INSTANCE SchemaChange WITH
    Contents <- {Once(S) : S \in Written},
    Gone <- None,
    rows <- SeenRows,
    schema <- SeenSchema,
    phase <- SeenPhase
ImplementsSchemaChange == Seen!Spec

\* Once processes no longer die or hang, and failures can be recorded, every
\* migration ends, whatever transient errors its steps meet.
Disturbed == \E w \in Workers : Disturb(w)
EveryMigrationEnds == <>[][~Disturbed]_vars => (IsActive ~> ~IsActive)
=============================================================================

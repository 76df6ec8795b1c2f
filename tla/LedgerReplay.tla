---------------------------- MODULE LedgerReplay ----------------------------
(***************************************************************************)
(* Replaying a ledger of schema migrations                                 *)
(* (src/src/features/share/ledger-replay).                                 *)
(*                                                                         *)
(* A ledger is a sequence of migrations in the order of their ids.  A      *)
(* migration names a table by its public id, so which table it means       *)
(* depends on the migrations before it: the replay follows slots, one for  *)
(* each table the ledger opens, from name to name.  A schema is abstracted *)
(* to its foreign-key field, as in module DraftContent.                    *)
(***************************************************************************)
EXTENDS Integers, Sequences

CONSTANT None  \* no table id, no foreign-key field

(* to is the table the schema refers to after an init or an update, and    *)
(* the next id of a rename.                                                *)
Migration(id, op, table, to) == [id |-> id, op |-> op, table |-> table, to |-> to]

PositionOf(ledger, id) == CHOOSE i \in DOMAIN ledger : ledger[i].id = id

(* The table id a migration takes.                                         *)
TakenBy(m) == CASE m.op = "init" -> {m.table}
                [] m.op = "rename" -> {m.to}
                [] OTHER -> {}

(***************************************************************************)
(* Following the tables.  A slot is known by the id of the migration that  *)
(* opened it (lineage), or by the id it started with.                      *)
(***************************************************************************)
NewSlot(lineage, start, name, broken) ==
    [lineage |-> lineage, start |-> start,
     name |-> name, names |-> {name} \ {None}, steps |-> {lineage} \ {None},
     broken |-> broken,
     schema |-> FALSE, ref |-> None, failed |-> FALSE]

Holding(slots, id) == {s \in slots : s.name = id}
LineageHolding(slots, id) ==
    IF Holding(slots, id) = {} THEN None
                               ELSE (CHOOSE s \in Holding(slots, id) : TRUE).lineage

(* A migration of an id that no slot holds opens a broken slot.            *)
WithStep(slots, m) ==
    IF m.op = "init" THEN slots \cup {NewSlot(m.id, None, None, FALSE)}
    ELSE IF Holding(slots, m.table) = {} THEN slots \cup {NewSlot(m.id, None, m.table, TRUE)}
    ELSE {IF s.name = m.table THEN [s EXCEPT !.steps = @ \cup {m.id}] ELSE s : s \in slots}

NameAfter(m, name) == IF m.op = "remove" THEN None
                      ELSE IF m.op = "update" THEN name
                      ELSE CHOOSE id \in TakenBy(m) : TRUE

(* Taking an id that another slot holds breaks both lineages.              *)
Follow(slots, m) ==
    LET reached == WithStep(slots, m)
        displaced == {s \in reached : s.name \in TakenBy(m)}
    IN {IF m.id \in s.steps
          THEN [s EXCEPT !.name = NameAfter(m, @), !.names = @ \cup TakenBy(m),
                         !.broken = @ \/ displaced # {}]
        ELSE IF s \in displaced THEN [s EXCEPT !.name = None, !.broken = TRUE]
        ELSE s : s \in reached}

SlotOf(slots, id) == CHOOSE s \in slots : id \in s.steps

Trace(slots, ledger) ==
    LET after[i \in 0..Len(ledger)] == IF i = 0 THEN slots ELSE Follow(after[i - 1], ledger[i])
    IN after[Len(ledger)]

(***************************************************************************)
(* Replaying the schemas.  A slot whose migration cannot be applied has    *)
(* failed for good, and so has one that depends on a failed slot.          *)
(***************************************************************************)
Referring(slots, id) == {s \in slots : s.name # None /\ s.schema /\ s.ref = id}

ReferencesAnother(m) == m.op \in {"init", "update"} /\ m.to \notin {None, m.table}
TargetIsMissing(after, m) == ReferencesAnother(m) /\ Holding(after, m.to) = {}

DependsOnFailed(after, m) == ReferencesAnother(m) /\ \E s \in Holding(after, m.to) : s.failed

CannotApply(before, after, m) ==
    LET own == SlotOf(after, m.id)
    IN \/ TargetIsMissing(after, m)
       \/ \E id \in TakenBy(m) : Holding(before, id) # {}
       \/ m.op # "init" /\ ~own.schema
       \/ m.op = "update" /\ (own.ref = None) = (m.to = None)
       \/ m.op = "remove" /\ Referring(after, m.table) # {}

(* A rename rewrites the schema of every referrer: the renamed table and   *)
(* the referrers depend on each other.                                     *)
WithRenamedForeignKeys(after, m) ==
    LET own == SlotOf(after, m.id)
        others == Referring(after, m.table) \ {own}
        rewritten(s) == [s EXCEPT !.ref = IF @ = m.table THEN m.to ELSE @]
    IN {IF s \in others THEN [rewritten(s) EXCEPT !.failed = @ \/ own.failed]
        ELSE IF s = own THEN [rewritten(s) EXCEPT !.failed = @ \/ \E o \in others : o.failed]
        ELSE s : s \in after}

AfterMigration(before, m) ==
    LET after == Follow(before, m)
        own == SlotOf(after, m.id)
        With(slot) == (after \ {own}) \cup {slot}
    IN IF CannotApply(before, after, m) THEN With([own EXCEPT !.failed = TRUE])
       ELSE CASE m.op \in {"init", "update"} ->
                   With([own EXCEPT !.schema = TRUE, !.ref = m.to,
                           !.failed = @ \/ DependsOnFailed(after, m)])
              [] m.op = "rename" -> WithRenamedForeignKeys(after, m)
              [] m.op = "remove" -> after

(* The slots before the first migration, and after each one.               *)
Timeline(ledger) ==
    LET states[i \in 0..Len(ledger)] ==
          LET before == states[i - 1]
          IN IF i = 0 THEN <<{}>>
             ELSE Append(before, AfterMigration(before[i], ledger[i]))
    IN states[Len(ledger)]
Replay(ledger) == Timeline(ledger)[Len(ledger) + 1]

(* The other table an applied migration reads, or fails to find.           *)
ReadBy(before, m) ==
    LET after == Follow(before, m)
    IN {id \in {m.to} : /\ ReferencesAnother(m)
                        /\ TargetIsMissing(after, m) \/ ~CannotApply(before, after, m)}

(* The last migration before a position that changed which table holds an  *)
(* id: the empty set when nothing held it yet.                             *)
LastChangeBefore(ledger, timeline, position, id) ==
    LET changes == {i \in 1..(position - 1) :
                      LineageHolding(timeline[i + 1], id) # LineageHolding(timeline[i], id)}
    IN {ledger[i] : i \in {j \in changes : \A k \in changes : k <= j}}
=============================================================================

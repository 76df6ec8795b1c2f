---------------------------- MODULE DraftContent ----------------------------
(***************************************************************************)
(* What the draft API writes, at the level of content: the tables of a     *)
(* branch, the one foreign-key field their schemas may have, and the rows  *)
(* with the references they store.  The handlers of                        *)
(* src/src/features/draft admit an edit, rewrite what refers to a renamed  *)
(* table or row, and keep every reference of the draft resolvable; the     *)
(* versions behind the content are the subject of module Versioning.       *)
(*                                                                         *)
(* A schema is abstracted to its foreign-key field: ref is the public id   *)
(* of the table the field refers to, or None when the schema has no such   *)
(* field.  A row has one value of its own and, when the schema has the     *)
(* field, the public id of a row, or Blank: the default '' a row is given  *)
(* when the field is added under it.                                       *)
(***************************************************************************)
EXTENDS Integers, FiniteSets

CONSTANTS
    Tables,       \* identities of tables (createdId)
    TableIds,     \* public ids of tables
    Rows,         \* identities of rows (createdId)
    RowIds,       \* public ids of rows
    Values,       \* values of a row's own field
    None,         \* absent table, row or field
    Blank,        \* the default of a foreign-key field
    InitialContent,
    MaxEdits      \* bound on the native edits of a behaviour

VARIABLES
    head,         \* content of the head revision
    draft,        \* content of the draft revision
    recorded,     \* per table: what the draft recorded about its schema since the head
    edits         \* native edits so far

contentVars == <<head, draft, recorded, edits>>

TableRecord == [id : TableIds, ref : TableIds \cup {None}]
RowRecord ==
    [table : Tables, id : RowIds, val : Values, ref : RowIds \cup {Blank, None}]

Content ==
    [tables : [Tables -> TableRecord \cup {None}],
     rows : [Rows -> RowRecord \cup {None}]]

(* "structure": a migration or a patch of the schema's history is pending; *)
(* "reference": a pending update patched the foreign-key field itself.     *)
Recording == {"structure", "reference"}

ASSUME ContentAssumption ==
    /\ None \notin Tables \cup TableIds \cup RowIds \cup {Blank}
    /\ None \notin TableRecord \cup RowRecord
    /\ Blank \notin RowIds
    /\ InitialContent \in Content
    /\ MaxEdits \in Nat

TablesOf(c) == {t \in Tables : c.tables[t] # None}
RowsOf(c, t) == {r \in Rows : c.rows[r] # None /\ c.rows[r].table = t}
TableNamed(c, id) == {t \in TablesOf(c) : c.tables[t].id = id}

(* The tables whose schema refers to a public id, and the rows of them     *)
(* that store one of some row ids.                                         *)
Referrers(c, id) == {t \in TablesOf(c) : c.tables[t].ref = id}
ReferringRows(c, id, rowIds) ==
    {r \in Rows : /\ c.rows[r] # None
                  /\ c.rows[r].table \in Referrers(c, id)
                  /\ c.rows[r].ref \in rowIds}

(* validate-data: the row a reference names exists in the table the schema *)
(* names; '' is looked up like any other value.                            *)
Admits(c, t, ref) ==
    IF c.tables[t].ref = None
      THEN ref = None
      ELSE \E u \in TableNamed(c, c.tables[t].ref), r \in Rows :
             r \in RowsOf(c, u) /\ c.rows[r].id = ref

(***************************************************************************)
(* One edit: the new content of the draft, and the tables of the head      *)
(* whose schema history it extends.                                        *)
(***************************************************************************)
Edit(content, changed, what) ==
    /\ edits < MaxEdits
    /\ edits' = edits + 1
    /\ draft' = content
    /\ recorded' = [t \in Tables |->
         IF content.tables[t] = None THEN {}
         ELSE IF t \in changed /\ t \in TablesOf(head)
           THEN recorded[t] \cup what
           ELSE recorded[t]]
    /\ UNCHANGED head

(* validate-schema: a foreign key names a table of the draft, or its own.  *)
IsKnown(id, ref) == ref \in {None, id} \/ TableNamed(draft, ref) # {}

CreateTable(t, id, ref) ==
    /\ t \notin TablesOf(draft) \cup TablesOf(head)
    /\ TableNamed(draft, id) = {}
    /\ IsKnown(id, ref)
    /\ Edit([draft EXCEPT !.tables[t] = [id |-> id, ref |-> ref]], {}, {})

WithLinkedSchemas(tables, referrers, id) ==
    [u \in Tables |-> IF u \in referrers THEN [tables[u] EXCEPT !.ref = id] ELSE tables[u]]

(* Renaming also rewrites the schema of every table that refers to the     *)
(* old id; those rewrites leave a patch in the schema's history and no     *)
(* migration, and do not touch a row.                                      *)
RenameTable(t, id) ==
    /\ t \in TablesOf(draft)
    /\ TableNamed(draft, id) = {}
    /\ LET renamed == [draft.tables EXCEPT ![t].id = id]
           referrers == Referrers(draft, draft.tables[t].id)
       IN Edit([draft EXCEPT !.tables = WithLinkedSchemas(renamed, referrers, id)],
               {t} \cup referrers, {"structure"})

WithoutRows(rows) == [r \in Rows |-> IF r \in rows THEN None ELSE draft.rows[r]]

RemoveTable(t) ==
    /\ t \in TablesOf(draft)
    /\ Referrers(draft, draft.tables[t].id) \subseteq {t}
    /\ Edit([tables |-> [draft.tables EXCEPT ![t] = None],
             rows |-> WithoutRows(RowsOf(draft, t))],
            {}, {})

MigratedRows(t, ref) ==
    [r \in Rows |->
       IF r \in RowsOf(draft, t)
         THEN [draft.rows[r] EXCEPT !.ref = IF ref = None THEN None ELSE Blank]
         ELSE draft.rows[r]]

(* A schema update that adds the foreign-key field or removes it, with the *)
(* rows it migrates: their references are not looked up.                   *)
UpdateTable(t, ref) ==
    /\ t \in TablesOf(draft)
    /\ (draft.tables[t].ref = None) # (ref = None)
    /\ IsKnown(draft.tables[t].id, ref)
    /\ Edit([tables |-> [draft.tables EXCEPT ![t].ref = ref],
             rows |-> MigratedRows(t, ref)],
            {t}, Recording)

CreateRow(r, t, id, val, ref) ==
    /\ draft.rows[r] = None /\ head.rows[r] = None
    /\ t \in TablesOf(draft)
    /\ \A o \in RowsOf(draft, t) : draft.rows[o].id # id
    /\ Admits(draft, t, ref)
    /\ Edit([draft EXCEPT !.rows[r] =
               [table |-> t, id |-> id, val |-> val, ref |-> ref]], {}, {})

(* update-rows and patch-rows: the whole row is validated again, also the  *)
(* reference a patch leaves alone.                                         *)
UpdateRow(r, val, ref) ==
    /\ draft.rows[r] # None
    /\ Admits(draft, draft.rows[r].table, ref)
    /\ <<val, ref>> # <<draft.rows[r].val, draft.rows[r].ref>>
    /\ Edit([draft EXCEPT !.rows[r] = [@ EXCEPT !.val = val, !.ref = ref]], {}, {})

(* Renaming also rewrites the rows that refer to the old id.               *)
WithForeignKeys(rows, referring, id) ==
    [o \in Rows |-> IF o \in referring THEN [rows[o] EXCEPT !.ref = id] ELSE rows[o]]

RenameRow(r, id) ==
    /\ draft.rows[r] # None
    /\ LET t == draft.rows[r].table
           renamed == [draft.rows EXCEPT ![r].id = id]
           referring == ReferringRows(draft, draft.tables[t].id, {draft.rows[r].id})
       IN /\ \A o \in RowsOf(draft, t) : draft.rows[o].id # id
          /\ Edit([draft EXCEPT !.rows = WithForeignKeys(renamed, referring, id)], {}, {})

(* Rows removed together may refer to each other only inside their table.  *)
RemoveRows(t, rows) ==
    /\ t \in TablesOf(draft)
    /\ rows # {} /\ rows \subseteq RowsOf(draft, t)
    /\ LET ids == {draft.rows[r].id : r \in rows}
       IN ReferringRows(draft, draft.tables[t].id, ids) \subseteq rows
    /\ Edit([draft EXCEPT !.rows = WithoutRows(rows)], {}, {})

HasChanges == draft # head \/ \E t \in Tables : recorded[t] # {}

CreateRevision ==
    /\ HasChanges
    /\ head' = draft
    /\ recorded' = [t \in Tables |-> {}]
    /\ UNCHANGED <<draft, edits>>

RevertChanges ==
    /\ HasChanges
    /\ draft' = head
    /\ recorded' = [t \in Tables |-> {}]
    /\ UNCHANGED <<head, edits>>

ContentInit ==
    /\ head = InitialContent
    /\ draft = InitialContent
    /\ recorded = [t \in Tables |-> {}]
    /\ edits = 0

EditDraft ==
    \/ \E t \in Tables, id \in TableIds :
         \/ RenameTable(t, id)
         \/ \E ref \in TableIds \cup {None} : CreateTable(t, id, ref)
    \/ \E t \in Tables : RemoveTable(t)
    \/ \E t \in Tables, ref \in TableIds \cup {None} : UpdateTable(t, ref)
    \/ \E r \in Rows, val \in Values, ref \in RowIds \cup {None} :
         \/ UpdateRow(r, val, ref)
         \/ \E t \in Tables, id \in RowIds : CreateRow(r, t, id, val, ref)
    \/ \E r \in Rows, id \in RowIds : RenameRow(r, id)
    \/ \E t \in Tables, rows \in SUBSET Rows : RemoveRows(t, rows)

(* A row has a reference exactly when the schema of its table has the field. *)
Conforms(c) ==
    \A t \in TablesOf(c) : \A r \in RowsOf(c, t) :
      (c.rows[r].ref = None) <=> (c.tables[t].ref = None)

(* Every row conforms to the schema of its table, whichever sides the two  *)
(* were taken from.                                                        *)
TypeOK ==
    /\ head \in Content /\ Conforms(head)
    /\ draft \in Content /\ Conforms(draft)
    /\ recorded \in [Tables -> SUBSET Recording]
    /\ edits \in 0..MaxEdits

(* A revision holds together when public ids name one table, and one row   *)
(* of a table; every schema refers to a table of the revision; and every   *)
(* stored reference other than a default resolves in the table its schema  *)
(* names.                                                                  *)
HoldsTogether(c) ==
    /\ \A t \in TablesOf(c) :
         /\ TableNamed(c, c.tables[t].id) = {t}
         /\ c.tables[t].ref # None => TableNamed(c, c.tables[t].ref) # {}
    /\ \A r \in {q \in Rows : c.rows[q] # None} :
         /\ c.rows[r].table \in TablesOf(c)
         /\ \A o \in RowsOf(c, c.rows[r].table) \ {r} : c.rows[o].id # c.rows[r].id
         /\ c.rows[r].ref = Blank \/ Admits(c, c.rows[r].table, c.rows[r].ref)

(* A branch starts with a revision that does.                              *)
ASSUME InitialAssumption == Conforms(InitialContent) /\ HoldsTogether(InitialContent)
=============================================================================

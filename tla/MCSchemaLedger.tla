------------------------- MODULE MCSchemaLedger -------------------------
(* A table a, and a table b that refers to it, both published.             *)
EXTENDS SchemaLedger
CONSTANTS t1, t2, a, b

MCInitialContent ==
    [tables |-> (t1 :> [id |-> a, ref |-> None]) @@ (t2 :> [id |-> b, ref |-> a])
                  @@ [t \in Tables |-> None],
     rows |-> [r \in Rows |-> None]]

MCInitialLedger == {Migration(1, "init", a, None), Migration(2, "init", b, a)}

(* No action reads which units the last step applied.                      *)
View == <<contentVars, headLedger, draftLedger>>
=============================================================================

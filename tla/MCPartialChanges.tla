------------------------- MODULE MCPartialChanges -------------------------
(* A table a with one row, which the row of table b refers to.             *)
EXTENDS PartialChanges
CONSTANTS t1, t2, r1, r2, a, b, x, y, v

MCInitialContent ==
    [tables |-> (t1 :> [id |-> a, ref |-> None]) @@ (t2 :> [id |-> b, ref |-> a])
                  @@ [t \in Tables |-> None],
     rows |-> (r1 :> [table |-> t1, id |-> x, val |-> v, ref |-> None])
                @@ (r2 :> [table |-> t2, id |-> y, val |-> v, ref |-> x])
                @@ [r \in Rows |-> None]]

(* No action reads which units the last step applied.                      *)
View == contentVars
=============================================================================

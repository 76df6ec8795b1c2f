---------------------------- MODULE SchemaChange ----------------------------
(***************************************************************************)
(* What a draft's readers and writers are promised about a change of a     *)
(* table's schema, however its rows are migrated: rows and schema are      *)
(* those of before until they are those of after, in one step; nobody      *)
(* writes in between; a change that has begun its swap is not cancelled.   *)
(***************************************************************************)
CONSTANTS
  Contents,  \* what a table's rows can be
  Schemas,   \* schemas of the table
  Gone       \* the draft no longer exists

VARIABLES
  rows,      \* the rows a reader of the draft finds
  schema,    \* the schema a reader of the draft finds them under
  phase      \* how far the change is

Active == {"PENDING", "COPYING", "SWAPPING"}
Ended == {"NONE", "FAILED", "CANCELLED"}
seen == <<rows, schema>>

Init == rows \in Contents /\ schema \in Schemas /\ phase = "NONE"

Write ==
  /\ phase \in Ended /\ rows # Gone
  /\ rows' \in Contents /\ schema' \in Schemas
  /\ phase' \in {phase, "NONE"}

Start == phase \in Ended /\ rows # Gone /\ phase' = "PENDING" /\ UNCHANGED seen

Advance ==
  /\ \/ phase = "PENDING" /\ phase' = "COPYING"
     \/ phase = "COPYING" /\ phase' = "SWAPPING"
  /\ UNCHANGED seen

\* The table's rows are the same rows under the new schema.
Complete ==
  /\ phase = "SWAPPING" /\ phase' = "NONE" /\ rows # Gone
  /\ schema' \in Schemas \ {schema} /\ UNCHANGED rows

Fail == phase \in Active /\ phase' = "FAILED" /\ UNCHANGED seen

Cancel == phase \in {"PENDING", "COPYING"} /\ phase' = "CANCELLED" /\ UNCHANGED seen

Abort == phase \in {"PENDING", "COPYING", "FAILED"} /\ phase' = "NONE" /\ UNCHANGED seen

\* A revert cancels what has not begun its swap.
Revert ==
  /\ phase # "SWAPPING" /\ rows # Gone
  /\ rows' \in Contents /\ schema' \in Schemas
  /\ phase' = IF phase \in Ended THEN phase ELSE "NONE"

DeleteBranch == rows' = Gone /\ schema' = Gone /\ UNCHANGED phase

Next ==
  Write \/ Start \/ Advance \/ Complete \/ Fail \/ Cancel \/ Abort \/ Revert \/ DeleteBranch

Spec == Init /\ [][Next]_<<rows, schema, phase>>
=============================================================================

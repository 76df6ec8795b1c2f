------------------------ MODULE MCTargetVersioning ------------------------
(* Small instances of TargetVersioning for TLC. *)
EXTENDS TargetVersioning, Naturals, FiniteSets, TLC

CONSTANTS a, b, x, y, d1, d2

\* Each table name is its own folded form.
PlainNames == [n \in TableIds |-> n]

\* Names and contents are only compared.
Symmetry == Permutations({a, b}) \cup Permutations({x, y}) \cup Permutations({d1, d2})

\* No action and no invariant reads what was applied.
Database == vars

\* The bound on partial operations: out of states that hold nothing for the
\* cleanup, which no partial operation reads, and one logical table or one row.
IsSmall ==
  /\ Live(table) = UNION Range(tablesOf) /\ Live(row) = UNION Range(rowsOf)
  /\ \/ Cardinality({table[t].createdId : t \in Live(table)}) <= 1
     \/ Cardinality({row[v].createdId : v \in Live(row)}) <= 1

DraftsNext ==
  \/ Next /\ applied' = None
  \/ IsSmall /\ \E br \in Branches, h, r \in RevisionIds : ApplyChanges(br, h, r)

DraftsSpec == TargetInit /\ [][DraftsNext]_targetVars
=============================================================================

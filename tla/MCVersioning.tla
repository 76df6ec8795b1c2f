--------------------------- MODULE MCVersioning ---------------------------
(* Small instances of Versioning for TLC. *)
EXTENDS Versioning, Naturals, FiniteSets, TLC

CONSTANTS a, b, c, x, y, d1, d2, fork, topic

\* Each table name is its own folded form.
PlainNames == [n \in TableIds |-> n]

\* The table names a and b are one name in two cases, c is another.
CaseVariants == [n \in {a, b, c} |-> IF n = b THEN a ELSE n]

\* Names and contents are only compared.
Symmetry == Permutations({a, b}) \cup Permutations({x, y}) \cup Permutations({d1, d2})

\* Branches other than the root, too.
BranchSymmetry == Permutations({a, b}) \cup Permutations({fork, topic})

\* The bound on the name c: only where there are no rows, and four revisions at most.
OtherNameIsEarly ==
  (\E t \in Live(table') : table'[t].id = c) =>
    Live(row') = {} /\ Cardinality(Live(revision')) <= 4
=============================================================================

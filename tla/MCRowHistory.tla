-------------------------- MODULE MCRowHistory --------------------------
(* Small instances of RowHistory for TLC. *)
EXTENDS RowHistory, TLC

CONSTANTS x, y, d1, d2, main, fork, topic

\* Names, contents and forks are only compared.
Symmetry ==
  Permutations({x, y}) \cup Permutations({d1, d2}) \cup Permutations({fork, topic})
=============================================================================

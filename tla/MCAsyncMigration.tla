-------------------------- MODULE MCAsyncMigration --------------------------
(* Small instances of AsyncMigration. *)
EXTENDS AsyncMigration, TLC

CONSTANTS w1, w2, a, b

TwoTokens == {1, 2}
ThreeVersions == 0..2
OneRow == {1}
TwoRows == {1, 2}
SomeOrAll == {{1}, {1, 2}}
JustOne == {{1}}
Symmetry == Permutations(Workers) \cup Permutations(Schemas)
=============================================================================

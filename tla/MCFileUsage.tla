--------------------------- MODULE MCFileUsage ---------------------------
(* Small instances of FileUsage for TLC. *)
EXTENDS FileUsage, TLC

CONSTANTS p1, p2, h, g, s1, s2

\* Contents of different sizes, so that a mix-up shows in the counter.
UnequalSizes == [c \in Hashes |-> IF c = h THEN 1 ELSE 2]

\* Two projects that are never swept, or one that is.
FilesInit == Init /\ IF NeverSwept THEN deleted = {} ELSE deleted = {p2}
FilesSpec == FilesInit /\ [][Next]_vars

\* Sweeps differ only in what they stamp.
Symmetry == Permutations(Sweepers)
=============================================================================

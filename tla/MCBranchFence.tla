--------------------------- MODULE MCBranchFence ---------------------------
(* Small instances of BranchFence. *)
EXTENDS BranchFence, TLC

CONSTANTS o1, o2, w1, b

OneBranch == [p \in Procs |-> b]
=============================================================================

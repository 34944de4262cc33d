--------------------------- MODULE MCInstanceLock ---------------------------
(* Three processes: one leaves a lock behind, two start over it.            *)
EXTENDS InstanceLock, TLC
CONSTANTS p1, p2, p3
MCProc == {p1, p2, p3}
ProcSymmetry == Permutations(MCProc)
=============================================================================

--------------------------- MODULE MCLockManager ---------------------------
(* The lock manager on small sets of transactions and resources.           *)
EXTENDS LockManager, TLC

AllModes == LockModes
SharedExclusive == {"SHARED", "EXCLUSIVE"}
HierarchyModes == LockModes \ {"EXCLUSIVE"}
OnLinux == {"blocks"}
OnWindows == {"throws"}

Symmetry == Permutations(Tx) \cup Permutations(Resource)
=============================================================================

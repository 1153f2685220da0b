------------------------ MODULE MCTransactionManager ------------------------
(* The transaction manager on a few clients, transactions and savepoints.  *)
EXTENDS TransactionManager, TLC

OnLinux == {"blocks"}
OnWindows == {"throws"}
OnBoth == {"blocks", "throws"}

Symmetry == Permutations(Client) \cup Permutations(SpNames)
=============================================================================

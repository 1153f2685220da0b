---------------------------- MODULE MCThreadPool ----------------------------
EXTENDS ThreadPool, TLC

\* Workers and clients are interchangeable (used without temporal properties).
Symmetry == Permutations(Worker) \cup Permutations(Client)
=============================================================================

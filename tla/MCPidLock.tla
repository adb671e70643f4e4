----------------------------- MODULE MCPidLock -----------------------------
EXTENDS PidRace, TLC

\* Processes are not told apart.
Symmetry == Permutations(Procs)
=============================================================================

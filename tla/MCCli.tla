------------------------------- MODULE MCCli -------------------------------
EXTENDS Cli, TLC

\* Processes are not told apart.
Symmetry == Permutations(Procs)
=============================================================================

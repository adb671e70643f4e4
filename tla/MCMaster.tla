------------------------------ MODULE MCMaster ------------------------------
EXTENDS Master, TLC

\* Process ids are interchangeable when none is recycled.
Symmetry == Permutations(Pids)
=============================================================================

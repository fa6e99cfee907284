------------------------------ MODULE MCReads ------------------------------
EXTENDS Reads, TLC

CONSTANTS p1, p2

\* The second is dated ahead, the others are backdated.
MCEffective == [n \in Txns |-> IF n = 2 THEN MaxClock ELSE 0]

Symmetry == Permutations(Procs)
=============================================================================

------------------------------ MODULE MCShmOpen ------------------------------
EXTENDS ShmOpen, TLC

\* Every process a ring, every process a DirectShm, or one of them a WriteShm
\* and the others ReadShm: the set is symmetric in the processes.
MCPrograms ==
    {[p \in Procs |-> "ShmRing"], [p \in Procs |-> "DirectShm"]} \cup
    {[p \in Procs |-> IF p = w THEN "WriteShm" ELSE "ReadShm"] : w \in Procs}

Symmetry == Permutations(Procs) \cup Permutations(Words)
=============================================================================

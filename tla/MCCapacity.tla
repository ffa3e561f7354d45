------------------------------ MODULE MCCapacity -------------------------------
EXTENDS Capacity, TLC

CONSTANTS c1, c2, ch1, ch2, l1, l2, p1, p2

MCCaller == {c1, c2}
MCChild == {ch1, ch2}
MCPartition == {l1, l2}
MCPool == {p1, p2}

\* Callers, children, partitions and pools are each interchangeable.
Symmetric == Permutations(MCCaller) \union Permutations(MCChild)
               \union Permutations(MCPartition) \union Permutations(MCPool)
================================================================================

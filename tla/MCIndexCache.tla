------------------------------ MODULE MCIndexCache ------------------------------
EXTENDS IndexCache, TLC

Symmetry == Permutations(Writer) \union Permutations(Id)
================================================================================

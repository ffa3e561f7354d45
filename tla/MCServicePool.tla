----------------------------- MODULE MCServicePool -----------------------------
EXTENDS ServicePool, TLC

CONSTANTS p1, p2, e1, a1, a2

MCProcess == {p1, p2}
MCEffect == {e1}
MCAttempt == {a1, a2}

\* Processes and attempts are each interchangeable.
Symmetric == Permutations(MCProcess) \union Permutations(MCAttempt)
================================================================================

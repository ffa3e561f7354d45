------------------------------- MODULE MCAdoption -------------------------------
EXTENDS Adoption, TLC

CONSTANTS c1, c2, c3, q1, q2, p1, p2, n1, n2, n3

MCCaller == {c1, c2, c3}
MCProcess == {q1, q2}
\* Two threads share a process, a third caller has one of its own.
MCHome == (c1 :> q1) @@ (c2 :> q1) @@ (c3 :> q2)
MCPlan == {p1, p2}
MCNonce == {n1, n2, n3}
\* Two approvals of one plan, one of another.
MCApproves == (n1 :> p1) @@ (n2 :> p1) @@ (n3 :> p2)
MCResources == (p1 :> 1) @@ (p2 :> 1)
\* The second plan's read_bytes do not reach to the last scan.
MCReadBytes == (p1 :> 3) @@ (p2 :> 2)

Symmetric == Permutations({c1, c2}) \union Permutations({n1, n2})
================================================================================

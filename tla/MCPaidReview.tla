------------------------------ MODULE MCPaidReview ------------------------------
EXTENDS PaidReview, TLC

CONSTANTS c1, q1, p1, n1, v1, v2, r1, r2, r3

MCHome == c1 :> q1
MCApproves == n1 :> p1
MCResources == p1 :> 1
MCReadBytes == p1 :> 3
\* The first request suffices for every file of the reading; the bytes of the second
\* end within the selection.  The third selects an altered copy of the plan and reads as
\* far as the frozen records that tell.
MCCalls == (r1 :> 9) @@ (r2 :> 3) @@ (r3 :> 5)
MCBytes == (r1 :> 9) @@ (r2 :> 2) @@ (r3 :> 5)
MCExpected == (r1 :> "candidate") @@ (r2 :> "base") @@ (r3 :> "candidate")
MCAltered == {r3}

Symmetric == Permutations({v1, v2})
================================================================================

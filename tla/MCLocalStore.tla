------------------------------ MODULE MCLocalStore ------------------------------
(***************************************************************************)
(* Receipts: x allows and names an authorization, y blocks, z allows and   *)
(* names none.  The bytes big are over the bound of a read.                *)
(***************************************************************************)
EXTENDS LocalStore, TLC

CONSTANTS i1, x, y, z, big

Rec(i, receipt, body, authorization) ==
  [id |-> i, receipt |-> receipt, body |-> body, authorization |-> authorization]

\* Records that collide under one id in every way the code tells apart: another
\* receipt, another body, another authorization; the authorization of the receipt not
\* handed in, or one handed in that the receipt does not name or may not have; and one
\* that no read accepts.
OneIdRecords ==
  {Rec(i1, x, x, x), Rec(i1, x, y, x), Rec(i1, x, x, y), Rec(i1, x, x, None),
   Rec(i1, y, y, None), Rec(i1, y, y, x), Rec(i1, y, big, None), Rec(i1, z, x, x)}

\* Records as a gated run hands them in: the authorization of an ALLOW and of nothing
\* else, the very one its receipt names.  One has a body over the bound.
ConsistentRecords == {Rec(i1, x, x, x), Rec(i1, y, big, None)}
================================================================================

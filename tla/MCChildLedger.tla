----------------------------- MODULE MCChildLedger ------------------------------
(***************************************************************************)
(* Two children that fit into the budget one by one and together only once *)
(* one of them has given something back; measurements below, at and above  *)
(* what was reserved, and one with an axis left open.                      *)
(***************************************************************************)
EXTENDS ChildLedger, TLC

CONSTANTS cpu, wall

MCLimit == cpu :> 3 @@ wall :> 3
MCRequest == {cpu :> 2 @@ wall :> 1, cpu :> 1 @@ wall :> 2}
MCMeasurement == {cpu :> 1 @@ wall :> 1, cpu :> 3 @@ wall :> Unknown}
================================================================================

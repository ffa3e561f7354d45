------------------------------- MODULE MCGatedRun -------------------------------
(***************************************************************************)
(* One command line, with and without custody, allowed under one of three  *)
(* pieces of evidence only, so that objects of two calls put together are  *)
(* not allowed; one custody intent for both calls.  Two instants, and an   *)
(* authorization that expires at the second if it was issued at the first. *)
(* The call with an unusable environment is a run of either command; the   *)
(* other is a run of the held command, or a direct call of                 *)
(* execute_authorized_command with objects that may not belong together.   *)
(***************************************************************************)
EXTENDS GatedRun, TLC

CONSTANTS a1, e1, e2, e3, h1

MCEvidence == {e1, e2, e3}
MCDecide == a1 :> ((e1 :> "ALLOW") @@ (e2 :> "HOLD") @@ (e3 :> "ERROR"))
MCIntent == {h1}
plain == [argv |-> a1, custody |-> None]
held  == [argv |-> a1, custody |-> h1]
MCGiven == [r \in Run |-> IF r \in BadEnvironment THEN {plain, held} ELSE {held}]
Mixed ==
  LET Of(c, e, o, h) == [candidate |-> c, evidence |-> e, outcome |-> o, handoff |-> h]
  IN  {Of(plain, e1, "ALLOW", None), Of(held, e1, "ALLOW", h1),   \* in order for its own kind
       Of(plain, e1, "ALLOW", h1), Of(held, e1, "ALLOW", None),   \* a handoff too many, or missing
       Of(plain, e2, "ALLOW", None), Of(plain, e1, "HOLD", None)} \* other evidence, other decision
MCPresented == [r \in Run |-> IF r \in BadEnvironment THEN {} ELSE Mixed]
MCArgvOf == h1 :> a1
================================================================================

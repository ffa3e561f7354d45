----------------------------- MODULE MCConsumption -----------------------------
(***************************************************************************)
(* One nonce and two authorizations that share it, so that a repeat and a  *)
(* conflicting reuse both happen; three callers over two staging slots.    *)
(***************************************************************************)
EXTENDS Consumption, TLC

CONSTANTS a1, a2, n1

MCAuthorization == {a1, a2}
MCNonce == {n1}
MCNonceOf == (a1 :> n1) @@ (a2 :> n1)
================================================================================

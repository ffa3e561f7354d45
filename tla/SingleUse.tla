------------------------------- MODULE SingleUse -------------------------------
(***************************************************************************)
(* What LocalStore.consume_once promises its caller, with no file in       *)
(* sight: a nonce is spent by at most one attempt, once and for all; a     *)
(* refusal tells a repeat of the same authorization from another one that  *)
(* reuses its nonce; and an attempt that dies may or may not have spent it.*)
(***************************************************************************)
CONSTANTS
  Attempt,        \* calls of consume_once, a retry being a new attempt
  Nonce,
  Authorization,
  nonceOf,        \* the nonce each authorization carries
  None            \* no attempt, no authorization

VARIABLES
  request,        \* the authorization each attempt presents
  spentBy,        \* the attempt that spent each nonce
  reply           \* what each attempt was told

vars == <<request, spentBy, reply>>

Failures == {"commit_conflict", "path_invalid", "os_error", "interrupted", "crashed"}

Init ==
  /\ request = [c \in Attempt |-> None]
  /\ spentBy = [n \in Nonce |-> None]
  /\ reply   = [c \in Attempt |-> "pending"]

\* An attempt in flight on nonce n.
Pending(c, n) ==
  /\ reply[c] = "pending"
  /\ request[c] # None
  /\ nonceOf[request[c]] = n

Ask(c) ==
  /\ reply[c] = "pending"
  /\ request[c] = None
  /\ \E a \in Authorization : request' = [request EXCEPT ![c] = a]
  /\ UNCHANGED <<spentBy, reply>>

\* The one step that spends: the nonce must still be unspent.
Spend(c) ==
  \E n \in Nonce :
    /\ Pending(c, n)
    /\ spentBy[n] = None
    /\ spentBy' = [spentBy EXCEPT ![n] = c]
    /\ UNCHANGED <<request, reply>>

\* The answer an attempt may be given in the current state.
Honest(c, n, answer) ==
  \/ answer = "consumed" /\ spentBy[n] = c
  \/ /\ answer = "nonce_reused"
     /\ spentBy[n] \notin {None, c}
     /\ request[spentBy[n]] = request[c]
  \/ /\ answer = "consumption_conflict"
     /\ spentBy[n] \notin {None, c}
     /\ request[spentBy[n]] # request[c]
  \/ answer \in Failures

Answer(c) ==
  \E n \in Nonce, answer \in {"consumed", "nonce_reused", "consumption_conflict"}
                             \union Failures :
    /\ Pending(c, n)
    /\ Honest(c, n, answer)
    /\ reply' = [reply EXCEPT ![c] = answer]
    /\ UNCHANGED <<request, spentBy>>

Next == \E c \in Attempt : Ask(c) \/ Spend(c) \/ Answer(c)

Spec == Init /\ [][Next]_vars
================================================================================

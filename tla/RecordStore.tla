------------------------------- MODULE RecordStore -------------------------------
(***************************************************************************)
(* What LocalStore.put_record promises its caller: an id gets one content, *)
(* once and for all and all at a time; a call answered with success finds  *)
(* there every artifact it handed in, in a content that can be loaded; a   *)
(* call that fails or dies may or may not have stored what it handed in.   *)
(***************************************************************************)
CONSTANTS
  Writer,      \* calls, a retry being a new one
  Record,      \* what a caller may ask to store
  Id,
  Name,        \* names of artifacts
  idOf,        \* the id of a record
  artifactsOf, \* the artifacts handed in with it, None where there is none
  Whole,       \* the contents that can be loaded
  Failures,    \* answers other than success
  None

VARIABLES
  request,     \* the record of each call
  kept,        \* the content under each id
  reply        \* what each call was told

vars == <<request, kept, reply>>

Init ==
  /\ request = [w \in Writer |-> None]
  /\ kept = [i \in Id |-> None]
  /\ reply = [w \in Writer |-> "pending"]

Pending(w) == request[w] # None /\ reply[w] = "pending"

Ask(w) ==
  /\ request[w] = None
  /\ \E r \in Record : request' = [request EXCEPT ![w] = r]
  /\ reply' \in {reply} \union {[reply EXCEPT ![w] = f] : f \in Failures}
  /\ UNCHANGED kept

\* The one step that stores: the id must still be free.
Keep(w) ==
  /\ Pending(w)
  /\ kept[idOf[request[w]]] = None
  /\ kept' = [kept EXCEPT ![idOf[request[w]]] = artifactsOf[request[w]]]
  /\ UNCHANGED <<request, reply>>

\* Every artifact the call handed in is what is kept, and the whole can be loaded.
Succeeds(w) ==
  LET found == kept[idOf[request[w]]]
      handed == artifactsOf[request[w]]
  IN  /\ found # None
      /\ found \in Whole
      /\ \A n \in Name : handed[n] # None => found[n] = handed[n]

Answer(w) ==
  /\ Pending(w)
  /\ \/ Succeeds(w) /\ reply' = [reply EXCEPT ![w] = "stored"]
     \/ \E f \in Failures : reply' = [reply EXCEPT ![w] = f]
  /\ UNCHANGED <<request, kept>>

Next == \E w \in Writer : Ask(w) \/ Keep(w) \/ Answer(w)

Spec == Init /\ [][Next]_vars
================================================================================

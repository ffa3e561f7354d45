------------------------------- MODULE ChildBudget ------------------------------
(***************************************************************************)
(* What a child ledger promises, with no file and no lock in sight: a      *)
(* budget kept by running totals.  A child is paid for before it may be    *)
(* dispatched, somebody is told to dispatch it at most once, an overrun is *)
(* charged when it is reported, and only a settlement gives anything back. *)
(***************************************************************************)
EXTENDS Integers

CONSTANTS
  Child,
  Axis,           \* the resources that are accounted for
  Limit,          \* the budget on each axis
  Request,        \* what may be asked for
  Measurement,    \* what may be reported
  Unknown         \* an axis nothing is reported on

VARIABLES
  phase,          \* how far each child has come
  hold,           \* what each child counts for on each axis
  exposure,       \* the running total on each axis
  going           \* how often the dispatch of each child was confirmed

vars == <<phase, hold, exposure, going>>

Init ==
  /\ phase = [ch \in Child |-> "free"]
  /\ hold = [ch \in Child |-> [a \in Axis |-> 0]]
  /\ exposure = [a \in Axis |-> 0]
  /\ going = [ch \in Child |-> 0]

\* Child ch moves on and counts for h from now on.
Advance(ch, from, to, h) ==
  /\ phase[ch] = from
  /\ phase' = [phase EXCEPT ![ch] = to]
  /\ hold' = [hold EXCEPT ![ch] = h]
  /\ exposure' = [a \in Axis |-> exposure[a] + h[a] - hold[ch][a]]
  /\ UNCHANGED going

Reserve(ch) ==
  \E r \in Request :
    /\ \A a \in Axis : exposure[a] + r[a] <= Limit[a]
    /\ Advance(ch, "free", "held", r)

Dispatch(ch) == Advance(ch, "held", "dispatched", hold[ch])

\* An axis without a measurement keeps what was held, an overrun is added.
Charged(held, m) == [a \in Axis |-> IF m[a] = Unknown \/ m[a] < held[a] THEN held[a] ELSE m[a]]

Complete(ch) ==
  \E m \in Measurement : Advance(ch, "dispatched", "completed", Charged(hold[ch], m))

\* The reported cost replaces the hold, on every axis it is known for, or nothing is given back.
Settle(ch) ==
  \/ Advance(ch, "completed", "settled", hold[ch])
  \/ \E m \in Measurement :
       /\ \A a \in Axis : m[a] = Unknown \/ m[a] <= hold[ch][a]
       /\ Advance(ch, "completed", "settled",
                  [a \in Axis |-> IF m[a] = Unknown THEN hold[ch][a] ELSE m[a]])

Confirm(ch) ==
  /\ phase[ch] \notin {"free", "held"}
  /\ going[ch] = 0
  /\ going' = [going EXCEPT ![ch] = 1]
  /\ UNCHANGED <<phase, hold, exposure>>

Next == \E ch \in Child : Reserve(ch) \/ Dispatch(ch) \/ Complete(ch) \/ Settle(ch) \/ Confirm(ch)

Spec == Init /\ [][Next]_vars
================================================================================

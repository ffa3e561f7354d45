--------------------------------- MODULE Capacity -------------------------------
(***************************************************************************)
(* A child dispatched out of a common pool: common_capacity.CapacityOwner  *)
(* and child_observer.dispatch_development over one or more child ledgers. *)
(*                                                                         *)
(* A dispatch moves two journals in step, the pool's and the ledger's, and *)
(* stops between any two of its calls leave them apart for ever: nothing   *)
(* is retried and nothing is given back.  Both journals are the locked     *)
(* journal ChildLedger models one system call at a time; here a change of  *)
(* one is a single step with the outcomes that module has: published and   *)
(* the caller told, published and the caller gone, or interrupted, which   *)
(* stops the journal for good.                                             *)
(*                                                                         *)
(* All ledgers here are partitions of one parent operation, so one child   *)
(* id in two of them is the same child.  A refusal ends the call and       *)
(* changes nothing but what the call had already written: Stop.            *)
(***************************************************************************)
EXTENDS Functions, FiniteSets, Naturals

CONSTANTS
  Caller, Child,
  Partition,      \* ledger roots
  Pool,           \* capacity owners
  Hold,           \* OUTPUT_HOLD
  Slots, Bytes,   \* capacities of each pool
  MaxCalls,       \* bound on the dispatches asked for
  Legacy,         \* no common_owner given
  None, Torn

Entry == [partition : Partition, dispatch : BOOLEAN,
          settlement : {None, "KNOWN", "UNKNOWN"}, retained : 0..Hold]
ASSUME CapacityAssumption ==
  /\ IsFiniteSet(Child)
  /\ {Hold, Slots, Bytes, MaxCalls} \subseteq Nat
  /\ Legacy \notin Pool
  /\ {None, Torn} \intersect (Pool \union Partition \union Child \union Entry \union {"KNOWN", "UNKNOWN"}) = {}
  /\ None # Torn

VARIABLES
  marker,       \* common-owner.json of each partition
  pool,         \* state.json of each pool
  ledger,       \* where each child stands in each partition's state.json
  jammed,       \* the journals with a pending.json
  intact,       \* whether the protected artifacts are as selected
  pc, job,
  out,          \* what the child each caller launched has shown
  calls,        \* how many were asked for
  launches      \* ghost: the processes started, by partition, child and owner

journals == <<marker, pool, ledger, jammed>>
vars == <<journals, intact, pc, job, out, calls, launches>>

Job == [partition : Partition, child : Child, owner : Pool \union {Legacy}]
Out == [performed : BOOLEAN, captured : 0..Hold]
Steps == {"reserve_common", "mark", "reserve", "bind", "record", "launch", "observe",
          "complete", "settle", "acquire", "settle_common"}
Stage == {"free", "held", "dispatched", "completed", "settled"}

TypeOK ==
  /\ marker \in [Partition -> Pool \union {None, Torn}]
  /\ pool \in [Pool -> [entries : [Child -> Entry \union {None}], revision : Nat]]
  /\ ledger \in [Partition -> [Child -> [stage : Stage, out : Out \union {None}]]]
  /\ jammed \subseteq Pool \union Partition
  /\ intact \in BOOLEAN
  /\ pc \in [Caller -> Steps \union {"idle"}]
  /\ job \in [Caller -> Job \union {None}]
  /\ out \in [Caller -> Out \union {None}]
  /\ calls \in 0..MaxCalls
  /\ launches \in [Job -> Nat]

\* CapacityOwner.create and Ledger.create.
Init ==
  /\ marker = [l \in Partition |-> None]
  /\ pool = [p \in Pool |-> [entries |-> [ch \in Child |-> None], revision |-> 0]]
  /\ ledger = [l \in Partition |-> [ch \in Child |-> [stage |-> "free", out |-> None]]]
  /\ jammed = {}
  /\ intact = TRUE
  /\ pc = [c \in Caller |-> "idle"]
  /\ job = [c \in Caller |-> None]
  /\ out = [c \in Caller |-> None]
  /\ calls = 0
  /\ launches = [j \in Job |-> 0]

Goto(c, step) ==
  /\ pc' = [pc EXCEPT ![c] = step]
  /\ job' = [job EXCEPT ![c] = IF step = "idle" THEN None ELSE @]
  /\ out' = [out EXCEPT ![c] = IF step = "idle" THEN None ELSE @]

\* The protected artifacts inspect_request compares are replaced.
Replaced ==
  /\ intact /\ intact' = FALSE
  /\ UNCHANGED <<journals, pc, job, out, calls, launches>>

--------------------------------------------------------------------------------
(* CapacityOwner                                                                *)

Held(body) == {ch \in Child : body.entries[ch] # None}
usage(body) ==
  [dispatch_slots |-> Cardinality(Held(body)),
   retained_output_bytes |-> SumFunction([ch \in Held(body) |-> body.entries[ch].retained])]

Events(e) == 1 + (IF e.dispatch THEN 1 ELSE 0) + (IF e.settlement # None THEN 1 ELSE 0)

\* One entry per child; unsettled and unknown ones hold everything; revisions are
\* counted; and the capacities.
_validate_record(body) ==
  /\ \A ch \in Held(body) :
       LET e == body.entries[ch] IN
       /\ e.settlement \in {None, "UNKNOWN"} => e.retained = Hold
       /\ e.settlement # None => e.dispatch
  /\ body.revision = SumFunction([ch \in Held(body) |-> Events(body.entries[ch])])
  /\ usage(body).dispatch_slots <= Slots
  /\ usage(body).retained_output_bytes <= Bytes

verify_capacity_snapshot(body, minimum) == _validate_record(body) /\ body.revision >= minimum

\* A caller between its look for a marker and the marker has the lock of its pool, and
\* of no other pool.
Locked(c, p) == \A d \in Caller \ {c} : ~(pc[d] = "mark" /\ job[d].owner = p)

\* _change: what is read must validate, or the call is refused.
_change(c, p, e, next) ==
  LET ch == job[c].child IN
  /\ Locked(c, p)
  /\ p \notin jammed
  /\ _validate_record(pool[p])
  /\ \/ /\ pool' = [pool EXCEPT ![p] = [entries |-> [@.entries EXCEPT ![ch] = e],
                                         revision |-> @.revision + 1]]
        /\ Goto(c, next) \/ Goto(c, "idle")
        /\ UNCHANGED jammed
     \/ /\ jammed' = jammed \union {p}
        /\ Goto(c, "idle")
        /\ UNCHANGED pool

\* The child is new to the pool and its slot and hold fit.
Admissible(p, c) ==
  /\ pool[p].entries[job[c].child] = None
  /\ usage(pool[p]).dispatch_slots + 1 <= Slots
  /\ usage(pool[p]).retained_output_bytes + Hold <= Bytes

\* The partition is bound to this pool already, or now by a marker that is created
\* only where there is none, whatever an earlier look found.
OwnsAsSeen(c) ==
  pc[c] = "mark" \/ marker[job[c].partition] = job[c].owner
Owns(c) ==
  marker[job[c].partition] = IF pc[c] = "mark" THEN None ELSE job[c].owner

pool_look(c) ==
  LET p == job[c].owner IN
  /\ pc[c] = "reserve_common"
  /\ Locked(c, p) /\ p \notin jammed
  /\ marker[job[c].partition] = None
  /\ Goto(c, "mark")
  /\ UNCHANGED <<journals, intact, calls, launches>>

\* The binding comes first and stays when the reservation is refused or interrupted.
pool_reserve(c) ==
  LET l == job[c].partition
      p == job[c].owner IN
  /\ pc[c] \in {"reserve_common", "mark"}
  /\ Locked(c, p) /\ p \notin jammed
  /\ Owns(c)
  /\ \/ /\ marker' = [marker EXCEPT ![l] = p]
        /\ \/ /\ Admissible(p, c)
              /\ _change(c, p, [partition |-> l, dispatch |-> FALSE,
                                settlement |-> None, retained |-> Hold], "reserve")
           \/ /\ ~Admissible(p, c)
              /\ Goto(c, "idle")
              /\ UNCHANGED <<pool, jammed>>
     \/ /\ pc[c] = "mark"
        /\ marker' = [marker EXCEPT ![l] = Torn]
        /\ Goto(c, "idle")
        /\ UNCHANGED <<pool, jammed>>
  /\ UNCHANGED <<ledger, intact, calls, launches>>

\* _entry: the ticket is the entry's.
bind_dispatch(c) ==
  LET p == job[c].owner
      e == pool[p].entries[job[c].child] IN
  /\ pc[c] = "bind"
  /\ e.partition = job[c].partition /\ ~e.dispatch
  /\ _change(c, p, [e EXCEPT !.dispatch = TRUE], "record")
  /\ UNCHANGED <<marker, ledger, intact, calls, launches>>

\* Only the bytes of a child known to have performed replace its hold.
SettledRegardless(e, o) == [e EXCEPT !.settlement = "KNOWN", !.retained = o.captured]
Settled(e, o) ==
  [e EXCEPT !.settlement = IF o.performed THEN "KNOWN" ELSE "UNKNOWN",
            !.retained = IF o.performed THEN o.captured ELSE Hold]

pool_settle(c) ==
  LET p == job[c].owner
      e == pool[p].entries[job[c].child] IN
  /\ pc[c] = "settle_common"
  /\ e.partition = job[c].partition /\ e.dispatch /\ e.settlement = None
  /\ _change(c, p, Settled(e, out[c]), "idle")
  /\ UNCHANGED <<marker, ledger, intact, calls, launches>>

--------------------------------------------------------------------------------
(* dispatch_development                                                         *)

\* A partition that belongs to a pool takes no dispatch that bypasses it.
Call(c) ==
  \E j \in Job :
    /\ pc[c] = "idle"
    /\ calls < MaxCalls
    /\ calls' = calls + 1
    /\ j.owner = Legacy => marker[j.partition] = None
    /\ intact
    /\ pc' = [pc EXCEPT ![c] = IF j.owner = Legacy THEN "reserve" ELSE "reserve_common"]
    /\ job' = [job EXCEPT ![c] = j]
    /\ UNCHANGED <<journals, intact, out, launches>>

\* One operation of the partition's ledger on the caller's child.
LedgerChange(c, from, to, o, next) ==
  LET l == job[c].partition
      ch == job[c].child IN
  /\ l \notin jammed
  /\ ledger[l][ch].stage = from
  /\ \/ /\ ledger' = [ledger EXCEPT ![l][ch] = [stage |-> to, out |-> o]]
        /\ Goto(c, next) \/ Goto(c, "idle")
        /\ UNCHANGED jammed
     \/ /\ jammed' = jammed \union {l}
        /\ Goto(c, "idle")
        /\ UNCHANGED ledger
  /\ UNCHANGED <<marker, pool, intact, calls, launches>>

\* The reservation, and the binding file of the reservation.
ReserveAgain(c) ==
  \E from \in Stage :
    /\ pc[c] = "reserve"
    /\ LedgerChange(c, from, "held", None, IF job[c].owner = Legacy THEN "record" ELSE "bind")
ledger_reserve(c) ==
  /\ pc[c] = "reserve"
  /\ LedgerChange(c, "free", "held", None, IF job[c].owner = Legacy THEN "record" ELSE "bind")

dispatch_record(c) ==
  /\ pc[c] = "record"
  /\ LedgerChange(c, "held", "dispatched", None, "launch")

\* The artifacts are inspected once more before the launch.
Launch(c) ==
  /\ pc[c] = "launch"
  /\ intact
  /\ Goto(c, "observe")
  /\ launches' = [launches EXCEPT ![job[c]] = @ + 1]
  /\ UNCHANGED <<journals, intact, calls>>

\* Performed: exited with 0, in time, uncut, measured, with the verifier's answer.
Observe(c) ==
  \E o \in Out :
    /\ pc[c] = "observe"
    /\ pc' = [pc EXCEPT ![c] = "complete"]
    /\ out' = [out EXCEPT ![c] = o]
    /\ UNCHANGED <<journals, intact, job, calls, launches>>

complete(c) ==
  /\ pc[c] = "complete"
  /\ LedgerChange(c, "dispatched", "completed", out[c], "settle")

settle(c) ==
  /\ pc[c] = "settle"
  /\ LedgerChange(c, "completed", "settled", out[c], "acquire")

\* The acquisition record, and the ledger's snapshot.
Acquire(c) ==
  /\ pc[c] = "acquire"
  /\ job[c].partition \notin jammed
  /\ Goto(c, IF job[c].owner = Legacy THEN "idle" ELSE "settle_common")
  /\ UNCHANGED <<journals, intact, calls, launches>>

\* A call that is refused, fails or dies between two of its steps.
Stop(c) ==
  /\ pc[c] # "idle"
  /\ Goto(c, "idle")
  /\ UNCHANGED <<journals, intact, calls, launches>>

Dispatch(c) ==
  \/ Call(c) \/ pool_look(c) \/ pool_reserve(c) \/ ledger_reserve(c) \/ bind_dispatch(c) \/ dispatch_record(c)
  \/ Launch(c) \/ Observe(c) \/ complete(c) \/ settle(c) \/ Acquire(c) \/ pool_settle(c) \/ Stop(c)

Next == Replaced \/ \E c \in Caller : Dispatch(c)

Spec == Init /\ [][Next]_vars

--------------------------------------------------------------------------------
(* Properties                                                                   *)

\* A child is started at most once from a partition and at most once from a pool,
\* also when it is asked for through another partition of the same parent.
OneLaunch ==
  \A j, k \in {i \in Job : launches[i] > 0} :
    /\ j.child = k.child
    /\ j.partition = k.partition \/ (j.owner = k.owner /\ j.owner # Legacy)
    => j = k /\ launches[j] = 1

\* Wherever dispatches stopped, a pool verifies when it is next read, within its
\* capacities, and the two journals do not contradict each other: a process started
\* from a pool is bound in the pool and recorded in the ledger, and a pool lets go of
\* a hold only for a child its partition has settled as performed, keeping what that
\* child retained.
JournalsAgree ==
  /\ \A p \in Pool : verify_capacity_snapshot(pool[p], 0)
  /\ \A p \in Pool, ch \in Child :
       LET e == pool[p].entries[ch] IN
       /\ \A l \in Partition : launches[[partition |-> l, child |-> ch, owner |-> p]] > 0 =>
            /\ e # None /\ e.partition = l /\ e.dispatch
            /\ ledger[l][ch].stage \in {"dispatched", "completed", "settled"}
       /\ (e # None /\ e.retained < Hold) =>
            /\ ledger[e.partition][ch].stage = "settled"
            /\ ledger[e.partition][ch].out = [performed |-> TRUE, captured |-> e.retained]

\* A partition belongs to one pool: what any pool holds for a child of it, the pool
\* its marker names does, although two pools, each under its own lock, may look for the
\* marker before either writes it, and it is written before a reservation that may be
\* refused, torn or interrupted.
OneOwner ==
  \A p \in Pool, ch \in Child :
    pool[p].entries[ch] # None => marker[pool[p].entries[ch].partition] = p

\* ``Common-pool partition requires common dispatch; legacy path refused.''
LegacyPathRefused ==
  [][\A c \in Caller :
       pc[c] = "launch" /\ pc'[c] = "observe" /\ job[c].owner = Legacy
         => marker[job[c].partition] = None]_vars
================================================================================

-------------------------------- MODULE Adoption --------------------------------
(***************************************************************************)
(* service_adoption: an approved, tested candidate replaces the files of   *)
(* an isolated managed copy, one at a time.  Four stores record it and     *)
(* none can be changed together with another: the accounting root, where   *)
(* an adoption epoch follows the service epoch and holds one entry per     *)
(* plan; the nonce store of LocalStore; the operation root with PLAN,      *)
(* INTENT and COMPLETE; and the copy itself.  Callers are threads: those   *)
(* of one process share its pool object and its live capabilities, and a   *)
(* crash takes all of them.                                                *)
(*                                                                         *)
(* A change of the accounting root is one step with the outcomes           *)
(* ChildLedger has: published and told, published and failing, or          *)
(* interrupted, which leaves pending.json and stops the root.  A scan of   *)
(* the copy is one step; the copy may be edited by hand between steps.     *)
(* service_adoption_v1 is the same code, except that it accepts no         *)
(* LifecycleAdoptionPool.                                                  *)
(***************************************************************************)
EXTENDS FiniteSetsExt, Naturals

CONSTANTS
  Caller, Process,
  home,           \* the process of each caller
  Plan,           \* plans, each with an operation root of its own
  Nonce,          \* approvals
  approves,       \* the plan each approval names
  Files,          \* the number of changed_paths of a plan
  Resources,      \* what each plan reserves
  ReadBytes,      \* a plan's read_bytes, in units of one read of the sources
  Slots,          \* dispatch_slots the service epoch left over
  Retained,       \* retained_output_bytes it left over
  Capacity,       \* resource_capacities of the adoption policy
  MaxEdits,       \* bound on edits of the copies by hand
  None

Entry == [intent : Nonce \union {None}, completed : BOOLEAN]
ASSUME AdoptionAssumption ==
  /\ home \in [Caller -> Process]
  /\ approves \in [Nonce -> Plan]
  /\ Files \in Nat \ {0}
  /\ IsFiniteSet(Plan) /\ Resources \in [Plan -> Nat \ {0}] /\ ReadBytes \in [Plan -> Nat]
  /\ {Slots, Retained, Capacity, MaxEdits} \subseteq Nat
  /\ None \notin Caller \union Process \union Plan \union Nonce \union Entry

VARIABLES
  pool,       \* state.json: its epoch and the entries of the adoption epoch
  jammed,     \* pending.json exists
  lock,       \* the caller of adopt_selected that holds the allocator's lock
  opened,     \* the processes with an AdoptionPool object
  live,       \* _live of each process
  tickets,    \* the plans whose reservation was returned to somebody
  root,       \* the operation root of each plan
  flock,      \* who holds its LOCK
  spent,      \* nonces consumed
  pc, plan, nonce, cli,
  edits

accounting == <<pool, jammed, lock, opened, live, tickets>>
call == <<plan, nonce, cli>>
vars == <<accounting, root, flock, spent, pc, call, edits>>

Index == 1..Files
Written == {"absent", "partial", "whole"}
Steps == {"attach", "reserve", "adopt", "approved", "locked", "consumed", "validated", "authorized",
          "replacing", "verified", "completed", "failed", "returned"}
OperationRoot ==
  [stage : {"absent", "provisioned", "partial", "planned"},
   copy : [Index -> {"base", "candidate", "edited"}],
   replaced : 0..Files,    \* how many files of stage/ were moved into the copy
   intent : Written, authorization : Nonce \union {None}, complete : Written]

TypeOK ==
  /\ pool \in [epoch : {"service", "adoption", "review"}, entries : [Plan -> Entry \union {None}]]
  /\ jammed \in BOOLEAN
  /\ lock \in Caller \union {None}
  /\ opened \subseteq Process
  /\ live \in [Process -> SUBSET Plan]
  /\ tickets \subseteq Plan
  /\ root \in [Plan -> OperationRoot]
  /\ flock \in [Plan -> Caller \union {None}]
  /\ spent \subseteq Nonce
  /\ pc \in [Caller -> Steps \union {"idle"}]
  /\ plan \in [Caller -> Plan \union {None}]
  /\ nonce \in [Caller -> Nonce \union {None}]
  /\ cli \in [Caller -> BOOLEAN]
  /\ edits \in 0..MaxEdits

Init ==
  /\ pool = [epoch |-> "service", entries |-> [p \in Plan |-> None]]
  /\ jammed = FALSE
  /\ lock = None
  /\ opened = {}
  /\ live = [q \in Process |-> {}]
  /\ tickets = {}
  /\ root = [p \in Plan |-> [stage |-> "absent", copy |-> [i \in Index |-> "base"], replaced |-> 0,
                             intent |-> "absent", authorization |-> None, complete |-> "absent"]]
  /\ flock = [p \in Plan |-> None]
  /\ spent = {}
  /\ pc = [c \in Caller |-> "idle"]
  /\ plan = [c \in Caller |-> None]
  /\ nonce = [c \in Caller |-> None]
  /\ cli = [c \in Caller |-> FALSE]
  /\ edits = 0

--------------------------------------------------------------------------------
(* The operation root                                                           *)

Goto(c, step) == pc' = [pc EXCEPT ![c] = step]

All(content) == [i \in Index |-> content]
_scan(p) == root[p].copy

\* provision_managed_copy: FIXTURE.json last, so that no call accepts half a root.
provision_managed_copy(p) ==
  /\ root[p].stage = "absent"
  /\ root' = [root EXCEPT ![p].stage = "provisioned"]
  /\ UNCHANGED <<accounting, flock, spent, pc, call, edits>>

\* prepare_adoption: PLAN.json last; the directories that exist after a failure
\* refuse a second preparation.
prepare_adoption(p) ==
  /\ root[p].stage = "provisioned" /\ flock[p] = None
  /\ _scan(p) = All("base")
  /\ \E s \in {"partial", "planned"} : root' = [root EXCEPT ![p].stage = s]
  /\ UNCHANGED <<accounting, flock, spent, pc, call, edits>>

\* Somebody changes a file of the copy.
Edit(p, i) ==
  /\ root[p].stage # "absent" /\ edits < MaxEdits
  /\ root' = [root EXCEPT ![p].copy[i] = "edited"]
  /\ edits' = edits + 1
  /\ UNCHANGED <<accounting, flock, spent, pc, call>>

\* _locked: nobody waits for an operation root.
_locked(p) == root[p].stage # "absent" /\ flock[p] = None

\* reconcile, which takes the lock shared and changes nothing.
content_state(p) ==
  CASE _scan(p) = All("base") -> "BASE"
    [] _scan(p) = All("candidate") -> "CANDIDATE"
    [] \E i \in Index : _scan(p)[i] = "edited" -> "UNKNOWN"
    [] OTHER -> "MIXED"
ReconcileWithoutCompletion(p) ==
  IF /\ _locked(p) /\ root[p].stage = "planned" /\ root[p].intent = "whole"
     /\ content_state(p) = "CANDIDATE"
  THEN "OBSERVED_CANDIDATE" ELSE "UNKNOWN"
reconcile(p) ==
  IF /\ _locked(p) /\ root[p].stage = "planned"
     /\ root[p].intent = "whole" /\ root[p].complete = "whole"
     /\ content_state(p) = "CANDIDATE"
  THEN "OBSERVED_CANDIDATE" ELSE "UNKNOWN"

--------------------------------------------------------------------------------
(* The accounting root                                                          *)

Entries(r) == {p \in Plan : r.entries[p] # None}
\* _totals: an entry is charged in full, whatever became of the adoption.
_totals(r) ==
  LET asked == MapThenSumSet(LAMBDA p : Resources[p], Entries(r)) IN
  Cardinality(Entries(r)) <= Slots /\ asked <= Retained /\ asked <= Capacity
_validate(r) ==
  /\ \A p \in Entries(r) : r.entries[p].completed => r.entries[p].intent # None
  /\ _totals(r)

\* The allocator's lock: adopt_selected keeps it, everyone else takes it per change.
Locked(c) == ~jammed /\ lock = IF cli[c] THEN c ELSE None

_publish(c, r, told, failed) ==
  /\ Locked(c)
  /\ _validate(r)
  /\ \/ pool' = r /\ UNCHANGED jammed /\ Goto(c, told)
     \/ pool' = r /\ UNCHANGED jammed /\ Goto(c, failed)
     \/ jammed' = TRUE /\ UNCHANGED pool /\ Goto(c, failed)
_change(c, p, entry, told) ==
  pool.epoch = "adoption" /\ _publish(c, [pool EXCEPT !.entries[p] = entry], told, "failed")
Told(c, step) == pc'[c] = step

\* selected_pool of adopt_selected, for which the head is still a service epoch.
adopt_selected(c) ==
  \E p \in Plan, n \in Nonce \ spent :
    /\ pc[c] = "idle"
    /\ approves[n] = p
    /\ lock = None /\ ~jammed /\ pool.epoch = "service"
    /\ lock' = c
    /\ plan' = [plan EXCEPT ![c] = p]
    /\ nonce' = [nonce EXCEPT ![c] = n]
    /\ cli' = [cli EXCEPT ![c] = TRUE]
    /\ Goto(c, "attach")
    /\ UNCHANGED <<pool, jammed, opened, live, tickets, root, flock, spent, edits>>

\* AdoptionPool.attach, over exactly the service epoch that was selected.
attach(c) ==
  /\ pc[c] = IF cli[c] THEN "attach" ELSE "idle"
  /\ home[c] \notin opened
  /\ pool.epoch = "service"
  /\ _publish(c, [pool EXCEPT !.epoch = "adoption"], IF cli[c] THEN "reserve" ELSE "returned", "failed")
  /\ opened' = IF Told(c, "failed") THEN opened ELSE opened \union {home[c]}
  /\ UNCHANGED <<lock, live, tickets, root, flock, spent, call, edits>>

\* AdoptionPool(...) over the same head in a process that did not attach it.
reopen(c) ==
  /\ pc[c] = "idle"
  /\ home[c] \notin opened /\ pool.epoch # "service"
  /\ opened' = opened \union {home[c]}
  /\ UNCHANGED <<pool, jammed, lock, live, tickets, root, flock, spent, pc, call, edits>>

\* reserve: the entry is new (_validate refuses a plan or a root twice), and the
\* capability exists only where the publication was told.
reserve(c) ==
  \E p \in Plan :
    /\ IF cli[c] THEN pc[c] = "reserve" /\ p = plan[c] ELSE pc[c] = "idle"
    /\ home[c] \in opened
    /\ _locked(p) /\ root[p].stage = "planned"
    /\ pool.entries[p] = None
    /\ _change(c, p, [intent |-> None, completed |-> FALSE], IF cli[c] THEN "adopt" ELSE "returned")
    /\ live' = [live EXCEPT ![home[c]] = IF Told(c, "failed") THEN @ ELSE @ \union {p}]
    /\ tickets' = IF Told(c, "failed") THEN tickets ELSE tickets \union {p}
    /\ UNCHANGED <<lock, opened, root, flock, spent, call, edits>>

\* PaidReviewPool.attach over the adoption epoch: the entries end where they are.
attach_review ==
  /\ pool.epoch = "adoption" /\ lock = None /\ ~jammed
  /\ pool' = [pool EXCEPT !.epoch = "review"]
  /\ UNCHANGED <<jammed, lock, opened, live, tickets, root, flock, spent, pc, call, edits>>

--------------------------------------------------------------------------------
(* adopt                                                                        *)

\* The approval is checked before anything is read or locked.
approve(c) ==
  \E p \in Plan, n \in Nonce \ spent :
    /\ IF cli[c] THEN pc[c] = "adopt" /\ p = plan[c] /\ n = nonce[c] ELSE pc[c] = "idle" /\ p \in tickets
    /\ home[c] \in opened
    /\ approves[n] = p
    /\ plan' = [plan EXCEPT ![c] = p]
    /\ nonce' = [nonce EXCEPT ![c] = n]
    /\ Goto(c, "approved")
    /\ UNCHANGED <<accounting, root, flock, spent, cli, edits>>

LockAndLetGo(c) ==
  /\ pc[c] = "approved" /\ _locked(plan[c])
  /\ root[plan[c]].intent = "absent" /\ root[plan[c]].complete = "absent"
  /\ Goto(c, "locked")
  /\ UNCHANGED <<accounting, root, flock, spent, call, edits>>
lock_root(c) ==
  /\ pc[c] = "approved" /\ _locked(plan[c])
  /\ root[plan[c]].intent = "absent" /\ root[plan[c]].complete = "absent"
  /\ flock' = [flock EXCEPT ![plan[c]] = c]
  /\ Goto(c, "locked")
  /\ UNCHANGED <<accounting, root, spent, call, edits>>

ConsumeWithoutCapability(c) ==
  LET p == plan[c] IN
  /\ pc[c] = "locked"
  /\ _change(c, p, [pool.entries[p] EXCEPT !.intent = nonce[c]], "consumed")
  /\ UNCHANGED <<lock, opened, live, tickets, root, flock, spent, call, edits>>
\* _consume burns the capability before the journal is changed.
_consume(c) ==
  LET p == plan[c] IN
  /\ pc[c] = "locked" /\ p \in live[home[c]]
  /\ live' = [live EXCEPT ![home[c]] = @ \ {p}]
  /\ \/ pool.entries[p].intent = None /\ _change(c, p, [pool.entries[p] EXCEPT !.intent = nonce[c]], "consumed")
     \/ Goto(c, "failed") /\ UNCHANGED <<pool, jammed>>
  /\ UNCHANGED <<lock, opened, tickets, root, flock, spent, call, edits>>

\* The plan, the copy and the candidate's files are read within the plan's
\* read_bytes: one unit for the copy, one for the candidate.
_plan(c) ==
  /\ pc[c] = "consumed"
  /\ _scan(plan[c]) = All("base")
  /\ ReadBytes[plan[c]] >= 2
  /\ Goto(c, "validated")
  /\ UNCHANGED <<accounting, root, flock, spent, call, edits>>

AuthorizeUnspent(c) ==
  /\ pc[c] = "validated" /\ nonce[c] \notin spent
  /\ Goto(c, "authorized")
  /\ UNCHANGED <<accounting, root, flock, spent, call, edits>>
\* LocalStore.consume_once, which may spend the nonce and still fail.
consume_once(c) ==
  /\ pc[c] = "validated" /\ nonce[c] \notin spent
  /\ spent' = spent \union {nonce[c]}
  /\ \/ Goto(c, "authorized")
     \/ Goto(c, "failed")
  /\ UNCHANGED <<accounting, root, flock, call, edits>>

\* m.fresh: the file may be left partly written.
write_intent(c) ==
  /\ pc[c] = "authorized" /\ root[plan[c]].intent = "absent"
  /\ \E w \in {"partial", "whole"} :
       /\ root' = [root EXCEPT ![plan[c]].intent = w, ![plan[c]].authorization = nonce[c]]
       /\ Goto(c, IF w = "whole" THEN "replacing" ELSE "failed")
  /\ UNCHANGED <<accounting, flock, spent, call, edits>>

\* Each changed path is staged and replaced in order; a failure can follow any of them.
replace(c) ==
  LET p == plan[c]
      i == root[p].replaced + 1 IN
  /\ pc[c] = "replacing" /\ i \in Index
  /\ root' = [root EXCEPT ![p].copy[i] = "candidate", ![p].replaced = i]
  /\ UNCHANGED <<accounting, flock, spent, pc, call, edits>>
verify_candidate(c) ==
  /\ pc[c] = "replacing" /\ root[plan[c]].replaced = Files
  /\ _scan(plan[c]) = All("candidate")
  /\ ReadBytes[plan[c]] >= 3
  /\ Goto(c, "verified")
  /\ UNCHANGED <<accounting, root, flock, spent, call, edits>>

\* The shared settlement, before the local one.
_complete(c) ==
  LET p == plan[c] IN
  /\ pc[c] = "verified"
  /\ pool.entries[p].intent # None /\ ~pool.entries[p].completed
  /\ _change(c, p, [pool.entries[p] EXCEPT !.completed = TRUE], "completed")
  /\ UNCHANGED <<lock, opened, live, tickets, root, flock, spent, call, edits>>
CompleteLocallyFirst(c) ==
  /\ pc[c] = "verified"
  /\ root' = [root EXCEPT ![plan[c]].complete = "whole"]
  /\ Goto(c, "completed")
  /\ UNCHANGED <<accounting, flock, spent, call, edits>>
write_complete(c) ==
  /\ pc[c] = "completed"
  /\ \E w \in {"partial", "whole"} : root' = [root EXCEPT ![plan[c]].complete = w]
  /\ Goto(c, "failed")
  /\ UNCHANGED <<accounting, flock, spent, call, edits>>

\* Any check refuses or any call raises.
fail(c) ==
  /\ pc[c] \notin {"idle", "returned", "failed"}
  /\ Goto(c, "failed")
  /\ UNCHANGED <<accounting, root, flock, spent, call, edits>>

\* The call ends, told or refused: its locks go.
return(c) ==
  /\ pc[c] \in {"failed", "returned"}
  /\ lock' = IF lock = c THEN None ELSE lock
  /\ flock' = [p \in Plan |-> IF flock[p] = c THEN None ELSE flock[p]]
  /\ plan' = [plan EXCEPT ![c] = None]
  /\ nonce' = [nonce EXCEPT ![c] = None]
  /\ cli' = [cli EXCEPT ![c] = FALSE]
  /\ Goto(c, "idle")
  /\ UNCHANGED <<pool, jammed, opened, live, tickets, root, spent, edits>>

\* A process dies with its callers, its capabilities and its locks.
Crash(q) ==
  LET mine == {c \in Caller : home[c] = q} IN
  /\ q \in opened \/ \E c \in mine : pc[c] # "idle"
  /\ lock' = IF lock \in mine THEN None ELSE lock
  /\ flock' = [p \in Plan |-> IF flock[p] \in mine THEN None ELSE flock[p]]
  /\ opened' = opened \ {q}
  /\ live' = [live EXCEPT ![q] = {}]
  /\ pc' = [c \in Caller |-> IF c \in mine THEN "idle" ELSE pc[c]]
  /\ plan' = [c \in Caller |-> IF c \in mine THEN None ELSE plan[c]]
  /\ nonce' = [c \in Caller |-> IF c \in mine THEN None ELSE nonce[c]]
  /\ cli' = [c \in Caller |-> IF c \in mine THEN FALSE ELSE cli[c]]
  /\ UNCHANGED <<pool, jammed, tickets, root, spent, edits>>

Adopt(c) ==
  \/ approve(c) \/ lock_root(c) \/ _consume(c) \/ _plan(c) \/ consume_once(c) \/ write_intent(c)
  \/ replace(c) \/ verify_candidate(c) \/ _complete(c) \/ write_complete(c)

Next ==
  \/ \E p \in Plan : provision_managed_copy(p) \/ prepare_adoption(p) \/ \E i \in Index : Edit(p, i)
  \/ \E c \in Caller : \/ adopt_selected(c) \/ attach(c) \/ reopen(c) \/ reserve(c)
                       \/ Adopt(c) \/ fail(c) \/ return(c)
  \/ attach_review
  \/ \E q \in Process : Crash(q)

Spec == Init /\ [][Next]_vars

--------------------------------------------------------------------------------
(* Properties                                                                   *)

\* A file of the copy is a candidate's only after INTENT.json is whole, the approval
\* it holds names this plan and is spent, and the accounting root has charged and
\* consumed the plan with that same approval: four stores, written one after the
\* other, with a crash possible between any two.
NothingWrittenUnapproved ==
  \A p \in Plan : (\E i \in Index : _scan(p)[i] = "candidate") =>
    /\ root[p].intent = "whole"
    /\ root[p].authorization \in spent /\ approves[root[p].authorization] = p
    /\ pool.entries[p] # None /\ pool.entries[p].intent = root[p].authorization

\* reconcile reports OBSERVED_CANDIDATE only of an adoption that ran to its end: the
\* accounting root holds its completion, and no caller is still at work on the copy.
ObservedIsComplete ==
  \A p \in Plan : reconcile(p) = "OBSERVED_CANDIDATE" =>
    /\ pool.entries[p] # None /\ pool.entries[p].completed
    /\ \A c \in Caller : plan[c] = p => pc[c] \notin {"replacing", "verified", "completed"}

\* An approval is never spent on a plan that has spent another: after a failure or a
\* crash at any point a fresh approval of the same plan buys no second try.
OneApprovalPerPlan ==
  \A p \in Plan : Cardinality({n \in spent : approves[n] = p}) <= 1

\* Once an adoption has begun to write and its lock is free again, no adoption writes
\* to the copy any more: what a crash leaves, mixed or whole, stays for reconcile.
NoSecondHand ==
  [][\A p \in Plan : (root[p].intent # "absent" /\ flock[p] = None /\ edits' = edits)
                        => root'[p] = root[p]]_vars
================================================================================

------------------------------- MODULE ServicePool ------------------------------
(***************************************************************************)
(* The later epochs of one accounting root.  state.json starts as a common *)
(* pool's record; managed_capacity replaces it by a managed epoch and      *)
(* service_attempt either of them by a service epoch, each holding its     *)
(* predecessor byte for byte and counting what that used as used.  The     *)
(* entries of an epoch end when the next one is attached.                  *)
(*                                                                         *)
(* A managed effect and a service attempt are both spent by a capability   *)
(* that exists only in the memory of the process that was admitted: it is  *)
(* burnt before the journal is changed and is gone after a restart.  The   *)
(* pipe session of service_accounting_cli and check_execution.run hold the *)
(* allocator's lock from selection to the end; other callers take it for   *)
(* each change.                                                            *)
(*                                                                         *)
(* A change of the journal is one step with the outcomes ChildLedger has:  *)
(* published and the call told, published and the call failing, or         *)
(* interrupted, which leaves pending.json and stops the root for good.     *)
(* Engineer, which runs managed callbacks and attempts, is external.       *)
(***************************************************************************)
EXTENDS FiniteSetsExt, Naturals

CONSTANTS
  Process,
  Effect,         \* managed captures, each with its attempt and destination
  Attempt,        \* service requests, each with its root and PREVIEW
  HOLD,           \* managed_capacity.HOLD
  OutputHold,     \* common_capacity.OUTPUT_HOLD
  Slots, Bytes,   \* dispatch_slots and retained_output_bytes of the pool
  GrantSlots, GrantBytes,   \* the additions of the one grant
  MaxCommon,      \* bound on the entries of the common epoch
  None

Results == {"OBSERVED_EXIT_ZERO", "OBSERVED_EXIT_NONZERO", "UNKNOWN"}
Managed == [consumed : BOOLEAN, settlement : {None, "KNOWN", "UNKNOWN"}, retained : 0..HOLD]
Served == [start : BOOLEAN, unknown : BOOLEAN, result : Results \union {None},
           state : Results \union {"ADMITTED", "CONSUMED"}]

ASSUME ServicePoolAssumption ==
  /\ IsFiniteSet(Effect) /\ IsFiniteSet(Attempt)
  /\ {HOLD, OutputHold, Slots, Bytes, GrantSlots, GrantBytes, MaxCommon} \subseteq Nat /\ HOLD > 0
  /\ None \notin Process \union Effect \union Attempt \union Managed \union Served \union Results
  /\ Effect \intersect Attempt = {}

VARIABLES
  state,      \* state.json
  jammed,     \* pending.json exists
  lock,       \* who holds the allocator's lock between changes
  head,       \* the snapshot each process has selected
  mode,       \* what each process does with it
  pc, ticket,
  live,       \* _live: the capabilities in each process's memory
  expired,    \* whether a check's launch window has passed
  files,      \* managed attempts: how far START, CALLBACK and COMPLETE are written
  exec        \* service attempts: START, what the executor knows, and its run

vars == <<state, jammed, lock, head, mode, pc, ticket, live, expired, files, exec>>
me == <<head, mode, pc, ticket, live, expired>>

Common == [epoch : {"common"}, slots : 0..MaxCommon, bound : 0..MaxCommon, settled : 0..MaxCommon,
           retained : Nat, revision : Nat]
ManagedEpoch == [epoch : {"managed"}, predecessor : Common,
                 entries : [Effect -> Managed \union {None}], revision : Nat]
ServiceEpoch == [epoch : {"service"}, predecessor : Common \union ManagedEpoch,
                 entries : [Attempt -> Served \union {None}], revision : Nat]
Record == Common \union ManagedEpoch \union ServiceEpoch

Steps == {"idle", "open", "selected", "prepared", "callback", "called", "claimed", "admitted",
          "started", "fresh", "consumed", "launching", "ran", "settled", "failed"}

TypeOK ==
  /\ state \in Record
  /\ jammed \in BOOLEAN
  /\ lock \in Process \union {None}
  /\ head \in [Process -> Record \union {None}]
  /\ mode \in [Process -> {"library", "session", "check"}]
  /\ pc \in [Process -> Steps]
  /\ ticket \in [Process -> Effect \union Attempt \union {None}]
  /\ live \in [Process -> SUBSET (Effect \union Attempt)]
  /\ expired \in [Process -> BOOLEAN]
  /\ files \in [Effect -> [start : BOOLEAN, callbacks : Nat, complete : BOOLEAN]]
  /\ exec \in [Attempt -> [claimed : BOOLEAN, start : BOOLEAN, told : BOOLEAN, late : BOOLEAN,
                           runs : Nat, exit : Results \union {None}]]

Init ==
  /\ state = [epoch |-> "common", slots |-> 0, bound |-> 0, settled |-> 0, retained |-> 0, revision |-> 0]
  /\ jammed = FALSE
  /\ lock = None
  /\ head = [p \in Process |-> None]
  /\ mode = [p \in Process |-> "library"]
  /\ pc = [p \in Process |-> "idle"]
  /\ ticket = [p \in Process |-> None]
  /\ live = [p \in Process |-> {}]
  /\ expired = [p \in Process |-> FALSE]
  /\ files = [e \in Effect |-> [start |-> FALSE, callbacks |-> 0, complete |-> FALSE]]
  /\ exec = [a \in Attempt |-> [claimed |-> FALSE, start |-> FALSE, told |-> FALSE, late |-> FALSE,
                                runs |-> 0, exit |-> None]]

--------------------------------------------------------------------------------
(* Records                                                                      *)

Entries(r) == {k \in DOMAIN r.entries : r.entries[k] # None}
RetainedBytes(r) == MapThenSumSet(LAMBDA e : r.entries[e].retained, Entries(r))
One(b) == IF b THEN 1 ELSE 0

UsageOfThisEpoch(r) ==
  [dispatch_slots |-> IF r.epoch = "common" THEN r.slots ELSE Cardinality(Entries(r)),
   retained_output_bytes |-> CASE r.epoch = "common" -> r.retained
                               [] r.epoch = "managed" -> 0
                               [] r.epoch = "service" -> Cardinality(Entries(r)),
   managed_receipt_bytes |-> IF r.epoch = "managed" THEN RetainedBytes(r) ELSE 0]
\* usage and _totals: an epoch counts everything its predecessor used, and every
\* attempt with all it asked for (a byte of output), whatever became of it.
usage(r) ==
  LET managed == IF r.epoch = "service" THEN r.predecessor ELSE r
      common == IF managed.epoch = "managed" THEN managed.predecessor ELSE managed
      effects == IF managed.epoch = "managed" THEN Cardinality(Entries(managed)) ELSE 0
      attempts == IF r.epoch = "service" THEN Cardinality(Entries(r)) ELSE 0 IN
  [dispatch_slots |-> common.slots + effects + attempts,
   retained_output_bytes |-> common.retained + attempts,
   managed_receipt_bytes |-> IF managed.epoch = "managed" THEN RetainedBytes(managed) ELSE 0]

capacities(r) ==
  LET granted == r.epoch = "managed" \/ (r.epoch = "service" /\ r.predecessor.epoch = "managed") IN
  [dispatch_slots |-> Slots + IF granted THEN GrantSlots ELSE 0,
   retained_output_bytes |-> Bytes,
   managed_receipt_bytes |-> IF granted THEN GrantBytes ELSE 0]

WithinCapacity(r) == \A k \in DOMAIN usage(r) : usage(r)[k] <= capacities(r)[k]

\* ManagedCapacityOwner._validate_record, entry by entry.
EffectValid(e) ==
  /\ e.settlement # "KNOWN" => e.retained = HOLD
  /\ e.settlement = "KNOWN" => e.consumed
EffectEvents(e) == 1 + One(e.consumed) + One(e.settlement # None)

\* ServicePool._validate: UNKNOWN outweighs the result, the result the start.
EntryState(e) ==
  CASE e.unknown -> "UNKNOWN"
    [] ~e.unknown /\ e.result # None -> e.result
    [] ~e.unknown /\ e.result = None /\ e.start -> "CONSUMED"
    [] OTHER -> "ADMITTED"
AttemptValid(e) == (e.result # None => e.start) /\ e.state = EntryState(e)
AttemptEvents(e) == 1 + One(e.start) + One(e.unknown) + One(e.result # None)

Events(r) ==
  MapThenSumSet(LAMBDA k : IF r.epoch = "managed" THEN EffectEvents(r.entries[k]) ELSE AttemptEvents(r.entries[k]),
                Entries(r))

_validate(r) ==
  /\ r.epoch = "managed" =>
       /\ \A e \in Entries(r) : EffectValid(r.entries[e])
  /\ r.epoch = "service" =>
       /\ \A a \in Entries(r) : AttemptValid(r.entries[a])
  /\ r.epoch # "common" => r.revision = r.predecessor.revision + 1 + Events(r)
  /\ WithinCapacity(r)

--------------------------------------------------------------------------------
(* Changes                                                                      *)

Goto(p, step) == pc' = [pc EXCEPT ![p] = step]

\* A process whose lock is not taken by another and whose root has no pending.json.
Locked(p) == ~jammed /\ lock = IF mode[p] = "library" THEN None ELSE p

\* The epoch over the predecessor a process has selected; any other record is
\* refused by its schema or its predecessor's bytes.
Owns(p, epoch) ==
  /\ head[p] # None
  /\ state.epoch = epoch
  /\ state.predecessor = IF head[p].epoch \in {"common"} \union ({"managed"} \ {epoch})
                         THEN head[p] ELSE head[p].predecessor

\* _publish; after a failure the caller's handlers run.
_publish(p, r, told, failed) ==
  /\ Locked(p)
  /\ _validate(r)
  /\ \/ state' = r /\ UNCHANGED jammed /\ Goto(p, told)
     \/ state' = r /\ UNCHANGED jammed /\ Goto(p, failed)
     \/ jammed' = TRUE /\ UNCHANGED state /\ Goto(p, failed)

Told(p, step) == pc'[p] = step
_change(p, k, entry, told, failed) ==
  _publish(p, [state EXCEPT !.entries[k] = entry, !.revision = @ + 1], told, failed)

\* The common epoch's own changes, as Capacity details them: an entry takes a slot and
\* OutputHold bytes, is bound to its dispatch, and is settled, which gives back what a
\* dispatch known to have performed did not use.
Reserved == [state EXCEPT !.slots = @ + 1, !.retained = @ + OutputHold, !.revision = @ + 1]
Bound == [state EXCEPT !.bound = @ + 1, !.revision = @ + 1]
Settled(n) == [state EXCEPT !.settled = @ + 1, !.retained = @ - n, !.revision = @ + 1]
common_change ==
  /\ state.epoch = "common" /\ ~jammed /\ lock = None
  /\ \/ /\ state.slots < MaxCommon /\ state.slots < Slots
        /\ state.retained + OutputHold <= Bytes
        /\ state' = Reserved
     \/ state.bound < state.slots /\ state' = Bound
     \/ \E n \in 0..OutputHold :
          /\ state.settled < state.bound /\ n <= state.retained
          /\ state' = Settled(n)
  /\ UNCHANGED <<jammed, lock, me, files, exec>>

\* A caller takes the bytes it will hold the root to.
select(p) ==
  \E m \in {"library", "session", "check"} :
    /\ pc[p] = "idle"
    /\ m # "library" => state.epoch = "service"
    /\ mode' = [mode EXCEPT ![p] = m]
    /\ head' = [head EXCEPT ![p] = state]
    /\ Goto(p, IF m = "library" THEN "open" ELSE "selected")
    /\ UNCHANGED <<state, jammed, lock, ticket, live, expired, files, exec>>

\* apply_grant and attach start an epoch only over exactly the bytes selected.
StillHead(p, epochs) == pc[p] = "open" /\ mode[p] = "library" /\ head[p].epoch \in epochs /\ state = head[p]
NewEpoch(p, epoch, keys) ==
  [epoch |-> epoch, predecessor |-> head[p], entries |-> [k \in keys |-> None],
   revision |-> head[p].revision + 1]

apply_grant(p) ==
  /\ StillHead(p, {"common"})
  /\ _publish(p, NewEpoch(p, "managed", Effect), "open", "idle")
  /\ UNCHANGED <<lock, head, mode, ticket, live, expired, files, exec>>

attach(p) ==
  /\ StillHead(p, {"common", "managed"})
  /\ _publish(p, NewEpoch(p, "service", Attempt), "open", "idle")
  /\ UNCHANGED <<lock, head, mode, ticket, live, expired, files, exec>>

--------------------------------------------------------------------------------
(* Managed effects                                                              *)

\* A request whose bytes do not correspond to its capture, binding, receipt and
\* parent is never asked for; what can change under it is the evidence of a start.
inspect_managed_request(e) == files[e] = [start |-> FALSE, callbacks |-> 0, complete |-> FALSE]

\* No entry has the capture yet, and the slot and the hold fit (_validate).
prepare_managed(p) ==
  \E e \in Effect :
    /\ pc[p] = "open" /\ mode[p] = "library" /\ Owns(p, "managed")
    /\ inspect_managed_request(e)
    /\ state.entries[e] = None
    /\ _change(p, e, [consumed |-> FALSE, settlement |-> None, retained |-> HOLD], "prepared", "open")
    /\ ticket' = [ticket EXCEPT ![p] = IF Told(p, "prepared") THEN e ELSE None]
    /\ live' = [live EXCEPT ![p] = IF Told(p, "prepared") THEN @ \union {e} ELSE @]
    /\ UNCHANGED <<lock, head, mode, expired, files, exec>>

\* Engineer writes START.json.
WriteManagedStart(p) ==
  /\ pc[p] = "prepared" /\ ticket[p] \in Effect
  /\ files' = [files EXCEPT ![ticket[p]].start = TRUE]
  /\ UNCHANGED <<state, jammed, lock, me, exec>>

\* ManagedGuard.before_callback: the token is popped whatever comes of it.
Consumable(e) ==
  /\ ~state.entries[e].consumed /\ state.entries[e].settlement = None
  /\ files[e].start /\ files[e].callbacks = 0
before_callback(p) ==
  LET e == ticket[p] IN
  /\ pc[p] = "prepared" /\ e \in live[p]
  /\ live' = [live EXCEPT ![p] = @ \ {e}]
  /\ \/ /\ Owns(p, "managed") /\ Consumable(e)
        /\ _change(p, e, [state.entries[e] EXCEPT !.consumed = TRUE], "callback", "open")
     \/ Goto(p, "open") /\ UNCHANGED <<state, jammed>>
  /\ UNCHANGED <<lock, head, mode, ticket, expired, files, exec>>

\* The callback itself, and then COMPLETE.json.
Callback(p) ==
  /\ pc[p] = "callback"
  /\ files' = [files EXCEPT ![ticket[p]].callbacks = @ + 1]
  /\ Goto(p, "called")
  /\ UNCHANGED <<state, jammed, lock, head, mode, ticket, live, expired, exec>>
WriteComplete(p) ==
  /\ pc[p] = "called"
  /\ files' = [files EXCEPT ![ticket[p]].complete = TRUE]
  /\ Goto(p, "open")
  /\ UNCHANGED <<state, jammed, lock, head, mode, ticket, live, expired, exec>>

SettleAgain(p) ==
  \E e \in Effect, n \in 1..HOLD :
    /\ pc[p] = "open" /\ mode[p] = "library" /\ Owns(p, "managed")
    /\ state.entries[e] # None
    /\ state.entries[e].consumed
    /\ files[e].callbacks > 0 /\ files[e].complete
    /\ _publish(p, [state EXCEPT !.entries[e].settlement = "KNOWN", !.entries[e].retained = n], "open", "open")
    /\ UNCHANGED <<lock, head, mode, ticket, live, expired, files, exec>>
\* ManagedGuard.settle and mark_unknown need no token: any handle of the owner has
\* them (guard).
settle_managed(p) ==
  \E e \in Effect, n \in 1..HOLD :
    /\ pc[p] = "open" /\ mode[p] = "library" /\ Owns(p, "managed")
    /\ state.entries[e] # None
    /\ state.entries[e].consumed /\ state.entries[e].settlement = None
    /\ files[e].callbacks > 0 /\ files[e].complete
    /\ _change(p, e, [state.entries[e] EXCEPT !.settlement = "KNOWN", !.retained = n], "open", "open")
    /\ UNCHANGED <<lock, head, mode, ticket, live, expired, files, exec>>
mark_managed_unknown(p) ==
  \E e \in Effect :
    /\ pc[p] = "open" /\ mode[p] = "library" /\ Owns(p, "managed")
    /\ state.entries[e] # None
    /\ state.entries[e].settlement = None
    /\ _change(p, e, [state.entries[e] EXCEPT !.settlement = "UNKNOWN"], "open", "open")
    /\ UNCHANGED <<lock, head, mode, ticket, live, expired, files, exec>>

--------------------------------------------------------------------------------
(* Service attempts                                                             *)

\* selected_pool: the lock without waiting, and exactly the head of the profile.
open(p) ==
  /\ pc[p] = "selected"
  /\ lock = None /\ ~jammed /\ state = head[p]
  /\ lock' = p
  /\ Goto(p, "open")
  /\ UNCHANGED <<state, jammed, head, mode, ticket, live, expired, files, exec>>

\* The launch window of a check passes.
Expire(p) ==
  /\ mode[p] = "check" /\ pc[p] # "idle" /\ ~expired[p]
  /\ expired' = [expired EXCEPT ![p] = TRUE]
  /\ UNCHANGED <<state, jammed, lock, head, mode, pc, ticket, live, files, exec>>

\* check_execution claims the attempt's root with ACCOUNTING.json before it admits.
claim(p) ==
  \E a \in Attempt :
    /\ pc[p] = "open" /\ mode[p] = "check" /\ ticket[p] = None
    /\ ~exec[a].start /\ ~exec[a].claimed /\ ~expired[p]
    /\ exec' = [exec EXCEPT ![a].claimed = TRUE]
    /\ ticket' = [ticket EXCEPT ![p] = a]
    /\ Goto(p, "claimed")
    /\ UNCHANGED <<state, jammed, lock, head, mode, live, expired, files>>

\* ServicePool.admit: START is absent, the request new (_validate), and it fits.
admit(p) ==
  \E a \in Attempt :
    /\ IF mode[p] = "check" THEN pc[p] = "claimed" /\ a = ticket[p] /\ ~expired[p] ELSE pc[p] = "open"
    /\ Owns(p, "service")
    /\ ~exec[a].start
    /\ state.entries[a] = None
    /\ _change(p, a, [start |-> FALSE, unknown |-> FALSE, result |-> None, state |-> "ADMITTED"],
               "admitted", "failed")
    /\ ticket' = [ticket EXCEPT ![p] = IF Told(p, "admitted") THEN a ELSE None]
    /\ live' = [live EXCEPT ![p] = IF Told(p, "admitted") THEN @ \union {a} ELSE @]
    /\ UNCHANGED <<lock, head, mode, expired, files, exec>>

\* The executor writes START.json for an admission it was told of.
WriteStart(p) ==
  /\ pc[p] = "admitted"
  /\ exec' = [exec EXCEPT ![ticket[p]].start = TRUE]
  /\ Goto(p, "started")
  /\ UNCHANGED <<state, jammed, lock, head, mode, ticket, live, expired, files>>

\* check_execution's fresh() before the consumption.
fresh(p) ==
  /\ pc[p] = "started" /\ mode[p] = "check" /\ ~expired[p]
  /\ Goto(p, "fresh")
  /\ UNCHANGED <<state, jammed, lock, head, mode, ticket, live, expired, files, exec>>

ConsumeTellingFirst(p) ==
  LET a == ticket[p] IN
  /\ pc[p] = IF mode[p] = "check" THEN "fresh" ELSE "started"
  /\ a \in live[p]
  /\ live' = [live EXCEPT ![p] = @ \ {a}]
  /\ \/ /\ Owns(p, "service") /\ state.entries[a].state = "ADMITTED" /\ exec[a].start
        /\ _change(p, a, [state.entries[a] EXCEPT !.start = TRUE, !.state = "CONSUMED"], "consumed", "failed")
     \/ Goto(p, "failed") /\ UNCHANGED <<state, jammed>>
  /\ exec' = [exec EXCEPT ![a].told = @ \/ mode[p] # "check", ![a].late = expired[p]]
  /\ UNCHANGED <<lock, head, mode, ticket, expired, files>>
\* ServicePool.consume burns the capability first; the tries to mark a failed
\* consumption, here and in the caller's handler, are abandon.
consume(p) ==
  LET a == ticket[p] IN
  /\ pc[p] = IF mode[p] = "check" THEN "fresh" ELSE "started"
  /\ a \in live[p]
  /\ live' = [live EXCEPT ![p] = @ \ {a}]
  /\ \/ /\ Owns(p, "service") /\ state.entries[a].state = "ADMITTED" /\ exec[a].start
        /\ _change(p, a, [state.entries[a] EXCEPT !.start = TRUE, !.state = "CONSUMED"], "consumed", "failed")
     \/ Goto(p, "failed") /\ UNCHANGED <<state, jammed>>
  /\ exec' = [exec EXCEPT ![a].told = @ \/ (Told(p, "consumed") /\ mode[p] # "check"),
                          ![a].late = expired[p]]
  /\ UNCHANGED <<lock, head, mode, ticket, expired, files>>

\* The executor: the client of a session or a library runs once it was told, a
\* check's adapter only while the window is still open.
Run(a) ==
  \E r \in Results :
    exec' = [exec EXCEPT ![a].runs = @ + 1, ![a].exit = r, ![a].told = FALSE]
Launch(a) ==
  /\ exec[a].told
  /\ Run(a)
  /\ UNCHANGED <<state, jammed, lock, me, files>>
LaunchWithoutLooking(p) ==
  /\ pc[p] = "consumed" /\ mode[p] = "check"
  /\ Goto(p, "launching")
  /\ UNCHANGED <<state, jammed, lock, head, mode, ticket, live, expired, files, exec>>
before_launch(p) ==
  /\ pc[p] = "consumed" /\ mode[p] = "check" /\ ~expired[p]
  /\ Goto(p, "launching")
  /\ UNCHANGED <<state, jammed, lock, head, mode, ticket, live, expired, files, exec>>
\* The adapter goes on to launch, however long that takes it.
_execute(p) ==
  /\ pc[p] = "launching"
  /\ Run(ticket[p])
  /\ Goto(p, "ran")
  /\ UNCHANGED <<state, jammed, lock, head, mode, ticket, live, expired, files>>

\* Only a process observed to its end, inside its limits, has a classification.
Classification(a) == exec[a].exit

\* ServicePool.settle: a result for a started attempt, which an earlier UNKNOWN
\* still outweighs.
settle(p) ==
  LET a == ticket[p]
      e == [state.entries[a] EXCEPT !.result = Classification(a)] IN
  /\ pc[p] = IF mode[p] = "check" THEN "ran" ELSE "consumed"
  /\ Owns(p, "service")
  /\ e.start /\ state.entries[a].result = None
  /\ exec[a].exit # None
  /\ _change(p, a, [e EXCEPT !.state = IF e.unknown THEN "UNKNOWN" ELSE e.result], "settled", "failed")
  /\ UNCHANGED <<lock, head, mode, ticket, live, expired, files, exec>>

Markable(p) ==
  /\ ticket[p] \in Attempt /\ Owns(p, "service") /\ Locked(p)
  /\ state.entries[ticket[p]] # None
  /\ state.entries[ticket[p]].result = None /\ ~state.entries[ticket[p]].unknown

\* ServicePool.mark_unknown, by a caller that keeps its ticket.
mark_unknown(p) ==
  LET a == ticket[p] IN
  /\ pc[p] \in {"admitted", "started", "consumed"} /\ mode[p] = "library"
  /\ Markable(p)
  /\ _change(p, a, [state.entries[a] EXCEPT !.unknown = TRUE, !.state = "UNKNOWN"], pc[p], pc[p])
  /\ UNCHANGED <<lock, head, mode, ticket, live, expired, files, exec>>

Holding == {"open", "claimed", "admitted", "started", "fresh", "consumed", "launching", "ran"}

\* A frame that is refused, a deadline, the end of the pipe, a changed profile, an
\* executor's exception.
fail(p) ==
  /\ pc[p] \in Holding /\ mode[p] # "library"
  /\ Goto(p, "failed")
  /\ ticket' = [ticket EXCEPT ![p] = IF pc[p] = "claimed" THEN None ELSE @]
  /\ UNCHANGED <<state, jammed, lock, head, mode, live, expired, files, exec>>

\* Session.abandon and the handlers of check_execution.run and consume: mark the
\* attempt unknown if the journal lets them, clear the capabilities, let go.
Leave(p) ==
  /\ lock' = IF lock = p THEN None ELSE lock
  /\ head' = [head EXCEPT ![p] = None]
  /\ mode' = [mode EXCEPT ![p] = "library"]
  /\ ticket' = [ticket EXCEPT ![p] = None]
  /\ live' = [live EXCEPT ![p] = {}]
  /\ expired' = [expired EXCEPT ![p] = FALSE]
  /\ UNCHANGED <<files, exec>>
abandon(p) ==
  LET a == ticket[p] IN
  /\ pc[p] = "failed"
  /\ IF Markable(p)
     THEN _change(p, a, [state.entries[a] EXCEPT !.unknown = TRUE, !.state = "UNKNOWN"], "idle", "idle")
     ELSE Goto(p, "idle") /\ UNCHANGED <<state, jammed>>
  /\ Leave(p)

\* The call returns, or the process is gone, with its capabilities and its lock.
Gone(p) ==
  /\ pc[p] # "idle"
  /\ Goto(p, "idle")
  /\ Leave(p)
  /\ UNCHANGED <<state, jammed>>

\* check_execution.status, which reads state.json without the lock.
status(a) ==
  CASE jammed \/ state.epoch # "service" -> "REFUSED"
    [] ~jammed /\ state.epoch = "service" /\ state.entries[a] = None -> "ABSENT_NOT_RETRY_PERMISSION"
    [] OTHER -> state.entries[a].state

Step(p) ==
  \/ select(p) \/ apply_grant(p) \/ attach(p)
  \/ prepare_managed(p) \/ WriteManagedStart(p) \/ before_callback(p) \/ Callback(p) \/ WriteComplete(p)
  \/ settle_managed(p) \/ mark_managed_unknown(p)
  \/ open(p) \/ Expire(p) \/ claim(p) \/ admit(p) \/ WriteStart(p) \/ fresh(p) \/ consume(p)
  \/ before_launch(p) \/ _execute(p) \/ settle(p) \/ mark_unknown(p) \/ fail(p) \/ abandon(p) \/ Gone(p)

Next == common_change \/ (\E a \in Attempt : Launch(a)) \/ (\E p \in Process : Step(p))

Spec == Init /\ [][Next]_vars

--------------------------------------------------------------------------------
(* Properties                                                                   *)

\* How often something happened that happened n[x] times for each x.
Count(n) == Cardinality(UNION {{x} \X (1..n[x]) : x \in DOMAIN n})

\* What is dispatched, run and called back in all epochs together never exceeds the
\* slots of the pool and its grant, and what dispatches retain and runs put out never
\* exceeds its bytes, although each epoch is a new journal with its own entries, and
\* grants, attachments and admissions race.
NeverOversold ==
  LET managed == IF state.epoch = "service" THEN state.predecessor ELSE state
      common == IF managed.epoch = "managed" THEN managed.predecessor ELSE managed
      runs == Count([a \in Attempt |-> exec[a].runs]) IN
  /\ common.slots + Count([e \in Effect |-> files[e].callbacks]) + runs
       <= Slots + IF managed.epoch = "managed" THEN GrantSlots ELSE 0
  /\ common.retained + runs <= Bytes

\* A managed callback runs at most once, and an attempt is executed at most once,
\* and only when the journal had it consumed: across crashes, reopened roots and
\* consumptions whose publication was told to nobody. status reports an attempt as
\* observed only if it ran and that was its exit, and a call is told that it settled
\* only when the journal holds the result.
SpentOnce ==
  /\ \A e \in Effect :
       /\ files[e].callbacks <= 1
       /\ (state.epoch = "managed" /\ files[e].callbacks = 1) =>
             state.entries[e] # None /\ state.entries[e].consumed
  /\ \A a \in Attempt :
       /\ exec[a].runs <= 1
       /\ exec[a].runs = 1 => state.epoch = "service" /\ state.entries[a] # None /\ state.entries[a].start
       /\ status(a) \in Results \ {"UNKNOWN"} => exec[a].runs = 1 /\ exec[a].exit = status(a)
  /\ \A p \in Process : pc[p] = "settled" => state.entries[ticket[p]].result = exec[ticket[p]].exit

\* The adapter never runs on a consumption recorded after the launch window, however
\* long the consumption and the launch take.
LaunchedInTime ==
  [][\A p \in Process : pc[p] # "ran" /\ pc'[p] = "ran" => ~exec[ticket[p]].late]_vars

\* An UNKNOWN is never turned into an observation and nothing charged is given back,
\* not even by starting the next epoch; only a managed receipt known to be written and a
\* common dispatch known to have performed return the rest of their own hold.
UnknownIsFinal ==
  [][/\ usage(state').dispatch_slots >= usage(state).dispatch_slots
     /\ usage(state').retained_output_bytes + (IF state'.epoch = "common" THEN OutputHold ELSE 0)
          >= usage(state).retained_output_bytes
     /\ state'.epoch = state.epoch /\ state.epoch # "common" =>
          \A k \in Entries(state) :
            /\ state'.entries[k] # None
            /\ state.epoch = "service" /\ state.entries[k].unknown => state'.entries[k].state = "UNKNOWN"
            /\ state.epoch = "managed" /\ state.entries[k].settlement = "UNKNOWN" =>
                 state'.entries[k] = state.entries[k]
    ]_vars
================================================================================

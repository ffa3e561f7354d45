------------------------------- MODULE ChildLedger ------------------------------
(***************************************************************************)
(* The child ledger: child_ledger.Ledger.                                  *)
(*                                                                         *)
(* A parent operation declares its children before it dispatches any; the  *)
(* ledger keeps, per child, up to four signed events: its reservation, its *)
(* dispatch, its completion and its settlement.  Every operation takes an  *)
(* exclusive lock, verifies all of state.json, drafts the next state in    *)
(* memory, writes it to pending.json and renames that over state.json.  A  *)
(* pending.json found by the next caller stops the ledger for good.        *)
(*                                                                         *)
(* Callers are processes of one host that come and go: one that stops is   *)
(* replaced by another.  Signatures, digests and bindings are perfect, so  *)
(* an event is its content and a reservation id is the child and attempt   *)
(* it was drawn for.  Inputs refused before the lock is taken change       *)
(* nothing and are left out.                                               *)
(***************************************************************************)
EXTENDS FiniteSetsExt

CONSTANTS
  Caller,
  Child,          \* expected_child_ids of the parent
  Attempt,        \* attempt ids callers come up with
  Axis,           \* AXES of the budget
  Limit,          \* limit of the budget on each axis
  Request,        \* reserved_amount on each axis
  Measurement,    \* measured_amount on each axis, or Unknown
  MaxEvents,      \* events that fit into MAX_BYTES
  Unknown, None, Partial

Known == [Axis -> Nat]
Amounts == [Axis -> Nat \union {Unknown}]
Service == {"PERFORMED", "NOT_PERFORMED", "UNKNOWN"}
Completion == [performed : Service, measured : Amounts]
Kind == {"reservation", "dispatch", "completion", "settlement"}

Row == [attempt     : Attempt \union {None},
        reservation : Known \union {None},
        dispatch    : {"INTENT_RECORDED", None},
        completion  : Completion \union {None},
        settlement  : Amounts \union {None}]
Body == [children : [Child -> Row], revision : Nat]

ASSUME LedgerAssumption ==
  /\ IsFiniteSet(Child)
  /\ Limit \in Known
  /\ Request \subseteq Known
  /\ Measurement \subseteq Amounts
  /\ MaxEvents \in Nat
  /\ Unknown \notin Nat
  /\ None \notin Caller \union Child \union Attempt \union Known \union Amounts \union Completion \union Body
  /\ Partial \notin Body
  /\ None # Partial
  /\ None # "INTENT_RECORDED"

VARIABLES
  root,       \* whether the directory exists
  lockfile,   \* whether the lock file exists in it
  holder,     \* the caller that has it locked
  state,      \* state.json
  pending,    \* pending.json
  pc,
  draft,      \* the body each caller is about to publish
  starting,   \* the child each caller is recording the dispatch of
  goAheads    \* how many callers have seen dispatch_record return, per child

files == <<root, lockfile, state, pending>>
vars == <<files, holder, pc, draft, starting, goAheads>>

Steps == {"mkdir", "lock", "state", "fill_state", "enter", "action",
          "pending", "fill", "replace", "sync"}
Locked == {"action", "pending", "fill", "replace", "sync"}

TypeOK ==
  /\ root \in BOOLEAN
  /\ lockfile \in BOOLEAN
  /\ holder \in Caller \union {None}
  /\ state \in Body \union {None, Partial}
  /\ pending \in Body \union {None, Partial}
  /\ pc \in [Caller -> Steps \union {"idle"}]
  /\ draft \in [Caller -> Body \union {None}]
  /\ starting \in [Caller -> Child \union {None}]
  /\ goAheads \in [Child -> Nat]

NoEvents == [attempt |-> None, reservation |-> None, dispatch |-> None,
             completion |-> None, settlement |-> None]

\* The body Ledger.create writes.
Empty == [children |-> [ch \in Child |-> NoEvents], revision |-> 0]

Init ==
  /\ root = FALSE
  /\ lockfile = FALSE
  /\ holder = None
  /\ state = None
  /\ pending = None
  /\ pc = [c \in Caller |-> "idle"]
  /\ draft = [c \in Caller |-> None]
  /\ starting = [c \in Caller |-> None]
  /\ goAheads = [ch \in Child |-> 0]

Goto(c, from, to) == pc[c] = from /\ pc' = [pc EXCEPT ![c] = to]

\* A call ends, by a return or an exception: `locked' closes the lock file, which
\* unlocks it, and what was drafted is gone.
LeaveLocked(c) ==
  /\ pc' = [pc EXCEPT ![c] = "idle"]
  /\ draft' = [draft EXCEPT ![c] = None]
  /\ starting' = [starting EXCEPT ![c] = None]
  /\ UNCHANGED holder
Leave(c) ==
  /\ pc' = [pc EXCEPT ![c] = "idle"]
  /\ draft' = [draft EXCEPT ![c] = None]
  /\ starting' = [starting EXCEPT ![c] = None]
  /\ holder' = IF holder = c THEN None ELSE holder

--------------------------------------------------------------------------------
(* Ledger.create: the directory, the lock and the first state, not locked.      *)

Call(c) ==
  /\ Goto(c, "idle", "mkdir") \/ Goto(c, "idle", "enter")
  /\ UNCHANGED <<files, holder, draft, starting, goAheads>>

Mkdir(c) ==
  /\ pc[c] = "mkdir"
  /\ IF root THEN Leave(c) ELSE Goto(c, "mkdir", "lock") /\ UNCHANGED <<holder, draft, starting>>
  /\ root' = TRUE
  /\ UNCHANGED <<lockfile, state, pending, goAheads>>

CreateLock(c) ==
  /\ Goto(c, "lock", "state")
  /\ lockfile' = TRUE
  /\ UNCHANGED <<root, state, pending, holder, draft, starting, goAheads>>

CreateState(c) ==
  /\ Goto(c, "state", "fill_state")
  /\ state' = Partial
  /\ UNCHANGED <<root, lockfile, pending, holder, draft, starting, goAheads>>

FillState(c) ==
  /\ pc[c] = "fill_state"
  /\ Leave(c)
  /\ state' = Empty
  /\ UNCHANGED <<root, lockfile, pending, goAheads>>

--------------------------------------------------------------------------------
(* Ledger.locked                                                                *)

\* No lock file, or an interrupted publication: the call is refused.
Refused(c) ==
  /\ pc[c] = "enter"
  /\ ~lockfile \/ (holder = None /\ pending # None)
  /\ Leave(c)
  /\ UNCHANGED <<files, goAheads>>

EnterUnlocked(c) ==
  /\ Goto(c, "enter", "action")
  /\ lockfile /\ pending = None
  /\ holder' = c
  /\ UNCHANGED <<files, draft, starting, goAheads>>
Enter(c) ==
  /\ Goto(c, "enter", "action")
  /\ lockfile
  /\ holder = None
  /\ pending = None
  /\ holder' = c
  /\ UNCHANGED <<files, draft, starting, goAheads>>

--------------------------------------------------------------------------------
(* _usage, verify_report                                                        *)

larger(x, y) == IF x > y THEN x ELSE y

\* What a child counts for on axis a: the settled amount once it is known, else
\* what was reserved or, if that is more, what was measured.
ExposureReleasedEarly(row, a) ==
  IF row.reservation = None THEN 0
  ELSE IF row.completion # None /\ row.completion.measured[a] # Unknown
    THEN row.completion.measured[a]
  ELSE row.reservation[a]
Exposure(row, a) ==
  IF row.reservation = None THEN 0
  ELSE IF row.settlement # None /\ row.settlement[a] # Unknown THEN row.settlement[a]
  ELSE IF row.completion # None /\ row.completion.measured[a] # Unknown
    THEN larger(row.reservation[a], row.completion.measured[a])
  ELSE row.reservation[a]

_usage(children) ==
  [a \in Axis |-> MapThenSumSet(LAMBDA ch : Exposure(children[ch], a), Child)]

\* What a settlement records of a completion.
Settled(completion) ==
  [a \in Axis |-> IF completion.performed = "UNKNOWN" THEN Unknown ELSE completion.measured[a]]

\* A child's event of one kind, and all events on record.
event(row, kind) ==
  CASE kind = "reservation" -> row.reservation
    [] kind = "dispatch" -> row.dispatch
    [] kind = "completion" -> row.completion
    [] kind = "settlement" -> row.settlement

Events(children) == {e \in Child \X Kind : event(children[e[1]], e[2]) # None}

\* The order of a child's events, what a settlement must agree with, attempts
\* that differ, and the count of events.
OrderedRow(row) ==
  /\ row.reservation = None => row = NoEvents
  /\ row.reservation # None => row.attempt # None
  /\ row.completion # None => row.dispatch # None
  /\ row.settlement # None => row.completion # None /\ row.settlement = Settled(row.completion)

verify_report(body) ==
  /\ body \notin {None, Partial}
  /\ \A ch \in Child : OrderedRow(body.children[ch])
  /\ \A x, y \in Child :
       body.children[x].attempt = body.children[y].attempt /\ body.children[x].attempt # None => x = y
  /\ body.revision = Cardinality(Events(body.children))

--------------------------------------------------------------------------------
(* The operations: _change applies one to what it read, under the lock.         *)

\* _change up to the publication: a state that does not verify, an operation that
\* is not allowed and a state that grows too large are refused.
ChangeUncounted(c, ch, allowed, row) ==
  /\ pc[c] = "action"
  /\ IF verify_report(state) /\ allowed
       THEN /\ Goto(c, "action", "pending")
            /\ draft' = [draft EXCEPT ![c] = [state EXCEPT !.children[ch] = row]]
            /\ UNCHANGED holder
       ELSE Leave(c)
  /\ UNCHANGED <<files, goAheads>>
_change(c, ch, allowed, row) ==
  /\ pc[c] = "action"
  /\ IF verify_report(state) /\ allowed /\ state.revision < MaxEvents
       THEN /\ Goto(c, "action", "pending")
            /\ draft' = [draft EXCEPT ![c] =
                           [children |-> [state.children EXCEPT ![ch] = row],
                            revision |-> state.revision + 1]]
            /\ UNCHANGED holder
       ELSE Leave(c)
  /\ UNCHANGED <<files, goAheads>>

\* A new child, a new attempt id, and room for it in the budget on every axis.
Affordable(children, ch, attempt, request) ==
  /\ children[ch].reservation = None
  /\ \A x \in Child : children[x].attempt # attempt
  /\ LET used == _usage(children) IN \A a \in Axis : used[a] + request[a] <= Limit[a]

reserve(c) ==
  \E ch \in Child, attempt \in Attempt, request \in Request :
    /\ _change(c, ch, verify_report(state) /\ Affordable(state.children, ch, attempt, request),
               [NoEvents EXCEPT !.attempt = attempt, !.reservation = request])
    /\ starting' = [starting EXCEPT ![c] = None]

\* _child: the one child the reservation id was drawn for.
_child(ch, attempt) ==
  /\ verify_report(state)
  /\ state.children[ch].reservation # None
  /\ state.children[ch].attempt = attempt

dispatch_record(c) ==
  \E ch \in Child, attempt \in Attempt :
    LET allowed == _child(ch, attempt) /\ state.children[ch].dispatch = None IN
    /\ _change(c, ch, allowed, [state.children[ch] EXCEPT !.dispatch = "INTENT_RECORDED"])
    /\ starting' = [starting EXCEPT ![c] = IF pc'[c] = "idle" THEN None ELSE ch]

complete(c) ==
  \E ch \in Child, attempt \in Attempt, performed \in Service, measured \in Measurement :
    /\ _change(c, ch,
               /\ _child(ch, attempt)
               /\ state.children[ch].dispatch # None
               /\ state.children[ch].completion = None,
               [state.children[ch] EXCEPT !.completion = [performed |-> performed,
                                                          measured |-> measured]])
    /\ starting' = [starting EXCEPT ![c] = None]

\* The caller names the completion it settles.
settle(c) ==
  \E ch \in Child, attempt \in Attempt :
    \E performed \in Service, measured \in Measurement :
      LET completion == [performed |-> performed, measured |-> measured] IN
      /\ _change(c, ch,
                 /\ _child(ch, attempt)
                 /\ state.children[ch].completion = completion
                 /\ state.children[ch].settlement = None,
                 [state.children[ch] EXCEPT !.settlement = Settled(completion)])
      /\ starting' = [starting EXCEPT ![c] = None]

\* Ledger.snapshot reads and verifies under the lock.
snapshot(c) ==
  /\ pc[c] = "action"
  /\ Leave(c)
  /\ UNCHANGED <<files, goAheads>>

--------------------------------------------------------------------------------
(* The publication                                                              *)

CreatePending(c) ==
  /\ Goto(c, "pending", "fill")
  /\ pending = None
  /\ pending' = Partial
  /\ UNCHANGED <<root, lockfile, state, holder, draft, starting, goAheads>>

FillPending(c) ==
  /\ Goto(c, "fill", "replace")
  /\ pending' = draft[c]
  /\ UNCHANGED <<root, lockfile, state, holder, draft, starting, goAheads>>

Replace(c) ==
  /\ Goto(c, "replace", "sync")
  /\ state' = pending
  /\ pending' = None
  /\ UNCHANGED <<root, lockfile, holder, draft, starting, goAheads>>

\* The directory is synchronised and the caller has its event.
Return(c) ==
  /\ pc[c] = "sync"
  /\ Leave(c)
  /\ goAheads' = [ch \in Child |-> IF starting[c] = ch THEN goAheads[ch] + 1 ELSE goAheads[ch]]
  /\ UNCHANGED files

\* A call that fails, is interrupted or dies between any two steps: the lock goes,
\* the files stay.
Stop(c) ==
  /\ pc[c] \in Steps
  /\ Leave(c)
  /\ UNCHANGED <<files, goAheads>>

Create(c) == Mkdir(c) \/ CreateLock(c) \/ CreateState(c) \/ FillState(c)
Operate(c) ==
  reserve(c) \/ dispatch_record(c) \/ complete(c) \/ settle(c) \/ snapshot(c)
Publish(c) == CreatePending(c) \/ FillPending(c) \/ Replace(c) \/ Return(c)

Next ==
  \E c \in Caller :
    Call(c) \/ Create(c) \/ Refused(c) \/ Enter(c) \/ Operate(c) \/ Publish(c) \/ Stop(c)

Spec == Init /\ [][Next]_vars

\* A process that has the lock goes on until it is through.
FairSpec == Spec /\ \A c \in Caller : WF_vars(Operate(c)) /\ WF_vars(Publish(c))

--------------------------------------------------------------------------------
(* Properties                                                                   *)

\* The published rows, none before there is a ledger.
Rows == IF state \in {None, Partial} THEN Empty.children ELSE state.children

\* The ledger never locks itself out: whatever its operations publish, the
\* verification at the head of the next operation accepts.
StateVerifies == state \in {None, Partial} \/ verify_report(state)

\* Each child is dispatched at most once: one caller at most is ever told that its
\* dispatch is recorded, and then it is, whoever crashed or retried in between.
OneGoAhead ==
  \A ch \in Child : goAheads[ch] > 0 => goAheads[ch] = 1 /\ Rows[ch].dispatch # None

\* What the ledger has promised a child: its reservation, less what a settlement
\* found it not to have used.
Committed(row, a) ==
  IF row.reservation = None THEN 0
  ELSE IF row.settlement # None /\ row.settlement[a] # Unknown /\ row.settlement[a] < row.reservation[a]
    THEN row.settlement[a]
  ELSE row.reservation[a]
Promised(children) ==
  [a \in Axis |-> MapThenSumSet(LAMBDA ch : Committed(children[ch], a), Child)]

\* Reservations never exceed the budget: what is promised to all children together is
\* within the limit on every axis, also after holds were given back and handed out
\* again.  (An overrun that a child reports can still exceed it.)
NeverOversold == \A a \in Axis : Promised(Rows)[a] <= Limit[a]

\* Once a publication was interrupted no operation publishes, and the evidence of
\* the interruption stays.
QuarantineIsFinal ==
  [][pending # None /\ holder = None => UNCHANGED <<state, pending>>]_vars

\* What was recorded of a child is never taken back or rewritten.
EventsAreFinal ==
  [][\A ch \in Child, kind \in Kind :
       event(Rows[ch], kind) # None => event(Rows'[ch], kind) = event(Rows[ch], kind)]_vars

\* Whoever has the lock gives it up.
LockIsReleased == \A c \in Caller : holder = c ~> holder # c

\* The ledger is a budget kept by running totals: recomputing the exposure from
\* every event gives what adding and subtracting at each operation would give.
Phase(row) ==
  IF row.settlement # None THEN "settled"
  ELSE IF row.completion # None THEN "completed"
  ELSE IF row.dispatch # None THEN "dispatched"
  ELSE IF row.reservation # None THEN "held" ELSE "free"
Budget == INSTANCE ChildBudget
  WITH phase <- [ch \in Child |-> Phase(Rows[ch])],
       hold <- [ch \in Child |-> [a \in Axis |-> Exposure(Rows[ch], a)]],
       exposure <- _usage(Rows),
       going <- goAheads
BudgetSpec == Budget!Spec
================================================================================

-------------------------------- MODULE Workflow --------------------------------
(***************************************************************************)
(* service_workflow and service_lifecycle: one paid attempt.  Record after *)
(* record replaces the state.json of its accounting root, from the service *)
(* epoch's head through an observation, its check and the preparation of a *)
(* plan to the adoption.  A workflow observes a candidate first; a         *)
(* lifecycle starts at the preparation, from evidence it is given.         *)
(*                                                                         *)
(* The allocator's lock is held by one command at a time and never waited  *)
(* for, so a root has at most one holder; what the holder has in memory    *)
(* (body and current) is distinguished from what is on disk, because       *)
(* publish changes the body first and can fail before or after the         *)
(* replacement, and handlers publish again from that body.  The service    *)
(* client, its executor and the adoption's own stores (Adoption) are       *)
(* reduced to what the records depend on.                                  *)
(***************************************************************************)
EXTENDS Naturals, FiniteSets

CONSTANTS
  Root,           \* accounting roots, each with its profile
  profiles,       \* the profiles a root may be started with
  approved,       \* the roots for whose plan there is an approval
  baseline,       \* the root whose observation its obligation names, or None
  Case,           \* the selected test cases
  Gain,           \* those of the obligation's cases the repair must gain
  Reports,        \* what an execution at a root may report
  ReadFiles,      \* read_files of each root's acquisition_limits
  None

Outcomes == {"success", "failure", "skip"}
Nested == [start : BOOLEAN, result : BOOLEAN, unknown : BOOLEAN]
ASSUME WorkflowAssumption ==
  /\ profiles \in [Root -> SUBSET {"workflow", "lifecycle"}] /\ approved \subseteq Root
  /\ baseline \in [Root -> Root \union {None}] /\ \A w \in Root : baseline[w] # w
  /\ Gain \subseteq Case /\ Gain # Case /\ Gain # {}
  /\ Reports \in [Root -> SUBSET [events : [Case -> Outcomes \union {None}], exit : {0, 1},
                                  completed : BOOLEAN, successful : BOOLEAN, certain : BOOLEAN]]
  /\ ReadFiles \in [Root -> Nat]
  /\ None \notin Root \union Case /\ None \notin Nested /\ None \notin Nat

VARIABLES
  disk,       \* state.json of each root
  pending,    \* pending.json, or None
  marker,     \* the recovery marker
  mem,        \* what the holder of the lock has: body, current, how far it is
  execution,  \* the executor: its one run and report
  adopted,    \* how often the adoption of the root's plan began to write
  withdrawn,  \* the revision at which the obligation's review ceased to verify, or None
  recovered,  \* how many recoveries were reported
  told        \* the head a client was last told of

vars == <<disk, pending, marker, mem, execution, adopted, withdrawn, recovered, told>>

Legacy == [phase |-> "LEGACY", profile |-> None, revision |-> 0, previous |-> None, nested |-> None,
           used |-> 0, transferred |-> FALSE, recovery_used |-> FALSE]
Phases == {"LEGACY", "WORKFLOW_RESERVED", "OBSERVATION_PREPARED", "OBSERVATION_ADMITTED",
           "OBSERVATION_CONSUMED", "OBSERVATION_SETTLED", "OBSERVATION_RETAINED", "PREPARING",
           "PREPARED", "ADOPTING", "COMPLETE", "UNKNOWN"}
Free == [step |-> "free", body |-> Legacy, current |-> Legacy]

ReadCounts == {0} \union UNION {0..ReadFiles[w] : w \in Root}
Body == [phase : Phases, profile : {"workflow", "lifecycle", None}, revision : Nat,
         previous : {None} \union (Phases \X Nat), nested : Nested \union {None}, used : ReadCounts,
         transferred : BOOLEAN, recovery_used : BOOLEAN]
Steps == {"free", "starting", "session", "marking", "failing", "preparing", "checked", "copied",
          "refreshing", "reviewed", "adopt", "adopting", "written", "recovering", "recovered"}
Memory == [step : Steps, body : Body, current : Body]

TypeOK ==
  /\ disk \in [Root -> Body] /\ told \in [Root -> Body]
  /\ pending \in [Root -> Body \union {None}]
  /\ marker \in [Root -> BOOLEAN] /\ withdrawn \in [Root -> Nat \union {None}]
  /\ mem \in [Root -> Memory]
  /\ execution \in [Root -> [runs : Nat, report : (UNION {Reports[w] : w \in Root}) \union {None}]]
  /\ adopted \in [Root -> Nat] /\ recovered \in [Root -> Nat]

Init ==
  /\ disk = [w \in Root |-> Legacy]
  /\ pending = [w \in Root |-> None]
  /\ marker = [w \in Root |-> FALSE]
  /\ mem = [w \in Root |-> Free]
  /\ execution = [w \in Root |-> [runs |-> 0, report |-> None]]
  /\ adopted = [w \in Root |-> 0]
  /\ withdrawn = [w \in Root |-> None]
  /\ recovered = [w \in Root |-> 0]
  /\ told = [w \in Root |-> Legacy]

--------------------------------------------------------------------------------
(* The ledger                                                                   *)

\* Ledger.locked: free, uninterrupted, and at the head the command was given.
locked(w) == mem[w].step = "free" /\ pending[w] = None

Id(r) == <<r.phase, r.revision>>
At(w, step) == mem[w].step = step
Observes(w) == mem[w].body.profile = "workflow"

\* The holder goes on with a step, or its command ends and its memory goes.
Holder(step, body, current) == IF step = "free" THEN Free ELSE [step |-> step, body |-> body, current |-> current]

PublishOverFirst(w, b, ok, failed) ==
  LET r == [b EXCEPT !.revision = @ + 1, !.previous = mem[w].current.previous] IN
  /\ pending[w] = None
  /\ disk' = [disk EXCEPT ![w] = r] /\ UNCHANGED pending
  /\ mem' = [mem EXCEPT ![w] = Holder(ok, r, r)]
\* publish: the record names the current head.  It is refused (the profile changed,
\* pending.json exists), interrupted, replaced and still failing, or replaced and
\* returned; only the last moves body and current on.
publish(w, b, ok, failed) ==
  LET r == [b EXCEPT !.revision = @ + 1, !.previous = Id(mem[w].current)]
      Raise == mem' = [mem EXCEPT ![w] = Holder(failed, b, mem[w].current)] IN
  \/ UNCHANGED <<disk, pending>> /\ Raise
  \/ /\ pending[w] = None
     /\ \/ pending' = [pending EXCEPT ![w] = r] /\ UNCHANGED disk /\ Raise
        \/ /\ disk' = [disk EXCEPT ![w] = r] /\ UNCHANGED pending
           /\ Raise \/ mem' = [mem EXCEPT ![w] = Holder(ok, r, r)]

\* The client is told of the head a publication returned.
Tell(w, ok) ==
  told' = [told EXCEPT ![w] = IF mem'[w].step = ok /\ disk'[w] # disk[w] THEN disk'[w] ELSE @]
Rest == <<marker, execution, adopted, withdrawn, recovered>>

\* Ledger.start, for a session or for lifecycle.prepare: at the original head only.
\* The pool's capacity, which both hold in full here, is ServicePool's.
start(w) ==
  /\ locked(w) /\ disk[w] = Legacy
  /\ mem' = [mem EXCEPT ![w] = [step |-> "starting", body |-> Legacy, current |-> Legacy]]
  /\ UNCHANGED <<disk, pending, told, Rest>>
reserve(w) ==
  /\ At(w, "starting")
  /\ \/ /\ "workflow" \in profiles[w]
        /\ publish(w, [Legacy EXCEPT !.phase = "WORKFLOW_RESERVED", !.profile = "workflow"], "session", "free")
        /\ Tell(w, "session")
     \/ /\ "lifecycle" \in profiles[w]
        /\ publish(w, [Legacy EXCEPT !.phase = "PREPARING", !.profile = "lifecycle"], "preparing", "free")
        /\ UNCHANGED told
  /\ UNCHANGED Rest

--------------------------------------------------------------------------------
(* The observation session                                                      *)

InPhase(w, phase) == At(w, "session") /\ mem[w].body.phase = phase

\* Ledger.acquired.
acquired(w) ==
  \E used \in mem[w].body.used..ReadFiles[w] :
    /\ InPhase(w, "WORKFLOW_RESERVED")
    /\ publish(w, [mem[w].body EXCEPT !.phase = "OBSERVATION_PREPARED", !.used = used], "session", "failing")
    /\ Tell(w, "session")
    /\ UNCHANGED Rest

\* NestedServicePool._change: the nested entry and the phase that shows it, in one record.
PhaseOf(e) ==
  CASE e.unknown -> "UNKNOWN"
    [] ~e.unknown /\ e.result -> "OBSERVATION_SETTLED"
    [] ~e.unknown /\ ~e.result /\ e.start -> "OBSERVATION_CONSUMED"
    [] OTHER -> "OBSERVATION_ADMITTED"
_change(w, e, ok, failed) ==
  /\ mem[w].body.phase \in {"OBSERVATION_PREPARED", "OBSERVATION_ADMITTED", "OBSERVATION_CONSUMED"}
  /\ publish(w, [mem[w].body EXCEPT !.nested = e, !.phase = PhaseOf(e)], ok, failed)
  /\ Tell(w, "session")
  /\ UNCHANGED Rest

admit(w) ==
  /\ InPhase(w, "OBSERVATION_PREPARED")
  /\ _change(w, [start |-> FALSE, result |-> FALSE, unknown |-> FALSE], "session", "failing")
\* A consumption that fails is marked unknown by its own handler.
consume(w) ==
  /\ InPhase(w, "OBSERVATION_ADMITTED")
  /\ _change(w, [mem[w].body.nested EXCEPT !.start = TRUE], "session", "marking")
settle(w) ==
  /\ InPhase(w, "OBSERVATION_CONSUMED") /\ execution[w].runs > 0
  /\ _change(w, [mem[w].body.nested EXCEPT !.result = TRUE], "session", "failing")
mark_unknown(w) ==
  /\ \/ At(w, "marking")
     \/ At(w, "session") /\ mem[w].body.phase \in {"OBSERVATION_ADMITTED", "OBSERVATION_CONSUMED"}
  /\ _change(w, [mem[w].body.nested EXCEPT !.unknown = TRUE],
             IF At(w, "marking") THEN "failing" ELSE "free", "failing")

\* The client's executor, once it is told that its attempt is consumed.
Execute(w) ==
  \E report \in Reports[w] :
    /\ told[w].phase = "OBSERVATION_CONSUMED" /\ execution[w].runs = 0
    /\ execution' = [execution EXCEPT ![w] = [runs |-> 1, report |-> report]]
    /\ UNCHANGED <<disk, pending, mem, told, marker, adopted, withdrawn, recovered>>

\* A frame that adds nothing to the meter only raises the revision, and is left out:
\* it is the bound on how often METER is sent.
meter(w) ==
  \E used \in mem[w].body.used..ReadFiles[w] :
    /\ InPhase(w, "OBSERVATION_SETTLED")
    /\ used > mem[w].body.used
    /\ publish(w, [mem[w].body EXCEPT !.used = used], "session", "failing")
    /\ Tell(w, "session")
    /\ UNCHANGED Rest

retain(w) ==
  /\ InPhase(w, "OBSERVATION_SETTLED")
  /\ publish(w, [mem[w].body EXCEPT !.phase = "OBSERVATION_RETAINED"], "free", "failing")
  /\ Tell(w, "free")
  /\ UNCHANGED Rest

\* A frame that is refused, the end of the pipe or its deadline.
fail(w) ==
  /\ mem[w].step \in {"session", "preparing", "checked", "copied", "refreshing", "reviewed"}
  /\ mem' = [mem EXCEPT ![w].step = "failing"]
  /\ UNCHANGED <<disk, pending, told, Rest>>

\* Ledger.abandon, and the handler of lifecycle.prepare: UNKNOWN is published from
\* the body in memory, unless that says so already.
abandon(w) ==
  /\ At(w, "failing")
  /\ IF mem[w].body.phase = "UNKNOWN" /\ Observes(w)
     THEN mem' = [mem EXCEPT ![w] = Free] /\ UNCHANGED <<disk, pending>>
     ELSE publish(w, [mem[w].body EXCEPT !.phase = "UNKNOWN"], "free", "free")
  /\ UNCHANGED <<told, Rest>>

--------------------------------------------------------------------------------
(* Checking and preparing                                                       *)

\* TestObservationChecker.check, for a report of the selected cases.
SelectedCases(w) ==
  LET r == execution[w].report
      ok == \A c \in Case : r.events[c] \in {"success", "skip"} IN
  IF /\ disk[w].nested # None /\ disk[w].nested.result /\ ~disk[w].nested.unknown
     /\ r.certain
     /\ \A c \in Case : r.events[c] # None
     /\ r.completed /\ r.successful = ok /\ (r.exit = 0) = r.successful
  THEN IF \A c \in Case : r.events[c] = "success" THEN "OBSERVED_SELECTED_CASES_SUCCESS"
                                                  ELSE "OBSERVED_SELECTED_CASES_NON_SUCCESS"
  ELSE "UNKNOWN"

\* service_obligation.compare: the repair gains what failed and loses nothing.
compare(before, after) ==
  /\ \A w \in {before, after} :
       SelectedCases(w) \in {"OBSERVED_SELECTED_CASES_SUCCESS", "OBSERVED_SELECTED_CASES_NON_SUCCESS"}
  /\ \E c \in Gain : execution[before].report.events[c] = "failure"
  /\ \A c \in Gain : execution[after].report.events[c] = "success"
  /\ \A c \in Case \ Gain : execution[before].report.events[c] = "success"
                         /\ execution[after].report.events[c] = "success"

\* The review of an obligation expires, is revoked, or its approval is consumed; as
\* nobody looks at it before the preparation, not before that.
Withdraw(w) ==
  /\ withdrawn[w] = None /\ baseline[w] # None /\ disk[w].phase \in {"PREPARING", "PREPARED"}
  /\ withdrawn' = [withdrawn EXCEPT ![w] = disk[w].revision]
  /\ UNCHANGED <<disk, pending, marker, mem, execution, adopted, recovered, told>>

\* prepare: the settled observation is transferred once.
prepare(w) ==
  /\ InPhase(w, "OBSERVATION_SETTLED") /\ ~mem[w].body.transferred
  /\ publish(w, [mem[w].body EXCEPT !.phase = "PREPARING", !.transferred = TRUE], "preparing", "failing")
  /\ UNCHANGED <<told, Rest>>

Obliged(w) == Observes(w) /\ baseline[w] # None

\* Acquisition.read: counted after the read, and published at once, for the files that
\* are compared and again for those of the review.
read(w) ==
  /\ mem[w].body.used < ReadFiles[w]
  /\ \/ At(w, "preparing") /\ Observes(w)
     \/ mem[w].step \in {"copied", "refreshing"} /\ Obliged(w)
  /\ publish(w, [mem[w].body EXCEPT !.used = @ + 1], IF At(w, "preparing") THEN "preparing" ELSE "refreshing",
             "failing")
  /\ UNCHANGED <<told, Rest>>

\* check_obligation, under the baseline's lock as well: a retained observation of the
\* original and the candidate's, and a review that verifies.
check_obligation(w) ==
  LET b == baseline[w] IN
  /\ At(w, "preparing")
  /\ Obliged(w) =>
       /\ locked(b) /\ disk[b].phase = "OBSERVATION_RETAINED"
       /\ compare(b, w)
       /\ withdrawn[w] = None
  /\ mem' = [mem EXCEPT ![w].step = "checked"]
  /\ UNCHANGED <<disk, pending, told, Rest>>

\* provision_managed_copy, whose place is published.
copy(w) ==
  /\ At(w, "checked")
  /\ publish(w, mem[w].body, "copied", "failing")
  /\ UNCHANGED <<told, Rest>>

RefreshFromMemory(w) ==
  /\ At(w, "refreshing")
  /\ mem' = [mem EXCEPT ![w].step = "reviewed"]
  /\ UNCHANGED <<disk, pending, told, Rest>>
\* refresh_obligation_review: once its files are read, the review must still verify.
refresh_obligation_review(w) ==
  /\ At(w, "refreshing")
  /\ withdrawn[w] = None
  /\ mem' = [mem EXCEPT ![w].step = "reviewed"]
  /\ UNCHANGED <<disk, pending, told, Rest>>

\* prepare_adoption accepts only a success.
prepared(w) ==
  /\ At(w, IF Obliged(w) THEN "reviewed" ELSE "copied")
  /\ Observes(w) => SelectedCases(w) = "OBSERVED_SELECTED_CASES_SUCCESS"
  /\ publish(w, [mem[w].body EXCEPT !.phase = "PREPARED"], "free", "failing")
  /\ Tell(w, "free")
  /\ UNCHANGED Rest

--------------------------------------------------------------------------------
(* Adoption and recovery                                                        *)

\* Ledger.load: the holder's memory is what is on disk.
Load(w, step) == mem' = [mem EXCEPT ![w] = [step |-> step, body |-> disk[w], current |-> disk[w]]]

AdoptAgain(w) ==
  /\ locked(w) /\ disk[w].phase \in {"PREPARED", "ADOPTING"} /\ w \in approved
  /\ Load(w, "adopt")
  /\ UNCHANGED <<disk, pending, told, Rest>>
adopt(w) ==
  /\ locked(w) /\ disk[w].phase = "PREPARED" /\ w \in approved
  /\ Load(w, "adopt")
  /\ UNCHANGED <<disk, pending, told, Rest>>
\* LifecycleAdoptionPool._consume and _complete around the adoption's own steps.
_consume(w) ==
  /\ At(w, "adopt")
  /\ publish(w, [mem[w].body EXCEPT !.phase = "ADOPTING"], "adopting", "free")
  /\ UNCHANGED <<told, Rest>>
Write(w) ==
  /\ At(w, "adopting")
  /\ adopted' = [adopted EXCEPT ![w] = @ + 1]
  /\ mem' = [mem EXCEPT ![w].step = "written"]
  /\ UNCHANGED <<disk, pending, told, marker, execution, withdrawn, recovered>>
_complete(w) ==
  /\ At(w, "written") /\ mem[w].body.phase = "ADOPTING"
  /\ publish(w, [mem[w].body EXCEPT !.phase = "COMPLETE"], "free", "free")
  /\ Tell(w, "free")
  /\ UNCHANGED Rest

RecoverAgain(w) ==
  /\ At(w, "free") /\ disk[w] # Legacy /\ pending[w] = None
  /\ recovered' = [recovered EXCEPT ![w] = @ + 1]
  /\ UNCHANGED <<disk, pending, mem, marker, execution, adopted, withdrawn, told>>
\* recover, once: an interrupted publication that continues the head is reported and
\* the marker kept; otherwise the head is published again with recovery_used.
recover(w) ==
  /\ At(w, "free")
  /\ \/ /\ pending[w] # None /\ ~marker[w]
        /\ pending[w].previous = Id(disk[w]) /\ pending[w].revision = disk[w].revision + 1
        /\ ~pending[w].recovery_used /\ ~disk[w].recovery_used
        /\ marker' = [marker EXCEPT ![w] = TRUE]
        /\ recovered' \in {recovered, [recovered EXCEPT ![w] = @ + 1]}
        /\ UNCHANGED <<disk, pending, mem, told>>
     \/ /\ pending[w] = None /\ disk[w] # Legacy /\ ~disk[w].recovery_used
        /\ Load(w, "recovering")
        /\ UNCHANGED <<disk, pending, marker, recovered, told>>
  /\ UNCHANGED <<execution, adopted, withdrawn>>
recovering(w) ==
  /\ At(w, "recovering")
  /\ publish(w, [mem[w].body EXCEPT !.recovery_used = TRUE], "recovered", "free")
  /\ Tell(w, "recovered")
  /\ recovered' = [recovered EXCEPT ![w] = IF mem'[w].step = "recovered" THEN @ + 1 ELSE @]
  /\ UNCHANGED <<marker, execution, adopted, withdrawn>>

\* The command ends or its process dies; the lock goes and the memory with it.
Gone(w) ==
  /\ ~At(w, "free")
  /\ mem' = [mem EXCEPT ![w] = Free]
  /\ UNCHANGED <<disk, pending, told, Rest>>

Session(w) == acquired(w) \/ admit(w) \/ consume(w) \/ settle(w) \/ mark_unknown(w) \/ meter(w) \/ retain(w)
Prepare(w) == prepare(w) \/ read(w) \/ check_obligation(w) \/ copy(w)
              \/ refresh_obligation_review(w) \/ prepared(w)
Adopt(w) == adopt(w) \/ _consume(w) \/ Write(w) \/ _complete(w)
Next ==
  \E w \in Root :
    \/ start(w) \/ reserve(w) \/ Session(w) \/ Execute(w) \/ fail(w) \/ abandon(w)
    \/ Withdraw(w) \/ Prepare(w) \/ Adopt(w) \/ recover(w) \/ recovering(w) \/ Gone(w)

Spec == Init /\ [][Next]_vars

--------------------------------------------------------------------------------
(* Properties                                                                   *)

\* A workflow's plan is on disk only after its one execution reported success in
\* every case and, where an obligation binds it, the baseline's observation, paid for
\* at another root, showed a failure that the candidate's does not, and the review that
\* was compared, read and read again verified until the last head before the plan's.
PreparedIsEarned ==
  \A w \in Root : (disk[w].profile = "workflow" /\ disk[w].phase \in {"PREPARED", "ADOPTING", "COMPLETE"}) =>
    /\ execution[w].runs = 1 /\ \A c \in Case : execution[w].report.events[c] = "success"
    /\ disk[w].nested.result /\ ~disk[w].nested.unknown
    /\ baseline[w] # None =>
         /\ \E c \in Case : execution[baseline[w]].report.events[c] = "failure"
         /\ (disk[w].phase = "PREPARED" /\ ~disk[w].recovery_used) =>
              withdrawn[w] = None \/ withdrawn[w] + 1 >= disk[w].revision

\* An adoption writes at most once for a root, and from then on its head says ADOPTING
\* or COMPLETE: no handler, recovery or second command takes that back, whatever
\* publication failed in between.
AdoptedOnce ==
  \A w \in Root : /\ adopted[w] <= 1
                  /\ adopted[w] = 1 => disk[w].phase \in {"ADOPTING", "COMPLETE"}

\* The recovery allowance is spent once: never two recoveries are reported, by the
\* marker, by the head, or one by each.
RecoveredOnce == \A w \in Root : recovered[w] <= 1

\* A head a client was told of is followed only by a record that names it, although
\* handlers publish again over a head whose publication failed.
ToldHeadIsChained ==
  [][\A w \in Root : (disk[w] = told[w] /\ disk'[w] # disk[w]) => disk'[w].previous = Id(disk[w])]_vars
================================================================================

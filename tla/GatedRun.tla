-------------------------------- MODULE GatedRun --------------------------------
(***************************************************************************)
(* The gated run: workflow._run and runner.execute_authorized_command.     *)
(* Evidence is acquired and frozen, the gate decides, an ALLOW is turned   *)
(* into a signed authorization, the authorization is verified against the  *)
(* objects in hand, a custody intent is claimed if the run carries one,    *)
(* the nonce is consumed, the command is launched, its end is acknowledged *)
(* in a signed receipt and the receipt is stored.                          *)
(*                                                                         *)
(* Several runs share one store.  A call is either a complete `vfy run' or *)
(* a direct call of execute_authorized_command with an authorization that  *)
(* was already issued and with whatever objects the caller puts beside it. *)
(* Consuming a nonce and storing a receipt are single steps here: modules  *)
(* SingleUse and LocalStore say what those steps amount to.                *)
(*                                                                         *)
(* The wall clock may be set forward or back at any time, so every reading *)
(* of it yields an arbitrary instant.                                      *)
(***************************************************************************)
EXTENDS Naturals

CONSTANTS
  Run,           \* calls; each also names the nonce and the receipt id it draws
  Argv,          \* command lines
  Evidence,      \* what acquisition may observe
  Decide,        \* the gate: outcome of a command line under evidence
  Intent,        \* custody intents
  argvOf,        \* the command line an intent is bound to
  Time,          \* instants
  AdoptedAt,     \* adoption instant of the rulebook
  TTL,           \* ttl_seconds of the rulebook
  Given,         \* what each call may be asked to run
  Presented,     \* what the caller of each may put beside an authorization
  BadEnvironment,\* calls whose environment has a name no process can have
  Faults,        \* whether file-system calls below the line may fail
  None

Outcomes  == {"ALLOW", "BLOCK", "HOLD", "ERROR"}
Candidate == [argv : Argv, custody : Intent \union {None}]
Observation == [evidence : Evidence, acquired : Time]
Snapshot  == [evidence : Evidence, acquired : Time, frozen : Time]
Authorization == [nonce : Run, candidate : Candidate, snapshot : Snapshot, issued : Time]
Presentation == [candidate : Candidate, evidence : Evidence, outcome : Outcomes,
                 handoff : Intent \union {None}]

ASSUME GateAssumption ==
  /\ Time \subseteq Nat
  /\ AdoptedAt \in Nat
  /\ TTL \in Nat \ {0}
  /\ Decide \in [Argv -> [Evidence -> Outcomes]]
  /\ argvOf \in [Intent -> Argv]
  /\ Given \in [Run -> SUBSET Candidate]
  /\ Presented \in [Run -> SUBSET Presentation]
  /\ BadEnvironment \subseteq Run
  /\ Faults \in BOOLEAN
  /\ None \notin Run
  /\ None \notin Intent
  /\ None \notin Time
  /\ None \notin Candidate
  /\ None \notin Observation
  /\ None \notin Snapshot
  /\ None \notin Authorization

VARIABLES
  pc, verdict,
  candidate, observation, snapshot, outcome,   \* the objects each call holds
  handoff,         \* the custody handoff it was given
  authorization,   \* the authorization it presents
  checkedAt,       \* verification_time
  granted,         \* the authorizations issued so far
  child,           \* what became of the process it launched
  consumed,        \* which call spent each nonce
  claimed,         \* which call claimed each custody intent
  terminal,        \* the terminal record of each intent
  receipts,        \* calls whose receipt is committed
  unrecorded       \* calls whose receipt was preserved outside the records

objects == <<candidate, observation, snapshot, outcome, handoff>>
spending == <<consumed, claimed, terminal>>
accounts == <<receipts, unrecorded>>
vars == <<pc, verdict, objects, authorization, checkedAt, granted, child, spending, accounts>>

AboveTheLine == {"acquire", "freeze", "negative", "grant", "verify", "handoff", "claim"}
BelowTheLine == {"launch", "wait", "terminal", "complete", "issue", "put", "preserve"}
Steps == AboveTheLine \union {"consume"} \union BelowTheLine
Ended == {"exited", "timed_out", "killed"}     \* whatever the return code
Reports == {"recorded", "failed_acknowledge", "failed_issue",
            "failed_store_kept", "failed_store_reported"}
Verdicts == {"none", "refused", "error", "decided", "nonce_reused", "commit_conflict",
             "os_error", "internal_error", "interrupted", "crashed"} \union Reports

TypeOK ==
  /\ pc \in [Run -> Steps \union {"idle", "done"}]
  /\ verdict \in [Run -> Verdicts]
  /\ candidate \in [Run -> Candidate \union {None}]
  /\ observation \in [Run -> Observation \union {None}]
  /\ snapshot \in [Run -> Snapshot \union {None}]
  /\ outcome \in [Run -> Outcomes \union {None}]
  /\ handoff \in [Run -> Intent \union {None}]
  /\ authorization \in [Run -> Authorization \union {None}]
  /\ checkedAt \in [Run -> Time \union {None}]
  /\ granted \in SUBSET Authorization
  /\ child \in [Run -> {"none", "could_not_start", "running"} \union Ended]
  /\ consumed \in [Run -> Run \union {None}]
  /\ claimed \in [Intent -> Run \union {None}]
  /\ terminal \in [Intent -> {None, "NOT_STARTED", "DIRECT_CHILD_ONLY"}]
  /\ receipts \in SUBSET Run
  /\ unrecorded \in SUBSET Run

Init ==
  /\ pc = [r \in Run |-> "idle"]
  /\ verdict = [r \in Run |-> "none"]
  /\ candidate = [r \in Run |-> None]
  /\ observation = [r \in Run |-> None]
  /\ snapshot = [r \in Run |-> None]
  /\ outcome = [r \in Run |-> None]
  /\ handoff = [r \in Run |-> None]
  /\ authorization = [r \in Run |-> None]
  /\ checkedAt = [r \in Run |-> None]
  /\ granted = {}
  /\ child = [r \in Run |-> "none"]
  /\ consumed = [n \in Run |-> None]
  /\ claimed = [i \in Intent |-> None]
  /\ terminal = [i \in Intent |-> None]
  /\ receipts = {}
  /\ unrecorded = {}

Goto(r, from, to) == pc[r] = from /\ pc' = [pc EXCEPT ![r] = to] /\ UNCHANGED verdict
End(r, v) == pc' = [pc EXCEPT ![r] = "done"] /\ verdict' = [verdict EXCEPT ![r] = v]
Return(r, from, v) == pc[r] = from /\ End(r, v)

evaluate(c, s) == Decide[c.argv][s.evidence]

--------------------------------------------------------------------------------
(* workflow._run                                                                *)

\* Handoff.validate: the intent is pending, unclaimed and bound to this command.
ValidHandoff(h, c) ==
  /\ h # None
  /\ c.custody = h
  /\ argvOf[h] = c.argv
  /\ claimed[h] = None
  /\ terminal[h] = None

\* Pin the rulebook, build the candidate, bind and validate the handoff.
Begin(r) ==
  /\ \E c \in Given[r] :
       /\ candidate' = [candidate EXCEPT ![r] = c]
       /\ handoff' = [handoff EXCEPT ![r] = c.custody]
       /\ IF c.custody = None \/ ValidHandoff(c.custody, c)
            THEN Goto(r, "idle", "acquire")
            ELSE Return(r, "idle", "refused")
  /\ UNCHANGED <<observation, snapshot, outcome, authorization, checkedAt, granted, child,
                 spending, accounts>>

acquire(r) ==
  /\ Goto(r, "acquire", "freeze")
  /\ \E now \in Time, e \in Evidence :
       observation' = [observation EXCEPT ![r] = [evidence |-> e, acquired |-> now]]
  /\ UNCHANGED <<candidate, snapshot, outcome, handoff, authorization, checkedAt, granted,
                 child, spending, accounts>>

\* build_snapshot refuses evidence dated after the freeze and a rulebook that was
\* not adopted by then; the gate decides on what is frozen.
Freeze(r) ==
  /\ pc[r] = "freeze"
  /\ \E now \in Time :
       LET o == observation[r]
           s == [evidence |-> o.evidence, acquired |-> o.acquired, frozen |-> now]
           decision == evaluate(candidate[r], s)
       IN  IF o.acquired > now \/ now < AdoptedAt
             THEN Return(r, "freeze", "refused") /\ UNCHANGED <<snapshot, outcome>>
             ELSE /\ snapshot' = [snapshot EXCEPT ![r] = s]
                  /\ outcome' = [outcome EXCEPT ![r] = decision]
                  /\ \/ decision = "ERROR" /\ Return(r, "freeze", "error")
                     \/ decision \in {"BLOCK", "HOLD"} /\ Goto(r, "freeze", "negative")
                     \/ decision = "ALLOW" /\ Goto(r, "freeze", "grant")
  /\ UNCHANGED <<candidate, observation, handoff, authorization, checkedAt, granted, child,
                 spending, accounts>>

\* A negative decision is receipted and stored.  put_record may fail, before its
\* commit point or after it.
NegativeReceipt(r) ==
  /\ Return(r, "negative", "decided")
  /\ receipts' = receipts \union {r}
  /\ UNCHANGED <<objects, authorization, checkedAt, granted, child, spending, unrecorded>>

NegativeReceiptFails(r) ==
  /\ Faults
  /\ Return(r, "negative", "refused")
  /\ receipts' \in {receipts, receipts \union {r}}
  /\ UNCHANGED <<objects, authorization, checkedAt, granted, child, spending, unrecorded>>

\* issue_authorization refuses to date the authority before the evidence.
Issuable(now, s) == now >= s.frozen

issue_authorization(r) ==
  /\ pc[r] = "grant"
  /\ \E now \in Time :
       IF Issuable(now, snapshot[r])
         THEN LET g == [nonce |-> r, candidate |-> candidate[r],
                        snapshot |-> snapshot[r], issued |-> now]
              IN  /\ Goto(r, "grant", "verify")
                  /\ authorization' = [authorization EXCEPT ![r] = g]
                  /\ granted' = granted \union {g}
         ELSE Return(r, "grant", "refused") /\ UNCHANGED <<authorization, granted>>
  /\ UNCHANGED <<objects, checkedAt, child, spending, accounts>>

--------------------------------------------------------------------------------
(* runner.execute_authorized_command, above the line                            *)

\* A direct call: any issued authorization, with objects that need not be its own.
Present(r) ==
  /\ Goto(r, "idle", "verify")
  /\ \E g \in granted, p \in Presented[r] :
       /\ authorization' = [authorization EXCEPT ![r] = g]
       /\ candidate' = [candidate EXCEPT ![r] = p.candidate]
       /\ snapshot' = [snapshot EXCEPT ![r] = [g.snapshot EXCEPT !.evidence = p.evidence]]
       /\ outcome' = [outcome EXCEPT ![r] = p.outcome]
       /\ handoff' = [handoff EXCEPT ![r] = p.handoff]
  /\ UNCHANGED <<observation, checkedAt, granted, child, spending, accounts>>

expires_at(g) == g.issued + TTL

\* verify_authorization: the bindings are recomputed, the decision is recomputed,
\* the interval is compared with the instant of the spend, and the nonce looked up.
VerifiedUnbound(r, now) ==
  LET g == authorization[r] IN
  /\ outcome[r] = "ALLOW"
  /\ g.issued <= now /\ now < expires_at(g)
  /\ consumed[g.nonce] = None
Verified(r, now) ==
  LET g == authorization[r] IN
  /\ outcome[r] = "ALLOW"
  /\ g.candidate = candidate[r]
  /\ g.snapshot = snapshot[r]
  /\ evaluate(candidate[r], snapshot[r]) = outcome[r]
  /\ g.snapshot.frozen <= g.issued
  /\ g.issued <= now
  /\ now < expires_at(g)
  /\ consumed[g.nonce] = None

verify_authorization(r) ==
  /\ pc[r] = "verify"
  /\ \E now \in Time :
       IF Verified(r, now)
         THEN /\ checkedAt' = [checkedAt EXCEPT ![r] = now]
              /\ IF candidate[r].custody = None /\ handoff[r] = None
                   THEN Goto(r, "verify", "consume")
                   ELSE Goto(r, "verify", "handoff")
         ELSE Return(r, "verify", "refused") /\ UNCHANGED checkedAt
  /\ UNCHANGED <<objects, authorization, granted, child, spending, accounts>>

\* The handoff is validated once more, then claimed by exclusive creation.
ValidateHandoff(r) ==
  /\ pc[r] = "handoff"
  /\ IF ValidHandoff(handoff[r], candidate[r])
       THEN Goto(r, "handoff", "claim")
       ELSE Return(r, "handoff", "refused")
  /\ UNCHANGED <<objects, authorization, checkedAt, granted, child, spending, accounts>>

ClaimShared(r) ==
  /\ Goto(r, "claim", "consume")
  /\ claimed' = [claimed EXCEPT ![handoff[r]] = r]
  /\ UNCHANGED <<objects, authorization, checkedAt, granted, child, consumed, terminal,
                 accounts>>
claim(r) ==
  /\ pc[r] = "claim"
  /\ IF claimed[handoff[r]] = None
       THEN /\ Goto(r, "claim", "consume")
            /\ claimed' = [claimed EXCEPT ![handoff[r]] = r]
       ELSE Return(r, "claim", "refused") /\ UNCHANGED claimed
  /\ UNCHANGED <<objects, authorization, checkedAt, granted, child, consumed, terminal,
                 accounts>>

\* The claim file was created and its content could not be made durable.
ClaimFails(r) ==
  /\ Faults
  /\ Return(r, "claim", "refused")
  /\ claimed[handoff[r]] = None
  /\ claimed' = [claimed EXCEPT ![handoff[r]] = r]
  /\ UNCHANGED <<objects, authorization, checkedAt, granted, child, consumed, terminal,
                 accounts>>

\* Everything above the line that refuses for a reason kept out of the model: an
\* unusable rulebook, program, key, trust file, working directory or timeout.
RefusedAbove(r) ==
  /\ pc[r] \in AboveTheLine \ {"claim"}
  /\ End(r, "refused")
  /\ UNCHANGED <<objects, authorization, checkedAt, granted, child, spending, accounts>>

--------------------------------------------------------------------------------
(* The line, and what is below it                                               *)

ConsumeUnchecked(r) ==
  /\ Goto(r, "consume", "launch")
  /\ consumed' = [consumed EXCEPT ![authorization[r].nonce] = r]
  /\ UNCHANGED <<objects, authorization, checkedAt, granted, child, claimed, terminal, accounts>>
consume_once(r) ==
  LET n == authorization[r].nonce IN
  /\ pc[r] = "consume"
  /\ IF consumed[n] = None
       THEN /\ Goto(r, "consume", "launch")
            /\ consumed' = [consumed EXCEPT ![n] = r]
       ELSE Return(r, "consume", "nonce_reused") /\ UNCHANGED consumed
  /\ UNCHANGED <<objects, authorization, checkedAt, granted, child, claimed, terminal,
                 accounts>>

\* consume_once may fail before its link, or in the unlink that follows it.
ConsumeFails(r) ==
  LET n == authorization[r].nonce IN
  /\ pc[r] = "consume"
  /\ Faults
  /\ \/ Return(r, "consume", "commit_conflict") /\ UNCHANGED consumed
     \/ /\ Return(r, "consume", "os_error")
        /\ consumed[n] = None
        /\ consumed' = [consumed EXCEPT ![n] = r]
  /\ UNCHANGED <<objects, authorization, checkedAt, granted, child, claimed, terminal,
                 accounts>>

\* Popen accepts every environment it can hand to a process.
Launch(r) ==
  /\ r \notin BadEnvironment
  /\ Goto(r, "launch", "wait")
  /\ child' = [child EXCEPT ![r] = "running"]
  /\ UNCHANGED <<objects, authorization, checkedAt, granted, spending, accounts>>

\* Handoff.terminal: exclusive creation, whose failure is swallowed.
RecordTerminal(r, scope) ==
  IF handoff[r] = None THEN UNCHANGED terminal
  ELSE \/ terminal' = [terminal EXCEPT ![handoff[r]] = IF @ = None THEN scope ELSE @]
       \/ Faults /\ UNCHANGED terminal

\* OSError: the program is not there, is not executable, or no process is left.
LaunchFails(r) ==
  /\ r \notin BadEnvironment
  /\ Goto(r, "launch", "complete")
  /\ child' = [child EXCEPT ![r] = "could_not_start"]
  /\ RecordTerminal(r, "NOT_STARTED")
  /\ UNCHANGED <<objects, authorization, checkedAt, granted, consumed, claimed, accounts>>

\* ValueError: a name in the environment holds `=' or NUL.
LaunchRaises(r) ==
  /\ r \in BadEnvironment
  /\ Return(r, "launch", "internal_error")
  /\ UNCHANGED <<objects, authorization, checkedAt, granted, child, spending, accounts>>

ChildEnds(r) ==
  /\ Goto(r, "wait", "terminal")
  /\ child' = [child EXCEPT ![r] = "exited"]
  /\ UNCHANGED <<objects, authorization, checkedAt, granted, spending, accounts>>

\* The deadline passes and the process group is killed.  A child that cannot be
\* killed has no return code, and no terminal record is written for it.
WaitsForever(r) == pc[r] = "wait" /\ UNCHANGED vars
TimesOut(r) ==
  /\ \/ Goto(r, "wait", "terminal") \/ Goto(r, "wait", "complete")
  /\ child' = [child EXCEPT ![r] = "timed_out"]
  /\ UNCHANGED <<objects, authorization, checkedAt, granted, spending, accounts>>

\* The selector, a select or a read fails: the OSError travels as it is.  The finally
\* clause ends what still runs, unless the selector could not even be made.
WaitFails(r) ==
  /\ Faults
  /\ Return(r, "wait", "os_error")
  /\ \E state \in {"running", "exited", "killed"} : child' = [child EXCEPT ![r] = state]
  /\ UNCHANGED <<objects, authorization, checkedAt, granted, spending, accounts>>

WriteTerminal(r) ==
  /\ Goto(r, "terminal", "complete")
  /\ RecordTerminal(r, "DIRECT_CHILD_ONLY")
  /\ UNCHANGED <<objects, authorization, checkedAt, granted, child, consumed, claimed, accounts>>

\* _completion_instant and _acknowledge
Complete(r) ==
  /\ Goto(r, "complete", "issue") \/ Return(r, "complete", "failed_acknowledge")
  /\ UNCHANGED <<objects, authorization, checkedAt, granted, child, spending, accounts>>

issue_receipt(r) ==
  /\ Goto(r, "issue", "put") \/ Return(r, "issue", "failed_issue")
  /\ UNCHANGED <<objects, authorization, checkedAt, granted, child, spending, accounts>>

put_record(r) ==
  /\ Return(r, "put", "recorded")
  /\ receipts' = receipts \union {r}
  /\ UNCHANGED <<objects, authorization, checkedAt, granted, child, spending, unrecorded>>

\* Also when the failure came after the commit point.
PutFails(r) ==
  /\ Faults
  /\ Goto(r, "put", "preserve")
  /\ receipts' \in {receipts, receipts \union {r}}
  /\ UNCHANGED <<objects, authorization, checkedAt, granted, child, spending, unrecorded>>

preserve_unrecorded(r) ==
  /\ \/ Return(r, "preserve", "failed_store_kept") /\ unrecorded' = unrecorded \union {r}
     \/ Return(r, "preserve", "failed_store_reported") /\ UNCHANGED unrecorded
  /\ UNCHANGED <<objects, authorization, checkedAt, granted, child, spending, receipts>>

--------------------------------------------------------------------------------
(* What the environment may do to a caller.                                     *)

\* KeyboardInterrupt: the finally clause of _launch ends the process group, unless
\* the interrupt arrives between Popen and the try block.
Interrupt(r) ==
  /\ pc[r] \in Steps
  /\ End(r, "interrupted")
  /\ \/ child[r] = "running" /\ child' = [child EXCEPT ![r] = "killed"]
     \/ UNCHANGED child
  /\ UNCHANGED <<objects, authorization, checkedAt, granted, spending, accounts>>

\* A child outlives a parent that dies.
Crash(r) ==
  /\ pc[r] \in Steps
  /\ End(r, "crashed")
  /\ UNCHANGED <<objects, authorization, checkedAt, granted, child, spending, accounts>>

_run(r) ==
  \/ acquire(r) \/ Freeze(r)
  \/ NegativeReceipt(r) \/ NegativeReceiptFails(r) \/ issue_authorization(r)

\* What the calling process does by itself, the deadline included.  That the child ends
\* or the wait for it fails is not its doing.
OwnStep(r) ==
  \/ verify_authorization(r) \/ ValidateHandoff(r) \/ claim(r) \/ ClaimFails(r)
  \/ consume_once(r) \/ ConsumeFails(r)
  \/ Launch(r) \/ LaunchFails(r) \/ LaunchRaises(r) \/ TimesOut(r) \/ WriteTerminal(r)
  \/ Complete(r) \/ issue_receipt(r) \/ put_record(r) \/ PutFails(r) \/ preserve_unrecorded(r)

execute_authorized_command(r) == OwnStep(r) \/ ChildEnds(r) \/ WaitFails(r)

Next ==
  \E r \in Run :
    \/ Begin(r) \/ Present(r) \/ _run(r) \/ execute_authorized_command(r)
    \/ RefusedAbove(r) \/ Interrupt(r) \/ Crash(r)

Spec == Init /\ [][Next]_vars

\* A live caller goes on: its clock can be read, and a child that does not end
\* by itself meets the monotonic deadline.
FairSpec ==
  Spec /\ \A r \in Run :
    WF_vars(_run(r)) /\ WF_vars(OwnStep(r))

--------------------------------------------------------------------------------
(* Properties                                                                   *)

\* The instants behind a launch are in order although the wall clock may have
\* been set back at any point: acquired, frozen, issued, spent before expiry.
InstantsAreMonotone ==
  \A r \in Run : child[r] # "none" =>
    LET g == authorization[r] IN
    /\ g.snapshot.acquired <= g.snapshot.frozen
    /\ AdoptedAt <= g.snapshot.frozen
    /\ g.snapshot.frozen <= g.issued
    /\ g.issued <= checkedAt[r]
    /\ checkedAt[r] < g.issued + TTL

\* A process runs only on an authorization that this call spent and that binds the
\* very command line and evidence the gate allowed, within its interval: no
\* substitution between verification and launch, and no instant out of order.
LaunchIsAuthorized ==
  /\ \A r \in Run : child[r] # "none" =>
       LET g == authorization[r] IN
       /\ g \in granted
       /\ consumed[g.nonce] = r
       /\ g.candidate = candidate[r]
       /\ evaluate(candidate[r], g.snapshot) = "ALLOW"
  /\ InstantsAreMonotone

\* One authorization starts at most one process, whoever presents it and however
\* often.
OneLaunchPerAuthorization ==
  \A r, s \in Run :
    child[r] # "none" /\ child[s] # "none" /\ authorization[r] = authorization[s] => r = s

\* A negative decision or a refusal above the line spends nothing and starts
\* nothing, also when a caller presents it with an authorization.
RefusalIsFree ==
  \A r \in Run :
    verdict[r] \in {"refused", "error", "decided"} \/ outcome[r] \in {"BLOCK", "HOLD", "ERROR"} =>
      /\ child[r] = "none"
      /\ \A n \in Run : consumed[n] # r
      /\ unrecorded \intersect {r} = {}

\* One dispatch per protected intent: a process that runs under a handoff runs
\* under an intent its own call claimed, and no other call ever runs under it.
OneDispatchPerIntent ==
  \A r \in Run : child[r] # "none" /\ candidate[r].custody # None =>
    /\ handoff[r] = candidate[r].custody
    /\ claimed[handoff[r]] = r

\* The terminal record of an intent speaks of the one call that claimed it, and
\* never says NOT_STARTED of an intent under which a process was started.
TerminalIsTruthful ==
  \A i \in Intent : terminal[i] # None =>
    /\ claimed[i] # None
    /\ child[claimed[i]] \in (IF terminal[i] = "NOT_STARTED" THEN {"could_not_start"} ELSE Ended)

\* An action that happened is accounted for: unless the caller itself was killed, or
\* a system call failed while it waited for the child, it is told of the execution,
\* and told it is recorded only if it is.
ExecutionIsReported ==
  \A r \in Run : pc[r] = "done" /\ child[r] # "none" =>
    /\ verdict[r] \in Reports \union {"interrupted", "crashed", "os_error"}
    /\ verdict[r] = "os_error" => Faults /\ child[r] \in {"running", "exited", "killed"}
    /\ verdict[r] = "recorded" => r \in receipts
    /\ verdict[r] = "failed_store_kept" => r \in unrecorded

\* A committed receipt that carries an execution belongs to a call that spent.
ReceiptOfASpend ==
  \A r \in receipts \union unrecorded :
    outcome[r] = "ALLOW" => consumed[authorization[r].nonce] = r /\ child[r] # "none"

\* Every failure below the line leaves an authorization spent, and says so.
SpentSaysSo ==
  \A r \in Run :
    pc[r] = "done" /\ (\E n \in Run : consumed[n] = r) /\ verdict[r] \notin {"interrupted", "crashed"}
      => verdict[r] \in Reports

\* A nonce once consumed stays with the call that consumed it, and an intent with
\* the call that claimed it, across crashes and retries.
SpendingIsFinal ==
  [][/\ \A n \in Run : consumed[n] # None => consumed'[n] = consumed[n]
     /\ \A i \in Intent : claimed[i] # None => claimed'[i] = claimed[i]
     /\ \A i \in Intent : terminal[i] # None => terminal'[i] = terminal[i]]_vars

\* Every call ends, also when the child does not end by itself.
EveryRunEnds == \A r \in Run : pc[r] \in Steps ~> pc[r] = "done"

\* The run uses consume_once as SingleUse describes it: a call asks once its
\* authorization is verified and has its answer when it launches or ends.  One
\* whose unlink failed has spent and never got an answer.
Asked == [r \in Run |-> IF checkedAt[r] = None THEN None ELSE authorization[r]]
Reply ==
  [r \in Run |->
     IF child[r] # "none" \/ verdict[r] = "internal_error" THEN "consumed"
     ELSE IF checkedAt[r] # None /\ verdict[r] \in {"nonce_reused", "commit_conflict",
                                                    "interrupted", "crashed"}
       THEN verdict[r]
     ELSE "pending"]
Consumption == INSTANCE SingleUse
  WITH Attempt <- Run, Nonce <- Run, nonceOf <- [g \in Authorization |-> g.nonce],
       request <- Asked, spentBy <- consumed, reply <- Reply
SpendsThroughSingleUse == Consumption!Spec
================================================================================

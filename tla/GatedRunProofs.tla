---------------------------- MODULE GatedRunProofs -----------------------------
(***************************************************************************)
(* The guarantees of a gated run for any number of calls, command lines,   *)
(* evidences, intents and instants, any gate and any clock.                *)
(*                                                                         *)
(* LaunchIsAuthorized is not inductive: a call at `launch' must be known   *)
(* to have bound and spent what it is about to use.  RunInv(r) says what   *)
(* call r has established at each step; one lemma (Framed) shows that no   *)
(* other call's step disturbs it, so that each action has to be examined   *)
(* for its own call only.                                                  *)
(***************************************************************************)
EXTENDS GatedRun, TLAPS

Presenting == {"verify", "handoff", "claim", "consume"} \union BelowTheLine
Checked == {"handoff", "claim", "consume"} \union BelowTheLine
Claimed == {"consume"} \union BelowTheLine
Launched == BelowTheLine \ {"launch"}

InOrder(s) == s.acquired <= s.frozen /\ AdoptedAt <= s.frozen

\* The evidence a call holds was frozen after it was acquired.
Prepared(r) ==
  /\ pc[r] \in {"acquire", "freeze", "grant"} => candidate[r] \in Candidate
  /\ pc[r] = "freeze" => observation[r] \in Observation
  /\ pc[r] = "grant" => snapshot[r] \in Snapshot /\ InOrder(snapshot[r])
  /\ pc[r] = "negative" => outcome[r] # "ALLOW"

\* The authorization a call presents was issued, and once verified it binds the
\* objects in hand.
Bound(r) ==
  /\ pc[r] \in Presenting \/ child[r] # "none" =>
       authorization[r] \in granted /\ candidate[r] \in Candidate
  /\ pc[r] \in Checked \/ child[r] # "none" =>
       LET g == authorization[r] IN
       /\ g.candidate = candidate[r]
       /\ g.snapshot = snapshot[r]
       /\ evaluate(candidate[r], snapshot[r]) = "ALLOW"
       /\ outcome[r] = "ALLOW"
       /\ checkedAt[r] \in Time
       /\ g.issued <= checkedAt[r]
       /\ checkedAt[r] < g.issued + TTL

\* A call below the line has spent its nonce; a nonce was spent by a call that
\* verified, and that did not refuse.
Spent(r) ==
  /\ pc[r] \in BelowTheLine \/ child[r] # "none" => consumed[authorization[r].nonce] = r
  /\ \A n \in Run : consumed[n] = r =>
       /\ pc[r] \in BelowTheLine \union {"done"}
       /\ authorization[r] \in granted
       /\ authorization[r].nonce = n
       /\ outcome[r] = "ALLOW"
       /\ checkedAt[r] # None
       /\ verdict[r] \notin {"refused", "error", "decided"}

\* A call at its launch has claimed the intent its command carries.
Custodied(r) ==
  /\ pc[r] \in {"claim"} \union Claimed \/ child[r] # "none" => candidate[r].custody = handoff[r]
  /\ pc[r] = "claim" => handoff[r] # None
  /\ (pc[r] \in Claimed \/ child[r] # "none") /\ handoff[r] # None => claimed[handoff[r]] = r

\* There is a process only after a launch, and an end only after the process ended.
ChildState(r) ==
  /\ pc[r] # "done" => verdict[r] = "none"
  /\ pc[r] \in Launched => child[r] # "none"
  /\ pc[r] \notin Launched \union {"done"} => child[r] = "none"
  /\ pc[r] = "wait" => child[r] = "running"
  /\ pc[r] = "terminal" => child[r] \in Ended

\* A call whose receipt is kept is through, and is told what became of it.
Accounted(r) ==
  /\ r \in receipts \union unrecorded =>
       /\ pc[r] \in {"preserve", "done"}
       /\ outcome[r] = "ALLOW" => child[r] # "none"
  /\ r \in unrecorded => outcome[r] = "ALLOW"
  /\ pc[r] = "done" /\ child[r] # "none" =>
       /\ verdict[r] \in Reports \union {"interrupted", "crashed", "os_error"}
       /\ verdict[r] = "os_error" => Faults /\ child[r] \in {"running", "exited", "killed"}
       /\ verdict[r] = "recorded" => r \in receipts
       /\ verdict[r] = "failed_store_kept" => r \in unrecorded

RunInv(r) ==
  Prepared(r) /\ Bound(r) /\ Spent(r) /\ Custodied(r) /\ ChildState(r) /\ Accounted(r)

\* Everything issued was dated after its evidence.
GrantedInOrder ==
  \A g \in granted : InOrder(g.snapshot) /\ g.snapshot.frozen <= g.issued

IInv ==
  /\ TypeOK
  /\ GrantedInOrder
  /\ TerminalIsTruthful
  /\ \A r \in Run : RunInv(r)

\* What a step of call r leaves alone: the other calls, and whatever was issued,
\* spent, claimed or stored before.
StepOf(r) ==
  /\ \A s \in Run \ {r} :
       /\ pc'[s] = pc[s] /\ verdict'[s] = verdict[s]
       /\ candidate'[s] = candidate[s] /\ observation'[s] = observation[s]
       /\ snapshot'[s] = snapshot[s] /\ outcome'[s] = outcome[s]
       /\ handoff'[s] = handoff[s] /\ authorization'[s] = authorization[s]
       /\ checkedAt'[s] = checkedAt[s] /\ child'[s] = child[s]
  /\ granted \subseteq granted'
  /\ \A n \in Run : consumed'[n] = consumed[n] \/ (consumed[n] = None /\ consumed'[n] = r)
  /\ \A i \in Intent : claimed'[i] = claimed[i] \/ (claimed[i] = None /\ claimed'[i] = r)
  /\ \A i \in Intent : terminal'[i] = terminal[i] \/ (terminal[i] = None /\ handoff[r] = i)
  /\ receipts' \in {receipts, receipts \union {r}}
  /\ unrecorded' \in {unrecorded, unrecorded \union {r}}

\* The invariant holds before any call.
LEMMA InitIInv == Init => IInv
  BY GateAssumption
  DEF Init, IInv, TypeOK, GrantedInOrder, TerminalIsTruthful, RunInv, Prepared, Bound, Spent,
      Custodied, ChildState, Accounted, Presenting, Checked, Claimed, Launched, Steps,
      AboveTheLine, BelowTheLine, Verdicts, Reports, Ended

\* A step of one call keeps what another call has established.
LEMMA Framed ==
  ASSUME IInv, NEW r \in Run, StepOf(r), NEW s \in Run \ {r}
  PROVE  RunInv(s)'
<1> USE GateAssumption DEF IInv, RunInv, StepOf
<1> s \in Run /\ s # r /\ s # None
  OBVIOUS
<1>1. Prepared(s)'
  BY DEF Prepared, InOrder
<1>2. Bound(s)'
  BY DEF Bound, evaluate
<1>3. Spent(s)'
  <2>1. pc[s] \in BelowTheLine \/ child[s] # "none" => authorization[s].nonce \in Run
    BY DEF Bound, TypeOK, Authorization, Presenting
  <2> QED
    BY <2>1 DEF Spent
<1>4. Custodied(s)'
  BY DEF Custodied, TypeOK
<1>5. ChildState(s)'
  BY DEF ChildState
<1>6. Accounted(s)'
  BY DEF Accounted
<1> QED
  BY <1>1, <1>2, <1>3, <1>4, <1>5, <1>6

\* What call r may do next.
StepsOf(r) ==
  \/ Begin(r) \/ Present(r) \/ _run(r) \/ execute_authorized_command(r)
  \/ RefusedAbove(r) \/ Interrupt(r) \/ Crash(r)

USE DEF Goto, End, Return, objects, spending, accounts

\* A call that goes on or returns has a well-typed position and verdict.
LEMMA GotoType ==
  ASSUME TypeOK, NEW r \in Run, NEW from, NEW to \in Steps, Goto(r, from, to)
  PROVE  pc' \in [Run -> Steps \union {"idle", "done"}] /\ verdict' \in [Run -> Verdicts]
  BY DEF TypeOK

\* The end of a call keeps the types.
LEMMA EndType ==
  ASSUME TypeOK, NEW r \in Run, NEW v \in Verdicts, End(r, v)
  PROVE  pc' \in [Run -> Steps \union {"idle", "done"}] /\ verdict' \in [Run -> Verdicts]
  BY DEF TypeOK

\* Every step keeps the state well typed.
LEMMA TypeStep ==
  ASSUME IInv, NEW r \in Run, StepsOf(r)
  PROVE  TypeOK'
<1> TypeOK /\ Prepared(r) /\ Bound(r)
  BY DEF IInv, RunInv
<1> USE GateAssumption DEF TypeOK, Steps, AboveTheLine, BelowTheLine, Verdicts, Reports, Ended
<1>1. CASE Begin(r)
  <2>1. PICK c \in Given[r] :
          /\ candidate' = [candidate EXCEPT ![r] = c]
          /\ handoff' = [handoff EXCEPT ![r] = c.custody]
          /\ Goto(r, "idle", "acquire") \/ Return(r, "idle", "refused")
    BY <1>1 DEF Begin
  <2>2. c \in Candidate /\ c.custody \in Intent \union {None}
    BY DEF Candidate
  <2>3. pc' \in [Run -> Steps \union {"idle", "done"}] /\ verdict' \in [Run -> Verdicts]
    <3>1. CASE Goto(r, "idle", "acquire")
      BY <3>1
    <3>2. CASE Return(r, "idle", "refused")
      BY <3>2
    <3> QED
      BY <2>1, <3>1, <3>2
  <2> QED
    BY <1>1, <2>1, <2>2, <2>3 DEF Begin
<1>2. CASE Present(r)
  <2>1. PICK g \in granted, p \in Presented[r] :
          /\ authorization' = [authorization EXCEPT ![r] = g]
          /\ candidate' = [candidate EXCEPT ![r] = p.candidate]
          /\ snapshot' = [snapshot EXCEPT ![r] = [g.snapshot EXCEPT !.evidence = p.evidence]]
          /\ outcome' = [outcome EXCEPT ![r] = p.outcome]
          /\ handoff' = [handoff EXCEPT ![r] = p.handoff]
    BY <1>2 DEF Present
  <2>2. /\ p.candidate \in Candidate /\ p.evidence \in Evidence
        /\ p.outcome \in Outcomes /\ p.handoff \in Intent \union {None}
    BY DEF Presentation
  <2>3. g \in Authorization /\ [g.snapshot EXCEPT !.evidence = p.evidence] \in Snapshot
    BY <2>2 DEF Authorization, Snapshot
  <2> QED
    BY <1>2, <2>1, <2>2, <2>3 DEF Present
<1>3. CASE acquire(r)
  BY <1>3 DEF acquire, Observation
<1>4. CASE Freeze(r)
  <2>1. PICK now \in Time :
          LET o == observation[r]
              s == [evidence |-> o.evidence, acquired |-> o.acquired, frozen |-> now]
              decision == evaluate(candidate[r], s)
          IN  \/ Return(r, "freeze", "refused") /\ UNCHANGED <<snapshot, outcome>>
              \/ /\ snapshot' = [snapshot EXCEPT ![r] = s]
                 /\ outcome' = [outcome EXCEPT ![r] = decision]
                 /\ \/ Return(r, "freeze", "error")
                    \/ Goto(r, "freeze", "negative")
                    \/ Goto(r, "freeze", "grant")
    BY <1>4 DEF Freeze
  <2> DEFINE s == [evidence |-> observation[r].evidence, acquired |-> observation[r].acquired,
                   frozen |-> now]
  <2>2. s \in Snapshot /\ evaluate(candidate[r], s) \in Outcomes
    <3>1. observation[r] \in Observation /\ candidate[r] \in Candidate
      BY <1>4 DEF Freeze, Prepared
    <3> QED
      BY <3>1 DEF Observation, Snapshot, Candidate, evaluate
  <2>3. pc' \in [Run -> Steps \union {"idle", "done"}] /\ verdict' \in [Run -> Verdicts]
    <3>1. \/ Return(r, "freeze", "refused") \/ Return(r, "freeze", "error")
          \/ Goto(r, "freeze", "negative") \/ Goto(r, "freeze", "grant")
      BY <2>1
    <3> QED
      BY <3>1, GotoType, EndType
  <2>4. snapshot' \in [Run -> Snapshot \union {None}] /\ outcome' \in [Run -> Outcomes \union {None}]
    <3>1. \/ UNCHANGED <<snapshot, outcome>>
          \/ /\ snapshot' = [snapshot EXCEPT ![r] = s]
             /\ outcome' = [outcome EXCEPT ![r] = evaluate(candidate[r], s)]
      BY <2>1
    <3> HIDE DEF s
    <3>2. CASE UNCHANGED <<snapshot, outcome>>
      BY <3>2
    <3>3. CASE /\ snapshot' = [snapshot EXCEPT ![r] = s]
               /\ outcome' = [outcome EXCEPT ![r] = evaluate(candidate[r], s)]
      BY <2>2, <3>3
    <3> QED
      BY <3>1, <3>2, <3>3
  <2> QED
    BY <1>4, <2>3, <2>4 DEF Freeze
<1>5. CASE NegativeReceipt(r)
  BY <1>5 DEF NegativeReceipt
<1>6. CASE NegativeReceiptFails(r)
  BY <1>6 DEF NegativeReceiptFails
<1>7. CASE issue_authorization(r)
  <2>1. CASE Return(r, "grant", "refused") /\ UNCHANGED <<authorization, granted>>
    BY <1>7, <2>1 DEF issue_authorization
  <2>2. ASSUME NEW now \in Time, NEW g,
               g = [nonce |-> r, candidate |-> candidate[r], snapshot |-> snapshot[r],
                    issued |-> now],
               Goto(r, "grant", "verify"),
               authorization' = [authorization EXCEPT ![r] = g],
               granted' = granted \union {g}
        PROVE  TypeOK'
    <3>1. g \in Authorization
      BY <2>2 DEF Authorization, Prepared
    <3> QED
      BY <1>7, <2>2, <3>1 DEF issue_authorization
  <2> QED
    BY <1>7, <2>1, <2>2 DEF issue_authorization
<1>8. CASE verify_authorization(r)
  <2>1. pc' \in [Run -> Steps \union {"idle", "done"}] /\ verdict' \in [Run -> Verdicts]
    <3>1. \/ Goto(r, "verify", "consume") \/ Goto(r, "verify", "handoff")
          \/ Return(r, "verify", "refused")
      BY <1>8 DEF verify_authorization
    <3> QED
      BY <3>1, GotoType, EndType
  <2>2. checkedAt' \in [Run -> Time \union {None}]
    <3>1. checkedAt' = checkedAt \/ \E now \in Time : checkedAt' = [checkedAt EXCEPT ![r] = now]
      BY <1>8 DEF verify_authorization
    <3> QED
      BY <3>1
  <2> QED
    BY <1>8, <2>1, <2>2 DEF verify_authorization
<1>9. CASE ValidateHandoff(r)
  BY <1>9, ZenonT(120) DEF ValidateHandoff
<1>10. CASE claim(r)
  <2>1. CASE claimed[handoff[r]] = None
    <3>1. /\ Goto(r, "claim", "consume")
          /\ claimed' = [claimed EXCEPT ![handoff[r]] = r]
      BY <1>10, <2>1 DEF claim
    <3>2. claimed' \in [Intent -> Run \union {None}]
      BY <3>1
    <3> QED
      BY <1>10, <3>1, <3>2 DEF claim
  <2>2. CASE claimed[handoff[r]] # None
    BY <1>10, <2>2, ZenonT(120) DEF claim
  <2> QED
    BY <1>10, <2>1, <2>2 DEF claim
<1>11. CASE ClaimFails(r)
  BY <1>11 DEF ClaimFails
<1>12. CASE RefusedAbove(r)
  BY <1>12 DEF RefusedAbove
<1>13. CASE consume_once(r)
  <2>1. CASE consumed[authorization[r].nonce] = None
    <3>1. /\ Goto(r, "consume", "launch")
          /\ consumed' = [consumed EXCEPT ![authorization[r].nonce] = r]
      BY <1>13, <2>1 DEF consume_once
    <3>2. consumed' \in [Run -> Run \union {None}]
      BY <3>1
    <3> QED
      BY <1>13, <3>1, <3>2 DEF consume_once
  <2>2. CASE consumed[authorization[r].nonce] # None
    BY <1>13, <2>2, ZenonT(120) DEF consume_once
  <2> QED
    BY <1>13, <2>1, <2>2 DEF consume_once
<1>14. CASE ConsumeFails(r)
  <2>1. CASE Return(r, "consume", "commit_conflict")
    BY <1>14, <2>1 DEF ConsumeFails
  <2>2. CASE Return(r, "consume", "os_error")
    <3>1. authorization[r].nonce \in Run
      BY <1>14 DEF ConsumeFails, Bound, Authorization, Presenting
    <3>2. consumed' \in [Run -> Run \union {None}]
      BY <1>14, <3>1 DEF ConsumeFails
    <3> QED
      BY <1>14, <2>2, <3>2 DEF ConsumeFails
  <2> QED
    BY <1>14, <2>1, <2>2 DEF ConsumeFails
<1>15. CASE Launch(r)
  BY <1>15 DEF Launch
<1>16. CASE LaunchFails(r)
  <2>1. pc' \in [Run -> Steps \union {"idle", "done"}] /\ verdict' \in [Run -> Verdicts]
    BY <1>16, GotoType DEF LaunchFails
  <2>2. terminal' \in [Intent -> {None, "NOT_STARTED", "DIRECT_CHILD_ONLY"}]
    BY <1>16 DEF LaunchFails, RecordTerminal
  <2> QED
    BY <1>16, <2>1, <2>2 DEF LaunchFails
<1>17. CASE LaunchRaises(r)
  BY <1>17 DEF LaunchRaises
<1>18. CASE ChildEnds(r)
  BY <1>18 DEF ChildEnds
<1>19. CASE TimesOut(r)
  <2>1. CASE Goto(r, "wait", "terminal")
    BY <1>19, <2>1 DEF TimesOut
  <2>2. CASE Goto(r, "wait", "complete")
    BY <1>19, <2>2 DEF TimesOut
  <2> QED
    BY <1>19, <2>1, <2>2 DEF TimesOut
<1>20. CASE WriteTerminal(r)
  BY <1>20 DEF WriteTerminal, RecordTerminal
<1>21. CASE Complete(r)
  <2>1. CASE Goto(r, "complete", "issue")
    BY <1>21, <2>1 DEF Complete
  <2>2. CASE Return(r, "complete", "failed_acknowledge")
    BY <1>21, <2>2 DEF Complete
  <2> QED
    BY <1>21, <2>1, <2>2 DEF Complete
<1>22. CASE issue_receipt(r)
  <2>1. CASE Goto(r, "issue", "put")
    BY <1>22, <2>1 DEF issue_receipt
  <2>2. CASE Return(r, "issue", "failed_issue")
    BY <1>22, <2>2 DEF issue_receipt
  <2> QED
    BY <1>22, <2>1, <2>2 DEF issue_receipt
<1>23. CASE put_record(r)
  BY <1>23 DEF put_record
<1>24. CASE PutFails(r)
  BY <1>24 DEF PutFails
<1>25. CASE preserve_unrecorded(r)
  BY <1>25, ZenonT(120) DEF preserve_unrecorded
<1>26. CASE Interrupt(r)
  BY <1>26 DEF Interrupt
<1>27. CASE Crash(r)
  BY <1>27 DEF Crash
<1>28. CASE WaitFails(r)
  BY <1>28 DEF WaitFails
<1> QED
  BY <1>1, <1>2, <1>3, <1>4, <1>5, <1>6, <1>7, <1>8, <1>9, <1>10, <1>11, <1>12, <1>13, <1>14, <1>15, <1>16, <1>17, <1>18, <1>19, <1>20, <1>21, <1>22, <1>23, <1>24, <1>25, <1>26, <1>27, <1>28
  DEF StepsOf, _run, execute_authorized_command, OwnStep

\* Every step is confined to its own call.
LEMMA Confined ==
  ASSUME IInv, NEW r \in Run, StepsOf(r)
  PROVE  StepOf(r)
<1> TypeOK
  BY DEF IInv
<1> USE GateAssumption DEF TypeOK, StepOf
<1>1. CASE Begin(r)
  BY <1>1 DEF Begin
<1>2. CASE Present(r)
  BY <1>2 DEF Present
<1>3. CASE acquire(r)
  BY <1>3 DEF acquire
<1>4. CASE Freeze(r)
  BY <1>4 DEF Freeze
<1>5. CASE NegativeReceipt(r)
  BY <1>5 DEF NegativeReceipt
<1>6. CASE NegativeReceiptFails(r)
  BY <1>6 DEF NegativeReceiptFails
<1>7. CASE issue_authorization(r)
  BY <1>7 DEF issue_authorization
<1>8. CASE verify_authorization(r)
  BY <1>8 DEF verify_authorization
<1>9. CASE ValidateHandoff(r)
  BY <1>9 DEF ValidateHandoff
<1>10. CASE claim(r)
  BY <1>10 DEF claim
<1>11. CASE ClaimFails(r)
  BY <1>11 DEF ClaimFails
<1>12. CASE RefusedAbove(r)
  BY <1>12 DEF RefusedAbove
<1>13. CASE consume_once(r)
  BY <1>13 DEF consume_once
<1>14. CASE ConsumeFails(r)
  BY <1>14 DEF ConsumeFails
<1>15. CASE Launch(r)
  BY <1>15 DEF Launch
<1>16. CASE LaunchFails(r)
  BY <1>16 DEF LaunchFails, RecordTerminal
<1>17. CASE LaunchRaises(r)
  BY <1>17 DEF LaunchRaises
<1>18. CASE ChildEnds(r)
  BY <1>18 DEF ChildEnds
<1>19. CASE TimesOut(r)
  BY <1>19 DEF TimesOut
<1>20. CASE WriteTerminal(r)
  BY <1>20 DEF WriteTerminal, RecordTerminal
<1>21. CASE Complete(r)
  BY <1>21 DEF Complete
<1>22. CASE issue_receipt(r)
  BY <1>22 DEF issue_receipt
<1>23. CASE put_record(r)
  BY <1>23 DEF put_record
<1>24. CASE PutFails(r)
  BY <1>24 DEF PutFails
<1>25. CASE preserve_unrecorded(r)
  BY <1>25 DEF preserve_unrecorded
<1>26. CASE Interrupt(r)
  BY <1>26 DEF Interrupt
<1>27. CASE Crash(r)
  BY <1>27 DEF Crash
<1>28. CASE WaitFails(r)
  BY <1>28 DEF WaitFails
<1> QED
  BY <1>1, <1>2, <1>3, <1>4, <1>5, <1>6, <1>7, <1>8, <1>9, <1>10, <1>11, <1>12, <1>13, <1>14, <1>15, <1>16, <1>17, <1>18, <1>19, <1>20, <1>21, <1>22, <1>23, <1>24, <1>25, <1>26, <1>27, <1>28
  DEF StepsOf, _run, execute_authorized_command, OwnStep

\* A freeze refuses, or it leaves evidence in order and a decision to act upon.
FreezeOutcome(r) ==
  \/ pc'[r] = "done" /\ verdict'[r] \in {"refused", "error"}
  \/ /\ verdict'[r] = verdict[r]
     /\ snapshot'[r] \in Snapshot /\ InOrder(snapshot'[r])
     /\ \/ pc'[r] = "grant"
        \/ pc'[r] = "negative" /\ outcome'[r] # "ALLOW"

\* Freezing yields a snapshot with its instants in order, or ends the call.
LEMMA FreezeInOrder ==
  ASSUME TypeOK, NEW r \in Run, Freeze(r), observation[r] \in Observation
  PROVE  FreezeOutcome(r)
<1> DEFINE s(now) == [evidence |-> observation[r].evidence, acquired |-> observation[r].acquired,
                      frozen |-> now]
<1>1. PICK now \in Time :
        IF observation[r].acquired > now \/ now < AdoptedAt
          THEN Return(r, "freeze", "refused")
          ELSE /\ snapshot' = [snapshot EXCEPT ![r] = s(now)]
               /\ outcome' = [outcome EXCEPT ![r] = evaluate(candidate[r], s(now))]
               /\ \/ Return(r, "freeze", "error")
                  \/ evaluate(candidate[r], s(now)) \in {"BLOCK", "HOLD"} /\ Goto(r, "freeze", "negative")
                  \/ Goto(r, "freeze", "grant")
  BY DEF Freeze
<1>2. s(now) \in Snapshot
  BY DEF Observation, Snapshot
<1>3. ~(observation[r].acquired > now \/ now < AdoptedAt) => InOrder(s(now))
  <2>1. observation[r].acquired \in Nat /\ now \in Nat /\ AdoptedAt \in Nat
    BY GateAssumption DEF Observation
  <2>2. s(now).acquired = observation[r].acquired /\ s(now).frozen = now
    OBVIOUS
  <2> QED
    BY <2>1, <2>2 DEF InOrder
<1> HIDE DEF s
<1>4. CASE observation[r].acquired > now \/ now < AdoptedAt
  BY <1>1, <1>4 DEF FreezeOutcome, TypeOK
<1>5. CASE ~(observation[r].acquired > now \/ now < AdoptedAt)
  <2>1. snapshot'[r] = s(now) /\ outcome'[r] = evaluate(candidate[r], s(now))
    BY <1>1, <1>5 DEF TypeOK
  <2>2. CASE Return(r, "freeze", "error")
    BY <2>2 DEF FreezeOutcome, TypeOK
  <2>3. CASE evaluate(candidate[r], s(now)) \in {"BLOCK", "HOLD"} /\ Goto(r, "freeze", "negative")
    BY <1>2, <1>3, <1>5, <2>1, <2>3 DEF FreezeOutcome, TypeOK
  <2>4. CASE Goto(r, "freeze", "grant")
    BY <1>2, <1>3, <1>5, <2>1, <2>4 DEF FreezeOutcome, TypeOK
  <2> QED
    BY <1>1, <1>5, <2>2, <2>3, <2>4
<1> QED
  BY <1>4, <1>5

\* A direct call presents an authorization that was issued.
LEMMA PresentsIssued ==
  ASSUME TypeOK, NEW r \in Run, Present(r)
  PROVE  authorization'[r] \in granted /\ candidate'[r] \in Candidate
<1>1. PICK g \in granted, p \in Presented[r] :
        /\ authorization' = [authorization EXCEPT ![r] = g]
        /\ candidate' = [candidate EXCEPT ![r] = p.candidate]
  BY DEF Present
<1>2. p.candidate \in Candidate
  BY GateAssumption DEF Presentation
<1> QED
  BY <1>1, <1>2 DEF TypeOK

\* Every step keeps what its own call has established.
LEMMA OwnRunInv ==
  ASSUME IInv, NEW r \in Run, StepsOf(r)
  PROVE  RunInv(r)'
<1> TypeOK /\ TypeOK' /\ RunInv(r)
  BY TypeStep DEF IInv
<1> USE GateAssumption DEF TypeOK, RunInv, Presenting, Checked, Claimed, Launched, BelowTheLine,
                           AboveTheLine, Steps, Ended, Reports, Prepared, Bound, Spent, Custodied, ChildState,
                           Accounted
<1>1. CASE Begin(r)
  <2>1. PICK c \in Given[r] :
          /\ candidate' = [candidate EXCEPT ![r] = c]
          /\ handoff' = [handoff EXCEPT ![r] = c.custody]
          /\ Goto(r, "idle", "acquire") \/ Return(r, "idle", "refused")
    BY <1>1 DEF Begin
  <2>2. /\ c \in Candidate /\ candidate'[r] = c /\ handoff'[r] = c.custody
    BY <2>1
  <2>3. CASE Goto(r, "idle", "acquire")
    BY <1>1, <2>2, <2>3 DEF Begin
  <2>4. CASE Return(r, "idle", "refused")
    BY <1>1, <2>2, <2>4 DEF Begin
  <2> QED
    BY <2>1, <2>3, <2>4
<1>2. CASE Present(r)
  <2>3. authorization'[r] \in granted /\ candidate'[r] \in Candidate
    BY <1>2, PresentsIssued
  <2>4. /\ pc[r] = "idle" /\ pc'[r] = "verify" /\ child'[r] = "none" /\ verdict'[r] = "none"
        /\ r \notin receipts' \union unrecorded'
        /\ \A n \in Run : consumed'[n] # r
    BY <1>2 DEF Present
  <2> QED
    BY <1>2, <2>3, <2>4 DEF Present
<1>3. CASE acquire(r)
  BY <1>3 DEF Observation, acquire
<1>4. CASE Freeze(r)
  <2>1. FreezeOutcome(r)
    BY <1>4, FreezeInOrder DEF Freeze
  <2>2. /\ candidate[r] \in Candidate
        /\ child[r] = "none" /\ r \notin receipts \union unrecorded
        /\ \A n \in Run : consumed[n] # r
    BY <1>4 DEF Freeze
  <2> QED
    BY <1>4, <2>1, <2>2 DEF Freeze, FreezeOutcome
<1>5. CASE NegativeReceipt(r)
  BY <1>5 DEF NegativeReceipt
<1>6. CASE NegativeReceiptFails(r)
  BY <1>6 DEF NegativeReceiptFails
<1>7. CASE issue_authorization(r)
  BY <1>7 DEF issue_authorization
<1>8. CASE verify_authorization(r)
  BY <1>8 DEF verify_authorization, Verified, expires_at
<1>9. CASE ValidateHandoff(r)
  BY <1>9 DEF ValidateHandoff, ValidHandoff
<1>10. CASE claim(r)
  BY <1>10 DEF claim
<1>11. CASE ClaimFails(r)
  BY <1>11 DEF ClaimFails
<1>12. CASE RefusedAbove(r)
  BY <1>12 DEF RefusedAbove
<1>13. CASE consume_once(r)
  <2>1. authorization[r] \in granted /\ authorization[r].nonce \in Run
    BY <1>13 DEF consume_once, Authorization
  <2>2. CASE consumed[authorization[r].nonce] = None
    <3>1. /\ pc'[r] = "launch" /\ verdict' = verdict
          /\ consumed' = [consumed EXCEPT ![authorization[r].nonce] = r]
      BY <1>13, <2>2 DEF consume_once
    <3> QED
      BY <1>13, <2>1, <3>1 DEF consume_once
  <2>3. CASE consumed[authorization[r].nonce] # None
    BY <1>13, <2>1, <2>3 DEF consume_once
  <2> QED
    BY <2>2, <2>3
<1>14. CASE ConsumeFails(r)
  BY <1>14 DEF ConsumeFails
<1>15. CASE Launch(r)
  BY <1>15 DEF Launch
<1>16. CASE LaunchFails(r)
  BY <1>16 DEF LaunchFails, RecordTerminal
<1>17. CASE LaunchRaises(r)
  BY <1>17 DEF LaunchRaises
<1>18. CASE ChildEnds(r)
  BY <1>18 DEF ChildEnds
<1>19. CASE TimesOut(r)
  BY <1>19 DEF TimesOut
<1>20. CASE WriteTerminal(r)
  BY <1>20 DEF WriteTerminal, RecordTerminal
<1>21. CASE Complete(r)
  BY <1>21 DEF Complete
<1>22. CASE issue_receipt(r)
  BY <1>22 DEF issue_receipt
<1>23. CASE put_record(r)
  BY <1>23 DEF put_record
<1>24. CASE PutFails(r)
  BY <1>24 DEF PutFails
<1>25. CASE preserve_unrecorded(r)
  BY <1>25 DEF preserve_unrecorded
<1>26. CASE Interrupt(r)
  BY <1>26 DEF Interrupt
<1>27. CASE Crash(r)
  BY <1>27 DEF Crash
<1>28. CASE WaitFails(r)
  BY <1>28 DEF WaitFails
<1> QED
  BY <1>1, <1>2, <1>3, <1>4, <1>5, <1>6, <1>7, <1>8, <1>9, <1>10, <1>11, <1>12, <1>13, <1>14, <1>15, <1>16, <1>17, <1>18, <1>19, <1>20, <1>21, <1>22, <1>23, <1>24, <1>25, <1>26, <1>27, <1>28
  DEF StepsOf, _run, execute_authorized_command, OwnStep

\* What is issued is dated no earlier than its evidence was frozen.
LEMMA GrantedStep ==
  ASSUME IInv, NEW r \in Run, StepsOf(r)
  PROVE  GrantedInOrder'
<1> USE DEF IInv, GrantedInOrder
<1>1. CASE issue_authorization(r)
  <2>1. InOrder(snapshot[r])
    BY <1>1 DEF issue_authorization, RunInv, Prepared
  <2> QED
    BY <1>1, <2>1 DEF issue_authorization, Issuable
<1>2. CASE granted' = granted
  BY <1>2
<1> QED
  BY <1>1, <1>2
  DEF StepsOf, _run, execute_authorized_command, OwnStep, Begin, Present, acquire, Freeze,
      NegativeReceipt, NegativeReceiptFails, verify_authorization, ValidateHandoff, claim,
      ClaimFails, RefusedAbove, consume_once, ConsumeFails, Launch, LaunchFails, LaunchRaises,
      ChildEnds, TimesOut, WaitFails, WriteTerminal, Complete, issue_receipt, put_record, PutFails,
      preserve_unrecorded, Interrupt, Crash

\* A terminal record is written by the call that claimed the intent, once its child
\* is known not to have started or to have ended; neither changes after that.
LEMMA TerminalStep ==
  ASSUME IInv, NEW r \in Run, StepsOf(r)
  PROVE  TerminalIsTruthful'
<1> SUFFICES ASSUME NEW i \in Intent, terminal'[i] # None
             PROVE  /\ claimed'[i] # None
                    /\ child'[claimed'[i]] \in
                         (IF terminal'[i] = "NOT_STARTED" THEN {"could_not_start"} ELSE Ended)
  BY DEF TerminalIsTruthful
<1> TypeOK /\ StepOf(r) /\ RunInv(r)
  BY Confined DEF IInv
<1>1. CASE terminal[i] # None
  <2>1. /\ claimed[i] \in Run /\ claimed'[i] = claimed[i] /\ terminal'[i] = terminal[i]
        /\ child[claimed[i]] \in
             (IF terminal[i] = "NOT_STARTED" THEN {"could_not_start"} ELSE Ended)
    BY <1>1 DEF IInv, TerminalIsTruthful, StepOf, TypeOK
  <2>2. child'[claimed[i]] = child[claimed[i]]
    <3>1. CASE claimed[i] # r
      BY <2>1, <3>1 DEF StepOf
    <3>2. CASE claimed[i] = r
      <4>1. child[r] \notin {"none", "running"}
        BY <2>1, <3>2 DEF Ended
      <4> QED
        BY <4>1, <3>2
        DEF RunInv, ChildState, Launched, BelowTheLine,
            StepsOf, _run, execute_authorized_command, OwnStep, Begin, Present, acquire, Freeze,
            NegativeReceipt, NegativeReceiptFails, issue_authorization, verify_authorization,
            ValidateHandoff, claim, ClaimFails, RefusedAbove, consume_once, ConsumeFails, Launch,
            LaunchFails, LaunchRaises, ChildEnds, TimesOut, WaitFails, WriteTerminal, Complete,
            issue_receipt, put_record, PutFails, preserve_unrecorded, Interrupt, Crash
    <3> QED
      BY <3>1, <3>2
  <2> QED
    BY <2>1, <2>2, GateAssumption
<1>2. CASE terminal[i] = None
  <2>1. handoff[r] = i /\ i # None
    BY <1>2, GateAssumption DEF StepOf
  <2>2. \/ LaunchFails(r) /\ terminal'[i] = "NOT_STARTED"
        \/ WriteTerminal(r) /\ terminal'[i] = "DIRECT_CHILD_ONLY"
    <3>1. LaunchFails(r) \/ WriteTerminal(r)
      BY <1>2
      DEF StepsOf, _run, execute_authorized_command, OwnStep, Begin, Present, acquire, Freeze,
          NegativeReceipt, NegativeReceiptFails, issue_authorization, verify_authorization,
          ValidateHandoff, claim, ClaimFails, RefusedAbove, consume_once, ConsumeFails, Launch,
          LaunchRaises, ChildEnds, TimesOut, WaitFails, Complete,
          issue_receipt, put_record, PutFails, preserve_unrecorded, Interrupt, Crash
    <3> QED
      BY <1>2, <2>1, <3>1 DEF LaunchFails, WriteTerminal, RecordTerminal, TypeOK
  <2>3. claimed[i] = r /\ claimed'[i] = r /\ r # None
    BY <2>1, <2>2, GateAssumption
    DEF LaunchFails, WriteTerminal, RunInv, Custodied, Claimed, BelowTheLine
  <2> QED
    BY <2>2, <2>3 DEF LaunchFails, WriteTerminal, RunInv, ChildState, TypeOK
<1> QED
  BY <1>1, <1>2

\* The invariant is inductive.
LEMMA NextIInv == IInv /\ [Next]_vars => IInv'
<1> SUFFICES ASSUME IInv, [Next]_vars PROVE IInv'
  OBVIOUS
<1>1. ASSUME NEW r \in Run, StepsOf(r) PROVE IInv'
  <2>1. \A s \in Run : RunInv(s)'
    BY <1>1, Confined, Framed, OwnRunInv
  <2> QED
    BY <1>1, <2>1, TypeStep, GrantedStep, TerminalStep DEF IInv
<1>2. CASE UNCHANGED vars
  BY <1>2
  DEF vars, IInv, TypeOK, GrantedInOrder, TerminalIsTruthful, RunInv, Prepared, Bound, Spent,
      Custodied, ChildState, Accounted, evaluate, InOrder
<1> QED
  BY <1>1, <1>2 DEF Next, StepsOf

\* The invariant of the gated run.
LEMMA Inductive == Spec => []IInv
  BY InitIInv, NextIInv, PTL DEF Spec
--------------------------------------------------------------------------------
(* Theorems                                                                     *)

\* Every variable of a gated run has its type.
THEOREM TypeCorrect == Spec => []TypeOK
  BY Inductive, PTL DEF IInv

\* LaunchIsAuthorized for any number of calls and any gate: a process runs only on
\* an authorization that its own call verified against the objects it launches
\* with, and spent (execute_authorized_command).
THEOREM LaunchAuthorized == Spec => []LaunchIsAuthorized
<1>1. IInv => InstantsAreMonotone
  BY DEF IInv, RunInv, Bound, GrantedInOrder, InOrder, InstantsAreMonotone
<1>2. IInv => LaunchIsAuthorized
  BY <1>1 DEF IInv, RunInv, Bound, Spent, LaunchIsAuthorized
<1> QED
  BY <1>2, Inductive, PTL

\* InstantsAreMonotone for any clock: build_snapshot, issue_authorization and
\* verify_authorization leave no launch whose instants are out of order.
THEOREM InstantsMonotone == Spec => []InstantsAreMonotone
<1>1. IInv => InstantsAreMonotone
  BY DEF IInv, RunInv, Bound, GrantedInOrder, InOrder, InstantsAreMonotone
<1> QED
  BY <1>1, Inductive, PTL

\* One authorization starts at most one process, because its nonce was spent by
\* the call that launched.
THEOREM OneLaunch == Spec => []OneLaunchPerAuthorization
<1>1. IInv => OneLaunchPerAuthorization
  BY DEF IInv, RunInv, Spent, OneLaunchPerAuthorization
<1> QED
  BY <1>1, Inductive, PTL

\* OneDispatchPerIntent: the exclusive creation in Handoff.claim lets one call
\* launch under an intent, and no call launches under custody without a claim.
THEOREM OneDispatch == Spec => []OneDispatchPerIntent
<1>1. IInv => OneDispatchPerIntent
  BY DEF IInv, RunInv, Custodied, OneDispatchPerIntent
<1> QED
  BY <1>1, Inductive, PTL

\* TerminalIsTruthful: Handoff.terminal never contradicts what became of the child
\* of the call that claimed the intent.
THEOREM TerminalTruthful == Spec => []TerminalIsTruthful
  BY Inductive, PTL DEF IInv

\* RefusalIsFree: whatever is decided or refused above the line spends nothing and
\* starts nothing.
THEOREM RefusalFree == Spec => []RefusalIsFree
<1>1. IInv => RefusalIsFree
  <2> SUFFICES ASSUME IInv, NEW r \in Run,
                      \/ verdict[r] \in {"refused", "error", "decided"}
                      \/ outcome[r] \in {"BLOCK", "HOLD", "ERROR"}
               PROVE  /\ child[r] = "none"
                      /\ \A n \in Run : consumed[n] # r
                      /\ r \notin unrecorded
    BY DEF RefusalIsFree
  <2>1. child[r] = "none"
    BY DEF IInv, RunInv, ChildState, Bound, Accounted, Reports, Launched, BelowTheLine
  <2>2. \A n \in Run : consumed[n] # r
    BY DEF IInv, RunInv, Spent
  <2>3. r \notin unrecorded
    BY <2>1 DEF IInv, RunInv, Accounted
  <2> QED
    BY <2>1, <2>2, <2>3
<1> QED
  BY <1>1, Inductive, PTL

\* ExecutionIsReported: whoever launched is told so by execute_authorized_command,
\* unless it is killed or the wait for its child raises, and is told that the receipt
\* is kept only if it is.
THEOREM ExecutionReported == Spec => []ExecutionIsReported
<1>1. IInv => ExecutionIsReported
  BY DEF IInv, RunInv, Accounted, ExecutionIsReported
<1> QED
  BY <1>1, Inductive, PTL

\* ReceiptOfASpend: a stored or preserved receipt of an ALLOW belongs to a call that
\* spent its nonce and tried to launch.
THEOREM ReceiptsOfSpends == Spec => []ReceiptOfASpend
<1>1. IInv => ReceiptOfASpend
  BY DEF IInv, TypeOK, RunInv, Accounted, Spent, ReceiptOfASpend
<1> QED
  BY <1>1, Inductive, PTL

\* SpendingIsFinal: no step takes back a spent nonce, a claimed intent or a
\* terminal record.
THEOREM SpendingFinal == Spec => SpendingIsFinal
<1>1. ASSUME IInv, [Next]_vars
      PROVE  [/\ \A n \in Run : consumed[n] # None => consumed'[n] = consumed[n]
              /\ \A i \in Intent : claimed[i] # None => claimed'[i] = claimed[i]
              /\ \A i \in Intent : terminal[i] # None => terminal'[i] = terminal[i]]_vars
  <2>1. ASSUME NEW r \in Run, StepsOf(r)
        PROVE  /\ \A n \in Run : consumed[n] # None => consumed'[n] = consumed[n]
               /\ \A i \in Intent : claimed[i] # None => claimed'[i] = claimed[i]
               /\ \A i \in Intent : terminal[i] # None => terminal'[i] = terminal[i]
    BY <1>1, <2>1, Confined DEF StepOf
  <2> QED
    BY <1>1, <2>1 DEF Next, StepsOf
<1> QED
  BY <1>1, Inductive, PTL DEF Spec, SpendingIsFinal

\* A call that spent and was not killed says so.
SaysSo ==
  \A r \in Run :
    pc[r] = "done" /\ (\E n \in Run : consumed[n] = r) =>
      verdict[r] \in Reports \union {"interrupted", "crashed"}

\* SpentSaysSo where no file-system call fails and every environment can be handed
\* to a process: those are the only two ways below the line to a plain error.
THEOREM SpendReported ==
  ASSUME ~Faults, BadEnvironment = {}
  PROVE  Spec => []SpentSaysSo
<1>1. Init => SaysSo
  BY DEF Init, SaysSo
<1>2. ASSUME IInv, SaysSo, [Next]_vars PROVE SaysSo'
  <2>1. ASSUME NEW r \in Run, StepsOf(r) PROVE SaysSo'
    <3>1. TypeOK /\ StepOf(r) /\ RunInv(r)
      BY <1>2, <2>1, Confined DEF IInv
    <3>2. ASSUME NEW s \in Run \ {r}, NEW n \in Run, pc'[s] = "done", consumed'[n] = s
          PROVE  verdict'[s] \in Reports \union {"interrupted", "crashed"}
      BY <1>2, <3>1, <3>2 DEF SaysSo, StepOf
    <3>3. ASSUME NEW n \in Run, pc'[r] = "done", consumed'[n] = r
          PROVE  verdict'[r] \in Reports \union {"interrupted", "crashed"}
      <4>1. ~ConsumeFails(r) /\ ~LaunchRaises(r) /\ ~WaitFails(r)
        BY DEF ConsumeFails, LaunchRaises, WaitFails
      <4>2. ~consume_once(r)
        BY <3>1, <3>3 DEF consume_once, TypeOK, RunInv, Spent, BelowTheLine
      <4>3. consumed[n] = r
        BY <2>1, <3>3, <4>1, <4>2
        DEF StepsOf, _run, execute_authorized_command, OwnStep, Begin, Present, acquire, Freeze,
            NegativeReceipt, NegativeReceiptFails, issue_authorization, verify_authorization,
            ValidateHandoff, claim, ClaimFails, RefusedAbove, Launch, LaunchFails, ChildEnds,
            TimesOut, WaitFails, WriteTerminal, Complete, issue_receipt, put_record, PutFails,
            preserve_unrecorded, Interrupt, Crash
      <4>4. pc[r] \in BelowTheLine \union {"done"}
        BY <3>1, <4>3 DEF RunInv, Spent
      <4>5. \/ Launch(r) \/ LaunchFails(r) \/ ChildEnds(r) \/ TimesOut(r) \/ WriteTerminal(r)
            \/ Complete(r) \/ issue_receipt(r) \/ put_record(r) \/ PutFails(r)
            \/ preserve_unrecorded(r) \/ Interrupt(r) \/ Crash(r)
        BY <2>1, <4>1, <4>2, <4>4
        DEF StepsOf, _run, execute_authorized_command, OwnStep, Begin, Present, acquire, Freeze,
            NegativeReceipt, NegativeReceiptFails, issue_authorization, verify_authorization,
            ValidateHandoff, claim, ClaimFails, RefusedAbove, BelowTheLine, AboveTheLine
      <4> QED
        BY <3>1, <3>3, <4>5
        DEF Launch, LaunchFails, ChildEnds, TimesOut, WriteTerminal, Complete, issue_receipt,
            put_record, PutFails, preserve_unrecorded, Interrupt, Crash, TypeOK, Reports
    <3> QED
      BY <3>2, <3>3 DEF SaysSo
  <2>2. CASE UNCHANGED vars
    BY <1>2, <2>2 DEF vars, SaysSo
  <2> QED
    BY <1>2, <2>1, <2>2 DEF Next, StepsOf
<1>3. SaysSo => SpentSaysSo
  BY DEF SaysSo, SpentSaysSo
<1> QED
  BY <1>1, <1>2, <1>3, Inductive, PTL DEF Spec
--------------------------------------------------------------------------------
(* The run spends through SingleUse                                             *)

Unissued == {"idle", "acquire", "freeze", "negative", "grant"}

\* A nonce is drawn once, by the call it is named after, so that the nonce tells
\* one authorization from another.
NoncesUnique ==
  /\ \A g \in granted : pc[g.nonce] \notin Unissued
  /\ \A g, h \in granted : g.nonce = h.nonce => g = h

\* A call asks for the spend when its verification is behind it.
AsksVerified ==
  \A r \in Run :
    /\ pc[r] \in Unissued \union {"verify"} => checkedAt[r] = None
    /\ checkedAt[r] # None => authorization[r] \in granted

RInv == NoncesUnique /\ AsksVerified

\* Nothing is issued or asked for before any call.
LEMMA InitRInv == Init => RInv
  BY DEF Init, RInv, NoncesUnique, AsksVerified

\* A position past the issue is never left for one before it.
LEMMA IssuedStays ==
  ASSUME IInv, NEW r \in Run, StepsOf(r), NEW n \in Run, pc[n] \notin Unissued
  PROVE  pc'[n] \notin Unissued
<1> TypeOK /\ StepOf(r)
  BY Confined DEF IInv
<1>1. CASE n # r
  BY <1>1 DEF StepOf
<1>2. CASE n = r
  BY <1>2, SMTT(30)
  DEF TypeOK, Unissued,
      StepsOf, _run, execute_authorized_command, OwnStep, Begin, Present, acquire, Freeze,
        NegativeReceipt, NegativeReceiptFails, issue_authorization, verify_authorization,
        ValidateHandoff, claim, ClaimFails, RefusedAbove, consume_once, ConsumeFails, Launch,
        LaunchFails, LaunchRaises, ChildEnds, TimesOut, WaitFails, WriteTerminal, Complete,
        issue_receipt, put_record, PutFails, preserve_unrecorded, Interrupt, Crash
<1> QED
  BY <1>1, <1>2

\* Nothing but a verification dates a call, and a verified call keeps its
\* authorization.
LEMMA VerifiedStays ==
  ASSUME TypeOK, NEW r \in Run, StepsOf(r), ~verify_authorization(r)
  PROVE  /\ checkedAt' = checkedAt
         /\ pc[r] \notin Unissued \union {"verify"} =>
              pc'[r] \notin Unissued \union {"verify"} /\ authorization' = authorization
<1>1. checkedAt' = checkedAt
  BY
  DEF StepsOf, _run, execute_authorized_command, OwnStep, Begin, Present, acquire, Freeze,
      NegativeReceipt, NegativeReceiptFails, issue_authorization,
      ValidateHandoff, claim, ClaimFails, RefusedAbove, consume_once, ConsumeFails, Launch,
      LaunchFails, LaunchRaises, ChildEnds, TimesOut, WaitFails, WriteTerminal, Complete,
      issue_receipt, put_record, PutFails, preserve_unrecorded, Interrupt, Crash
<1>2. pc[r] \notin {"idle", "grant"} => authorization' = authorization
  BY
  DEF StepsOf, _run, execute_authorized_command, OwnStep, Begin, Present, acquire, Freeze,
      NegativeReceipt, NegativeReceiptFails, issue_authorization,
      ValidateHandoff, claim, ClaimFails, RefusedAbove, consume_once, ConsumeFails, Launch,
      LaunchFails, LaunchRaises, ChildEnds, TimesOut, WaitFails, WriteTerminal, Complete,
      issue_receipt, put_record, PutFails, preserve_unrecorded, Interrupt, Crash
<1>3. pc[r] \notin Unissued \union {"verify"} => pc'[r] \notin Unissued \union {"verify"}
  BY SMTT(30)
  DEF TypeOK, Unissued,
      StepsOf, _run, execute_authorized_command, OwnStep, Begin, Present, acquire, Freeze,
      NegativeReceipt, NegativeReceiptFails, issue_authorization,
      ValidateHandoff, claim, ClaimFails, RefusedAbove, consume_once, ConsumeFails, Launch,
      LaunchFails, LaunchRaises, ChildEnds, TimesOut, WaitFails, WriteTerminal, Complete,
      issue_receipt, put_record, PutFails, preserve_unrecorded, Interrupt, Crash
<1> QED
  BY <1>1, <1>2, <1>3 DEF Unissued

\* The invariant of the mapping is inductive.
LEMMA NextRInv ==
  ASSUME IInv, RInv, NEW r \in Run, StepsOf(r)
  PROVE  RInv'
<1> TypeOK /\ TypeOK' /\ StepOf(r) /\ RunInv(r)
  BY Confined, TypeStep DEF IInv
<1>1. NoncesUnique'
  <2>1. CASE granted' = granted
    BY <2>1, IssuedStays DEF RInv, NoncesUnique, TypeOK, Authorization
  <2>2. CASE granted' # granted
    <3>1. issue_authorization(r)
      BY <2>2
      DEF StepsOf, _run, execute_authorized_command, OwnStep, Begin, Present, acquire, Freeze,
          NegativeReceipt, NegativeReceiptFails, verify_authorization,
          ValidateHandoff, claim, ClaimFails, RefusedAbove, consume_once, ConsumeFails, Launch,
          LaunchFails, LaunchRaises, ChildEnds, TimesOut, WaitFails, WriteTerminal, Complete,
          issue_receipt, put_record, PutFails, preserve_unrecorded, Interrupt, Crash
    <3>2. pc[r] = "grant" /\ pc'[r] = "verify"
      BY <2>2, <3>1 DEF issue_authorization, TypeOK
    <3>3. PICK g : granted' = granted \union {g} /\ g.nonce = r
      BY <2>2, <3>1 DEF issue_authorization
    <3>4. \A h \in granted : h.nonce \in Run /\ h.nonce # r /\ pc'[h.nonce] \notin Unissued
      BY <3>2, IssuedStays DEF RInv, NoncesUnique, TypeOK, Authorization, Unissued
    <3> QED
      BY <3>2, <3>3, <3>4 DEF RInv, NoncesUnique, Unissued
  <2> QED
    BY <2>1, <2>2
<1>2. AsksVerified'
  <2>1. ASSUME NEW s \in Run \ {r}
        PROVE  /\ pc'[s] \in Unissued \union {"verify"} => checkedAt'[s] = None
               /\ checkedAt'[s] # None => authorization'[s] \in granted'
    BY DEF RInv, AsksVerified, StepOf
  <2>2. /\ pc'[r] \in Unissued \union {"verify"} => checkedAt'[r] = None
        /\ checkedAt'[r] # None => authorization'[r] \in granted'
    <3>1. CASE verify_authorization(r)
      BY <3>1
      DEF verify_authorization, RInv, AsksVerified, TypeOK, Unissued, RunInv, Bound, Presenting
    <3>2. CASE ~verify_authorization(r)
      <4>1. checkedAt' = checkedAt
        BY <3>2, VerifiedStays
      <4>2. CASE pc[r] \in Unissued \union {"verify"}
        BY <4>1, <4>2 DEF RInv, AsksVerified
      <4>3. CASE pc[r] \notin Unissued \union {"verify"}
        BY <3>2, <4>1, <4>3, VerifiedStays DEF RInv, AsksVerified, StepOf
      <4> QED
        BY <4>2, <4>3
    <3> QED
      BY <3>1, <3>2
  <2> QED
    BY <2>1, <2>2 DEF AsksVerified
<1> QED
  BY <1>1, <1>2 DEF RInv

\* Only the entry of the call that steps may change in what it asked and was told.
LEMMA AskedReplied ==
  ASSUME NEW r \in Run, StepOf(r)
  PROVE  /\ Asked'[r] = Asked[r] => Asked' = Asked
         /\ Reply'[r] = Reply[r] => Reply' = Reply
         /\ Asked' = [Asked EXCEPT ![r] = Asked'[r]]
         /\ Reply' = [Reply EXCEPT ![r] = Reply'[r]]
<1>1. \A s \in Run \ {r} : Asked'[s] = Asked[s]
  BY DEF Asked, StepOf
<1>2. \A s \in Run \ {r} : Reply'[s] = Reply[s]
  BY DEF Reply, StepOf
<1>3. /\ Asked = [s \in Run |-> Asked[s]] /\ Asked' = [s \in Run |-> Asked'[s]]
  BY DEF Asked
<1>4. /\ Reply = [s \in Run |-> Reply[s]] /\ Reply' = [s \in Run |-> Reply'[s]]
  BY DEF Reply
<1>5. Asked' = [Asked EXCEPT ![r] = Asked'[r]] /\ (Asked'[r] = Asked[r] => Asked' = Asked)
  BY <1>1, <1>3
<1>6. Reply' = [Reply EXCEPT ![r] = Reply'[r]] /\ (Reply'[r] = Reply[r] => Reply' = Reply)
  BY <1>2, <1>4
<1> QED
  BY <1>5, <1>6

\* A verified call that has not been answered is pending on its own nonce.
LEMMA PendingOnNonce ==
  ASSUME IInv, RInv, NEW r \in Run, checkedAt[r] # None, Reply[r] = "pending"
  PROVE  /\ authorization[r].nonce \in Run
         /\ Consumption!Pending(r, authorization[r].nonce)
<1>1. authorization[r] \in Authorization
  BY DEF IInv, TypeOK, RInv, AsksVerified
<1>2. authorization[r].nonce \in Run
  BY <1>1 DEF Authorization
<1>3. Asked[r] = authorization[r]
  BY DEF Asked
<1> QED
  BY <1>1, <1>2, <1>3, GateAssumption DEF Consumption!Pending
\* Apart from a successful verification, no step changes what a call asked for.
LEMMA AskedStays ==
  ASSUME IInv, RInv, NEW r \in Run, StepsOf(r),
         ~(verify_authorization(r) /\ checkedAt'[r] # None)
  PROVE  Asked'[r] = Asked[r] /\ checkedAt'[r] = checkedAt[r]
<1> TypeOK
  BY DEF IInv
<1>1. CASE verify_authorization(r)
  <2>1. checkedAt' = checkedAt /\ authorization' = authorization
    BY <1>1, GateAssumption DEF verify_authorization, TypeOK
  <2> QED
    BY <2>1 DEF Asked
<1>2. CASE ~verify_authorization(r)
  BY <1>2, VerifiedStays DEF Asked, RInv, AsksVerified
<1> QED
  BY <1>1, <1>2

\* The steps that answer a call: its launch, a refused or failed consumption, and
\* its death after the verification.
LEMMA Answering ==
  ASSUME IInv, RInv, NEW r \in Run, StepsOf(r), Reply'[r] # Reply[r],
         ~(verify_authorization(r) /\ checkedAt'[r] # None)
  PROVE  /\ \/ Launch(r) \/ LaunchFails(r) \/ LaunchRaises(r) \/ consume_once(r)
            \/ ConsumeFails(r) \/ Interrupt(r) \/ Crash(r)
         /\ child[r] = "none" /\ checkedAt[r] # None /\ pc[r] # "done"
<1> TypeOK /\ RunInv(r) /\ checkedAt'[r] = checkedAt[r]
  BY AskedStays DEF IInv
<1>1. CASE child[r] # "none"
  <2>1. child'[r] # "none"
    BY <1>1
    DEF TypeOK,
        StepsOf, _run, execute_authorized_command, OwnStep, Begin, Present, acquire, Freeze,
        NegativeReceipt, NegativeReceiptFails, issue_authorization,
        ValidateHandoff, claim, ClaimFails, RefusedAbove, consume_once, ConsumeFails, Launch,
        LaunchFails, LaunchRaises, ChildEnds, TimesOut, WaitFails, WriteTerminal, Complete,
        issue_receipt, put_record, PutFails, preserve_unrecorded, Interrupt, Crash, verify_authorization
  <2> QED
    BY <1>1, <2>1 DEF Reply
<1>2. CASE child[r] = "none"
  <2>1. pc[r] # "done"
    BY
    DEF StepsOf, _run, execute_authorized_command, OwnStep, Begin, Present, acquire, Freeze,
        NegativeReceipt, NegativeReceiptFails, issue_authorization,
        ValidateHandoff, claim, ClaimFails, RefusedAbove, consume_once, ConsumeFails, Launch,
        LaunchFails, LaunchRaises, ChildEnds, TimesOut, WaitFails, WriteTerminal, Complete,
        issue_receipt, put_record, PutFails, preserve_unrecorded, Interrupt, Crash, verify_authorization, Steps, AboveTheLine, BelowTheLine
  <2>2. verdict[r] = "none"
    BY <2>1 DEF RunInv, ChildState
  <2>3. pc[r] \notin Launched
    BY <1>2 DEF RunInv, ChildState
  <2>4. \/ Launch(r) \/ LaunchFails(r) \/ LaunchRaises(r) \/ consume_once(r)
        \/ ConsumeFails(r) \/ Interrupt(r) \/ Crash(r)
        \/ child' = child /\ verdict'[r] \in {"none", "refused", "error", "decided"}
    BY <2>2, <2>3, ZenonT(120)
    DEF TypeOK, Launched, BelowTheLine,
        StepsOf, _run, execute_authorized_command, OwnStep, Begin, Present, acquire, Freeze,
        NegativeReceipt, NegativeReceiptFails, issue_authorization, verify_authorization,
        ValidateHandoff, claim, ClaimFails, RefusedAbove,
        ChildEnds, TimesOut, WaitFails, WriteTerminal, Complete,
        issue_receipt, put_record, PutFails, preserve_unrecorded
  <2>5. CASE child' = child /\ verdict'[r] \in {"none", "refused", "error", "decided"}
    BY <1>2, <2>2, <2>5 DEF Reply
  <2>6. CASE checkedAt[r] = None
    <3>1. pc[r] \notin {"consume", "launch"}
      BY <2>6, GateAssumption DEF RunInv, Bound, Checked, BelowTheLine
    <3> QED
      BY <1>2, <2>2, <2>4, <2>5, <2>6, <3>1
      DEF Launch, LaunchFails, LaunchRaises, consume_once, ConsumeFails, Interrupt, Crash, Reply,
          TypeOK
  <2> QED
    BY <1>2, <2>1, <2>4, <2>5, <2>6
<1> QED
  BY <1>1, <1>2

\* Every step of a run is a step of SingleUse or leaves its state alone.
LEMMA SpendStep ==
  ASSUME IInv, RInv, NEW r \in Run, StepsOf(r)
  PROVE  [Consumption!Next]_(Consumption!vars)
<1> TypeOK /\ StepOf(r) /\ RunInv(r)
  BY Confined DEF IInv
<1> DEFINE n == authorization[r].nonce
<1> USE GateAssumption
<1>1. CASE verify_authorization(r) /\ checkedAt'[r] # None
  <2>1. /\ checkedAt[r] = None /\ Reply[r] = "pending" /\ Reply'[r] = "pending"
        /\ authorization' = authorization /\ consumed' = consumed
    BY <1>1
    DEF verify_authorization, RInv, AsksVerified, Reply, RunInv, ChildState, Launched,
        BelowTheLine, TypeOK
  <2>2. Asked[r] = None /\ Asked'[r] = authorization[r] /\ authorization[r] \in Authorization
    BY <1>1, <2>1
    DEF Asked, verify_authorization, RunInv, Bound, Presenting, TypeOK
  <2>3. Consumption!Ask(r)
    BY <2>1, <2>2, AskedReplied DEF Consumption!Ask
  <2> QED
    BY <2>3 DEF Consumption!Next
<1>2. CASE consumed' # consumed
  <2>1. consume_once(r) \/ ConsumeFails(r)
    BY <1>2
    DEF StepsOf, _run, execute_authorized_command, OwnStep, Begin, Present, acquire, Freeze,
        NegativeReceipt, NegativeReceiptFails, issue_authorization, verify_authorization,
        ValidateHandoff, claim, ClaimFails, RefusedAbove, Launch, LaunchFails, LaunchRaises,
        ChildEnds, TimesOut, WaitFails, WriteTerminal, Complete, issue_receipt, put_record, PutFails,
        preserve_unrecorded, Interrupt, Crash
  <2>2. /\ pc[r] = "consume" /\ consumed[n] = None /\ consumed' = [consumed EXCEPT ![n] = r]
        /\ verdict'[r] = verdict[r] \/ verdict'[r] = "os_error"
        /\ UNCHANGED <<authorization, checkedAt, child>>
    BY <1>2, <2>1 DEF consume_once, ConsumeFails, TypeOK
  <2>3. checkedAt[r] # None /\ child[r] = "none" /\ verdict[r] = "none"
    BY <2>2 DEF RunInv, Bound, Checked, ChildState, Launched, BelowTheLine
  <2>4. Reply[r] = "pending" /\ Reply'[r] = "pending" /\ Asked'[r] = Asked[r]
    BY <2>2, <2>3 DEF Reply, Asked
  <2>5. Consumption!Spend(r)
    BY <2>2, <2>3, <2>4, AskedReplied, PendingOnNonce DEF Consumption!Spend
  <2> QED
    BY <2>5 DEF Consumption!Next
<1>3. CASE /\ UNCHANGED consumed /\ Reply'[r] # Reply[r]
           /\ ~(verify_authorization(r) /\ checkedAt'[r] # None)
  <2> HIDE DEF n
  <2>a. /\ Asked'[r] = Asked[r]
        /\ child[r] = "none" /\ checkedAt[r] # None /\ pc[r] # "done"
    BY <1>3, AskedStays, Answering
  <2>1. verdict[r] = "none" /\ Reply[r] = "pending"
    BY <2>a DEF RunInv, ChildState, Reply
  <2>2. \/ Reply'[r] = "consumed" /\ consumed[n] = r
        \/ Reply'[r] = "nonce_reused" /\ consumed[n] \notin {None, r}
        \/ Reply'[r] \in {"commit_conflict", "interrupted", "crashed"}
    <3>1. CASE Launch(r) \/ LaunchFails(r) \/ LaunchRaises(r)
      BY <2>a, <3>1
      DEF Launch, LaunchFails, LaunchRaises, Reply, TypeOK, RunInv, Spent, BelowTheLine, n
    <3>2. CASE consume_once(r) \/ ConsumeFails(r)
      <4>1. n \in Run
        BY <2>a, <2>1, PendingOnNonce DEF n
      <4>2. pc[r] = "consume" /\ consumed[n] # r
        BY <3>2, <4>1 DEF consume_once, ConsumeFails, RunInv, Spent, BelowTheLine
      <4>3. \/ verdict'[r] = "nonce_reused" /\ consumed[n] # None
            \/ verdict'[r] = "commit_conflict"
        BY <1>3, <3>2, <4>1, <4>2 DEF consume_once, ConsumeFails, TypeOK, n
      <4>4. child'[r] = "none" /\ checkedAt'[r] # None
        BY <2>a, <3>2 DEF consume_once, ConsumeFails
      <4> QED
        BY <4>2, <4>3, <4>4 DEF Reply
    <3>3. CASE Interrupt(r) \/ Crash(r)
      BY <2>a, <3>3 DEF Interrupt, Crash, Reply, TypeOK
    <3> QED
      BY <1>3, <3>1, <3>2, <3>3, Answering
  <2>3. n \in Run /\ Consumption!Pending(r, n)
    BY <2>a, <2>1, PendingOnNonce DEF n
  <2>4. consumed[n] \notin {None, r} => Asked[consumed[n]] = Asked[r]
    <3> SUFFICES ASSUME consumed[n] \notin {None, r} PROVE Asked[consumed[n]] = Asked[r]
      OBVIOUS
    <3> DEFINE s == consumed[n]
    <3>1. s \in Run /\ RunInv(s)
      BY <2>3 DEF TypeOK, IInv
    <3>2. authorization[s] \in granted /\ authorization[s].nonce = n /\ checkedAt[s] # None
      BY <2>3, <3>1 DEF RunInv, Spent
    <3>3. authorization[r] \in granted
      BY <2>a DEF RInv, AsksVerified
    <3>4. authorization[s] = authorization[r]
      BY <3>2, <3>3 DEF RInv, NoncesUnique, n
    <3> QED
      BY <2>a, <3>1, <3>2, <3>4 DEF Asked
  <2>5. Consumption!Honest(r, n, Reply'[r])
    BY <2>2, <2>4 DEF Consumption!Honest, Consumption!Failures
  <2>6. Consumption!Answer(r)
    BY <1>3, <2>a, <2>2, <2>3, <2>5, AskedReplied DEF Consumption!Answer, Consumption!Failures
  <2> QED
    BY <2>6 DEF Consumption!Next
<1>4. CASE /\ UNCHANGED consumed /\ Reply'[r] = Reply[r]
           /\ ~(verify_authorization(r) /\ checkedAt'[r] # None)
  <2>1. Asked'[r] = Asked[r]
    BY <1>4, AskedStays
  <2> QED
    BY <1>4, <2>1, AskedReplied DEF Consumption!vars
<1> QED
  BY <1>1, <1>2, <1>3, <1>4
\* SpendsThroughSingleUse: the run uses consume_once as SingleUse describes it.
\* Verifying maps to Ask, consuming to Spend, launching or dying to Answer.
THEOREM ImplementsSingleUse == Spec => SpendsThroughSingleUse
<1>1. Init => Consumption!Init
  BY GateAssumption DEF Init, Consumption!Init, Asked, Reply
<1>2. IInv /\ RInv /\ [Next]_vars => RInv' /\ [Consumption!Next]_(Consumption!vars)
  <2> SUFFICES ASSUME IInv, RInv, [Next]_vars
               PROVE  RInv' /\ [Consumption!Next]_(Consumption!vars)
    OBVIOUS
  <2>1. ASSUME NEW r \in Run, StepsOf(r)
        PROVE  RInv' /\ [Consumption!Next]_(Consumption!vars)
    BY <2>1, NextRInv, SpendStep
  <2>2. CASE UNCHANGED vars
    BY <2>2 DEF vars, RInv, NoncesUnique, AsksVerified, Consumption!vars, Asked, Reply
  <2> QED
    BY <2>1, <2>2 DEF Next, StepsOf
<1> QED
  BY <1>1, <1>2, InitRInv, Inductive, PTL DEF Spec, SpendsThroughSingleUse, Consumption!Spec
================================================================================

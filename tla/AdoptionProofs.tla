----------------------------- MODULE AdoptionProofs -----------------------------
(***************************************************************************)
(* What an adoption and a paid review of it keep true for every number of  *)
(* callers, processes, plans, approvals, files and reviews.                *)
(*                                                                         *)
(* The four stores of an adoption are tied together by the one caller that *)
(* holds the operation root's LOCK: CallerInv says how far each store is   *)
(* at every step of that caller, PlanInv and SpentInv what is left when    *)
(* the caller is gone.  A review adds the books of each reading (Books),   *)
(* what it may say of the copy (Result), and what its request is left with *)
(* when the reviewer is gone (RequestInv).                                 *)
(***************************************************************************)
EXTENDS PaidReview, FiniteSetTheorems, SequenceTheorems, TLAPS

Authorized == {"authorized", "replacing", "verified", "completed"}
Consumed == {"consumed", "validated"} \union Authorized
Holding == {"locked"} \union Consumed
Working == {"approved"} \union Holding
Unwritten == {"locked", "consumed", "validated", "authorized"}

\* The caller at work on a plan: its approval names the plan, it alone holds the
\* LOCK, and each store it has passed says what it wrote.
CallerInv(c) ==
  /\ pc[c] \in Working => plan[c] \in Plan /\ nonce[c] \in Nonce /\ approves[nonce[c]] = plan[c]
  /\ pc[c] \in Holding => flock[plan[c]] = c /\ root[plan[c]].complete = "absent"
  /\ pc[c] \in Unwritten => root[plan[c]].intent = "absent"
  /\ pc[c] \in Consumed => pool.entries[plan[c]] # None /\ pool.entries[plan[c]].intent = nonce[c]
  /\ pc[c] \in Authorized => nonce[c] \in spent
  /\ pc[c] \in {"replacing", "verified", "completed"} => root[plan[c]].intent = "whole"
  /\ pc[c] = "completed" => pool.entries[plan[c]].completed

\* What the stores say of a plan, whoever is at work on it.
PlanInv(p) ==
  /\ pool.entries[p] # None => root[p].stage = "planned"
  /\ \A q \in Process : p \in live[q] => pool.entries[p] # None
  /\ root[p].intent # "absent" =>
       root[p].authorization \in spent /\ approves[root[p].authorization] = p
  /\ (\E i \in Index : root[p].copy[i] = "candidate") => root[p].intent = "whole"
  /\ root[p].complete # "absent" =>
       root[p].intent = "whole" /\ pool.entries[p] # None /\ pool.entries[p].completed

\* An approval that is spent is the one its plan's entry holds.
SpentInv ==
  \A n \in spent : pool.entries[approves[n]] # None /\ pool.entries[approves[n]].intent = n

IInv ==
  /\ TypeOK
  /\ \A c \in Caller : CallerInv(c)
  /\ \A p \in Plan : PlanInv(p)
  /\ SpentInv

PoolRecord == [epoch : {"service", "adoption", "review"}, entries : [Plan -> Entry \union {None}]]

--------------------------------------------------------------------------------
(* Records and their changes                                                    *)

\* The records of an operation root stay records of one.
LEMMA RootStage ==
  ASSUME NEW r \in OperationRoot, NEW s \in {"provisioned", "partial", "planned"}
  PROVE  [r EXCEPT !.stage = s] \in OperationRoot
  BY DEF OperationRoot

LEMMA RootCopy ==
  ASSUME NEW r \in OperationRoot, NEW i \in Index, NEW x \in {"candidate", "edited"}
  PROVE  [r EXCEPT !.copy[i] = x] \in OperationRoot
  BY DEF OperationRoot

LEMMA RootReplaced ==
  ASSUME NEW r \in OperationRoot, NEW i \in Index
  PROVE  [r EXCEPT !.copy[i] = "candidate", !.replaced = i] \in OperationRoot
<1> DEFINE s == [r EXCEPT !.copy[i] = "candidate"]
<1>1. s \in OperationRoot
  BY RootCopy
<1>2. i \in 0..Files
  BY AdoptionAssumption DEF Index
<1>3. [r EXCEPT !.copy[i] = "candidate", !.replaced = i] = [s EXCEPT !.replaced = i]
  BY DEF OperationRoot
<1> HIDE DEF s
<1> QED
  BY <1>1, <1>2, <1>3 DEF OperationRoot

LEMMA RootIntent ==
  ASSUME NEW r \in OperationRoot, NEW w \in {"partial", "whole"}, NEW n \in Nonce
  PROVE  [r EXCEPT !.intent = w, !.authorization = n] \in OperationRoot
<1> DEFINE s == [r EXCEPT !.intent = w]
<1>1. s \in OperationRoot
  BY DEF OperationRoot, Written
<1>2. [r EXCEPT !.intent = w, !.authorization = n] = [s EXCEPT !.authorization = n]
  BY DEF OperationRoot
<1> HIDE DEF s
<1> QED
  BY <1>1, <1>2 DEF OperationRoot

LEMMA RootComplete ==
  ASSUME NEW r \in OperationRoot, NEW w \in {"partial", "whole"}
  PROVE  [r EXCEPT !.complete = w] \in OperationRoot
  BY DEF OperationRoot, Written

\* An entry that takes its approval, or is completed, keeps the rest.
LEMMA EntryIntent ==
  ASSUME NEW e \in Entry, NEW n \in Nonce
  PROVE  LET f == [e EXCEPT !.intent = n] IN f \in Entry /\ f.intent = n /\ f.completed = e.completed
  BY DEF Entry

LEMMA EntryCompleted ==
  ASSUME NEW e \in Entry
  PROVE  LET f == [e EXCEPT !.completed = TRUE] IN f \in Entry /\ f.intent = e.intent /\ f.completed = TRUE
  BY DEF Entry

\* A change of one entry: published and told, published and failing, or interrupted.
LEMMA ChangeEffect ==
  ASSUME TypeOK, NEW c \in Caller, NEW p \in Plan, NEW e \in Entry, NEW told \in Steps,
         _change(c, p, e, told)
  PROVE  /\ pool' \in PoolRecord /\ jammed' \in BOOLEAN
         /\ pc' \in [Caller -> Steps \union {"idle"}]
         /\ \A x \in Plan \ {p} : pool'.entries[x] = pool.entries[x]
         /\ \/ pc' = [pc EXCEPT ![c] = told] /\ pool'.entries[p] = e
            \/ pc' = [pc EXCEPT ![c] = "failed"] /\ pool'.entries[p] \in {e, pool.entries[p]}
<1> DEFINE r == [pool EXCEPT !.entries[p] = e]
<1>1. pool \in PoolRecord
  BY DEF TypeOK, PoolRecord
<1>2. r \in PoolRecord /\ r.entries = [pool.entries EXCEPT ![p] = e]
  BY <1>1 DEF PoolRecord
<1>3. r.entries[p] = e /\ \A x \in Plan \ {p} : r.entries[x] = pool.entries[x]
  BY <1>1, <1>2 DEF PoolRecord
<1>4. _publish(c, r, told, "failed")
  BY DEF _change
<1> HIDE DEF r
<1>5. \/ pool' = r /\ UNCHANGED jammed /\ pc' = [pc EXCEPT ![c] = told]
      \/ pool' = r /\ UNCHANGED jammed /\ pc' = [pc EXCEPT ![c] = "failed"]
      \/ jammed' = TRUE /\ UNCHANGED pool /\ pc' = [pc EXCEPT ![c] = "failed"]
  BY <1>4 DEF _publish, Goto
<1>6. pc' \in [Caller -> Steps \union {"idle"}]
  BY <1>5 DEF TypeOK, Steps
<1> QED
  BY <1>1, <1>2, <1>3, <1>5, <1>6 DEF TypeOK

--------------------------------------------------------------------------------
(* The invariant of an adoption, step by step                                   *)

\* A fresh copy has no entry and nothing written.
LEMMA ProvisionStep == ASSUME IInv, NEW p \in Plan, provision_managed_copy(p) PROVE IInv'
<1> USE AdoptionAssumption DEF accounting, call, Goto
<1>1. TypeOK'
  <2>1. root' \in [Plan -> OperationRoot]
    BY RootStage DEF IInv, TypeOK, provision_managed_copy
  <2> QED
    BY <2>1 DEF IInv, TypeOK, provision_managed_copy
<1>2. ASSUME NEW x \in Caller PROVE CallerInv(x)'
  BY DEF IInv, TypeOK, CallerInv, Working, Holding, Consumed, Authorized, Unwritten, provision_managed_copy
<1>3. ASSUME NEW x \in Plan PROVE PlanInv(x)'
  BY DEF IInv, TypeOK, CallerInv, PlanInv, Working, Holding, Consumed, Authorized, Unwritten, provision_managed_copy
<1>4. SpentInv'
  BY DEF IInv, TypeOK, SpentInv, CallerInv, Working, Holding, Consumed, Authorized, provision_managed_copy
<1> QED
  BY <1>1, <1>2, <1>3, <1>4 DEF IInv

\* A plan appears before its entry.
LEMMA PrepareStep == ASSUME IInv, NEW p \in Plan, prepare_adoption(p) PROVE IInv'
<1> USE AdoptionAssumption DEF accounting, call, Goto
<1>1. TypeOK'
  <2>1. PICK s \in {"partial", "planned"} : root' = [root EXCEPT ![p].stage = s]
    BY DEF prepare_adoption
  <2>2. root' \in [Plan -> OperationRoot]
    BY <2>1, RootStage DEF IInv, TypeOK
  <2> QED
    BY <2>2 DEF IInv, TypeOK, prepare_adoption
<1>2. ASSUME NEW x \in Caller PROVE CallerInv(x)'
  BY DEF IInv, TypeOK, CallerInv, Working, Holding, Consumed, Authorized, Unwritten, prepare_adoption, _scan, All
<1>3. ASSUME NEW x \in Plan PROVE PlanInv(x)'
  BY DEF IInv, TypeOK, CallerInv, PlanInv, Working, Holding, Consumed, Authorized, Unwritten, prepare_adoption, _scan, All
<1>4. SpentInv'
  BY DEF IInv, TypeOK, SpentInv, CallerInv, Working, Holding, Consumed, Authorized, prepare_adoption, _scan, All
<1> QED
  BY <1>1, <1>2, <1>3, <1>4 DEF IInv

\* An edit by hand makes no file the candidate's.
LEMMA EditStep == ASSUME IInv, NEW p \in Plan, (\E i \in Index : Edit(p, i)) PROVE IInv'
<1> USE AdoptionAssumption DEF accounting, call, Goto
<1>1. TypeOK'
  <2>1. PICK i \in Index : Edit(p, i)
    OBVIOUS
  <2>2. root' \in [Plan -> OperationRoot]
    BY <2>1, RootCopy DEF IInv, TypeOK, Edit
  <2>3. edits' \in 0..MaxEdits
    BY <2>1 DEF IInv, TypeOK, Edit
  <2> QED
    BY <2>1, <2>2, <2>3 DEF IInv, TypeOK, Edit
<1>2. ASSUME NEW x \in Caller PROVE CallerInv(x)'
  BY DEF IInv, TypeOK, CallerInv, Working, Holding, Consumed, Authorized, Unwritten, Edit
<1>3. ASSUME NEW x \in Plan PROVE PlanInv(x)'
  BY DEF IInv, TypeOK, CallerInv, PlanInv, Working, Holding, Consumed, Authorized, Unwritten, Edit
<1>4. SpentInv'
  BY DEF IInv, TypeOK, SpentInv, CallerInv, Working, Holding, Consumed, Authorized, Edit
<1> QED
  BY <1>1, <1>2, <1>3, <1>4 DEF IInv

\* The selection only takes the allocator's lock.
LEMMA SelectStep == ASSUME IInv, NEW c \in Caller, adopt_selected(c) PROVE IInv'
<1> USE AdoptionAssumption DEF accounting, call, Goto
<1>1. TypeOK'
  BY DEF IInv, TypeOK, Steps, Entry, CallerInv, PlanInv, Working, Holding, Consumed, Authorized, adopt_selected
<1>2. ASSUME NEW x \in Caller PROVE CallerInv(x)'
  BY DEF IInv, TypeOK, CallerInv, Working, Holding, Consumed, Authorized, Unwritten, adopt_selected
<1>3. ASSUME NEW x \in Plan PROVE PlanInv(x)'
  BY DEF IInv, TypeOK, CallerInv, PlanInv, Working, Holding, Consumed, Authorized, Unwritten, adopt_selected
<1>4. SpentInv'
  BY DEF IInv, TypeOK, SpentInv, CallerInv, Working, Holding, Consumed, Authorized, adopt_selected
<1> QED
  BY <1>1, <1>2, <1>3, <1>4 DEF IInv

\* The adoption epoch starts without changing an entry.
LEMMA AttachStep == ASSUME IInv, NEW c \in Caller, attach(c) PROVE IInv'
<1> USE AdoptionAssumption DEF accounting, call, Goto
<1>1. TypeOK'
  <2> DEFINE r == [pool EXCEPT !.epoch = "adoption"]
             to == IF cli[c] THEN "reserve" ELSE "returned"
  <2>1. r \in [epoch : {"service", "adoption", "review"}, entries : [Plan -> Entry \union {None}]]
    BY DEF IInv, TypeOK
  <2>2. _publish(c, r, to, "failed") /\ to \in Steps
    BY DEF attach, Steps
  <2> HIDE DEF r, to
  <2>3. /\ pool' \in {pool, r} /\ jammed' \in {jammed, TRUE}
        /\ pc' \in {[pc EXCEPT ![c] = to], [pc EXCEPT ![c] = "failed"]}
    BY <2>2 DEF _publish
  <2>4. pc' \in [Caller -> Steps \union {"idle"}]
    BY <2>2, <2>3 DEF IInv, TypeOK, Steps
  <2>5. opened' \subseteq Process
    BY DEF attach, IInv, TypeOK
  <2> QED
    BY <2>1, <2>3, <2>4, <2>5 DEF IInv, TypeOK, attach
<1>2. ASSUME NEW x \in Caller PROVE CallerInv(x)'
  BY DEF IInv, TypeOK, CallerInv, Working, Holding, Consumed, Authorized, Unwritten, attach, _publish, Told
<1>3. ASSUME NEW x \in Plan PROVE PlanInv(x)'
  BY DEF IInv, TypeOK, CallerInv, PlanInv, Working, Holding, Consumed, Authorized, Unwritten, attach, _publish, Told
<1>4. SpentInv'
  BY DEF IInv, TypeOK, SpentInv, CallerInv, Working, Holding, Consumed, Authorized, attach, _publish, Told
<1> QED
  BY <1>1, <1>2, <1>3, <1>4 DEF IInv

\* A reopened pool has no capability.
LEMMA ReopenStep == ASSUME IInv, NEW c \in Caller, reopen(c) PROVE IInv'
<1> USE AdoptionAssumption DEF accounting, call, Goto
<1>1. TypeOK'
  BY DEF IInv, TypeOK, Steps, Entry, CallerInv, PlanInv, Working, Holding, Consumed, Authorized, reopen
<1>2. ASSUME NEW x \in Caller PROVE CallerInv(x)'
  BY DEF IInv, TypeOK, CallerInv, Working, Holding, Consumed, Authorized, Unwritten, reopen
<1>3. ASSUME NEW x \in Plan PROVE PlanInv(x)'
  BY DEF IInv, TypeOK, CallerInv, PlanInv, Working, Holding, Consumed, Authorized, Unwritten, reopen
<1>4. SpentInv'
  BY DEF IInv, TypeOK, SpentInv, CallerInv, Working, Holding, Consumed, Authorized, reopen
<1> QED
  BY <1>1, <1>2, <1>3, <1>4 DEF IInv

\* The reservation enters a plan that has no entry, hence no approval spent.
LEMMA ReserveStep == ASSUME IInv, NEW c \in Caller, reserve(c) PROVE IInv'
<1> USE AdoptionAssumption DEF accounting, call
<1> DEFINE e == [intent |-> None, completed |-> FALSE]
           to == IF cli[c] THEN "adopt" ELSE "returned"
<1>1. PICK p \in Plan :
        /\ pc[c] \in {"reserve", "idle"} /\ root[p].stage = "planned" /\ pool.entries[p] = None
        /\ _change(c, p, e, to)
        /\ live' = [live EXCEPT ![home[c]] = IF Told(c, "failed") THEN @ ELSE @ \union {p}]
        /\ tickets' \in {tickets, tickets \union {p}}
        /\ UNCHANGED <<lock, opened, root, flock, spent, call, edits>>
  BY DEF reserve
<1>2. e \in Entry /\ to \in {"adopt", "returned"} /\ to \in Steps
  BY DEF Entry, Steps
<1> HIDE DEF e, to
<1>3. /\ pool' \in PoolRecord /\ jammed' \in BOOLEAN
      /\ pc' \in [Caller -> Steps \union {"idle"}]
      /\ \A x \in Plan \ {p} : pool'.entries[x] = pool.entries[x]
      /\ \/ pc' = [pc EXCEPT ![c] = to] /\ pool'.entries[p] = e
         \/ pc' = [pc EXCEPT ![c] = "failed"] /\ pool'.entries[p] \in {e, pool.entries[p]}
  BY <1>1, <1>2, ChangeEffect DEF IInv
<1>4. e # None
  BY <1>2
<1>5. pc'[c] \in {"adopt", "returned", "failed"} /\ \A x \in Caller \ {c} : pc'[x] = pc[x]
  BY <1>2, <1>3 DEF IInv, TypeOK
<1>6. \A x \in Plan, q \in Process : x \in live'[q] => x \in live[q] \/ (x = p /\ pool'.entries[p] # None)
  BY <1>1, <1>2, <1>3, <1>4 DEF IInv, TypeOK, Told
<1>7. \A x \in Plan : pool.entries[x] # None => pool'.entries[x] = pool.entries[x]
  BY <1>1, <1>3
<1>8. TypeOK'
  <2>1. live' \in [Process -> SUBSET Plan] /\ tickets' \subseteq Plan
    BY <1>1 DEF IInv, TypeOK
  <2> QED
    BY <1>1, <1>3, <2>1 DEF IInv, TypeOK, PoolRecord
<1>9. ASSUME NEW x \in Caller PROVE CallerInv(x)'
  BY <1>1, <1>5, <1>7 DEF IInv, CallerInv, Working, Holding, Consumed, Authorized, Unwritten
<1>10. ASSUME NEW x \in Plan PROVE PlanInv(x)'
  BY <1>1, <1>3, <1>6, <1>7 DEF IInv, PlanInv
<1>11. SpentInv'
  BY <1>1, <1>7 DEF IInv, TypeOK, SpentInv
<1> QED
  BY <1>8, <1>9, <1>10, <1>11 DEF IInv

\* The review epoch keeps the entries.
LEMMA AttachReviewStep == ASSUME IInv, attach_review PROVE IInv'
<1> USE AdoptionAssumption DEF accounting, call, Goto
<1>1. TypeOK'
  BY DEF IInv, TypeOK, Steps, Entry, CallerInv, PlanInv, Working, Holding, Consumed, Authorized, attach_review
<1>2. ASSUME NEW x \in Caller PROVE CallerInv(x)'
  BY DEF IInv, TypeOK, CallerInv, Working, Holding, Consumed, Authorized, Unwritten, attach_review
<1>3. ASSUME NEW x \in Plan PROVE PlanInv(x)'
  BY DEF IInv, TypeOK, CallerInv, PlanInv, Working, Holding, Consumed, Authorized, Unwritten, attach_review
<1>4. SpentInv'
  BY DEF IInv, TypeOK, SpentInv, CallerInv, Working, Holding, Consumed, Authorized, attach_review
<1> QED
  BY <1>1, <1>2, <1>3, <1>4 DEF IInv

\* The approval a caller goes on with names its plan.
LEMMA ApproveStep == ASSUME IInv, NEW c \in Caller, approve(c) PROVE IInv'
<1> USE AdoptionAssumption DEF accounting, call, Goto
<1>1. TypeOK'
  BY DEF IInv, TypeOK, Steps, Entry, CallerInv, PlanInv, Working, Holding, Consumed, Authorized, approve
<1>2. ASSUME NEW x \in Caller PROVE CallerInv(x)'
  BY DEF IInv, TypeOK, CallerInv, Working, Holding, Consumed, Authorized, Unwritten, approve
<1>3. ASSUME NEW x \in Plan PROVE PlanInv(x)'
  BY DEF IInv, TypeOK, CallerInv, PlanInv, Working, Holding, Consumed, Authorized, Unwritten, approve
<1>4. SpentInv'
  BY DEF IInv, TypeOK, SpentInv, CallerInv, Working, Holding, Consumed, Authorized, approve
<1> QED
  BY <1>1, <1>2, <1>3, <1>4 DEF IInv

\* The LOCK is taken only where nothing is written.
LEMMA LockStep == ASSUME IInv, NEW c \in Caller, lock_root(c) PROVE IInv'
<1> USE AdoptionAssumption DEF accounting, call, Goto
<1>1. TypeOK'
  BY DEF IInv, TypeOK, Steps, Entry, CallerInv, PlanInv, Working, Holding, Consumed, Authorized, lock_root, _locked
<1>2. ASSUME NEW x \in Caller PROVE CallerInv(x)'
  BY DEF IInv, TypeOK, CallerInv, Working, Holding, Consumed, Authorized, Unwritten, lock_root, _locked
<1>3. ASSUME NEW x \in Plan PROVE PlanInv(x)'
  BY DEF IInv, TypeOK, CallerInv, PlanInv, Working, Holding, Consumed, Authorized, Unwritten, lock_root, _locked
<1>4. SpentInv'
  BY DEF IInv, TypeOK, SpentInv, CallerInv, Working, Holding, Consumed, Authorized, lock_root, _locked
<1> QED
  BY <1>1, <1>2, <1>3, <1>4 DEF IInv

\* The entry takes the approval of the one caller that holds the LOCK.
LEMMA ConsumeStep == ASSUME IInv, NEW c \in Caller, _consume(c) PROVE IInv'
<1> USE AdoptionAssumption DEF accounting, call
<1> DEFINE p == plan[c]
           e == [pool.entries[p] EXCEPT !.intent = nonce[c]]
<1>1. /\ pc[c] = "locked" /\ p \in live[home[c]]
      /\ live' = [live EXCEPT ![home[c]] = @ \ {p}]
      /\ \/ pool.entries[p].intent = None /\ _change(c, p, e, "consumed")
         \/ pc' = [pc EXCEPT ![c] = "failed"] /\ UNCHANGED <<pool, jammed>>
      /\ UNCHANGED <<lock, opened, tickets, root, flock, spent, call, edits>>
  BY DEF _consume, Goto
<1>2. /\ p \in Plan /\ nonce[c] \in Nonce /\ approves[nonce[c]] = p /\ home[c] \in Process
      /\ flock[p] = c /\ root[p].intent = "absent" /\ root[p].complete = "absent"
  BY <1>1 DEF IInv, CallerInv, Working, Holding, Unwritten
<1>3. pool.entries[p] # None /\ pool.entries[p] \in Entry
  BY <1>1, <1>2 DEF IInv, PlanInv, TypeOK
<1>4. e \in Entry /\ e # None /\ e.intent = nonce[c] /\ e.completed = pool.entries[p].completed
  BY <1>2, <1>3, EntryIntent
<1> HIDE DEF e
<1>5. /\ pool' \in PoolRecord /\ jammed' \in BOOLEAN
      /\ pc' \in [Caller -> Steps \union {"idle"}]
      /\ \A x \in Plan \ {p} : pool'.entries[x] = pool.entries[x]
      /\ \/ pc' = [pc EXCEPT ![c] = "consumed"] /\ pool'.entries[p] = e /\ pool.entries[p].intent = None
         \/ /\ pc' = [pc EXCEPT ![c] = "failed"]
            /\ \/ pool'.entries[p] = pool.entries[p]
               \/ pool'.entries[p] = e /\ pool.entries[p].intent = None
  <2>1. CASE pool.entries[p].intent = None /\ _change(c, p, e, "consumed")
    <3>1. "consumed" \in Steps
      BY DEF Steps
    <3> QED
      BY <1>2, <1>4, <2>1, <3>1, ChangeEffect DEF IInv
  <2>2. CASE pc' = [pc EXCEPT ![c] = "failed"] /\ UNCHANGED <<pool, jammed>>
    BY <2>2 DEF IInv, TypeOK, PoolRecord, Steps
  <2> QED
    BY <1>1, <2>1, <2>2
<1>6. pc'[c] \in {"consumed", "failed"} /\ \A x \in Caller \ {c} : pc'[x] = pc[x]
  BY <1>5 DEF IInv, TypeOK
<1>7. TypeOK'
  <2>1. live' \in [Process -> SUBSET Plan]
    BY <1>1, <1>2 DEF IInv, TypeOK
  <2> QED
    BY <1>1, <1>5, <2>1 DEF IInv, TypeOK, PoolRecord
<1>8. ASSUME NEW x \in Caller PROVE CallerInv(x)'
  <2>1. CASE x = c
    <3>1. pc'[c] = "consumed" => pool'.entries[p] = e
      BY <1>5 DEF IInv, TypeOK
    <3> QED
      BY <1>1, <1>2, <1>4, <1>6, <2>1, <3>1
      DEF CallerInv, Working, Holding, Consumed, Authorized, Unwritten
  <2>2. CASE x # c
    <3>1. pc[x] \in Holding => plan[x] \in Plan \ {p}
      BY <1>1, <1>2, <2>2 DEF IInv, CallerInv, Working
    <3> QED
      BY <1>1, <1>5, <1>6, <2>2, <3>1
      DEF IInv, CallerInv, Working, Holding, Consumed, Authorized, Unwritten
  <2> QED
    BY <2>1, <2>2
<1>9. ASSUME NEW x \in Plan PROVE PlanInv(x)'
  <2>1. \A q \in Process : x \in live'[q] => x \in live[q]
    BY <1>1, <1>2 DEF IInv, TypeOK
  <2>2. CASE x = p
    <3>1. PlanInv(p) /\ UNCHANGED <<root, spent>>
      BY <1>1, <1>2 DEF IInv
    <3>2. pool'.entries[p] # None
      BY <1>3, <1>4, <1>5
    <3> QED
      BY <1>2, <1>3, <2>2, <3>1, <3>2 DEF PlanInv
  <2>3. CASE x # p
    BY <1>1, <1>5, <2>1, <2>3 DEF IInv, PlanInv
  <2> QED
    BY <2>2, <2>3
<1>10. SpentInv'
  BY <1>1, <1>2, <1>5 DEF IInv, TypeOK, SpentInv
<1> QED
  BY <1>7, <1>8, <1>9, <1>10 DEF IInv

\* Reading the sources changes no store.
LEMMA PlanStep == ASSUME IInv, NEW c \in Caller, _plan(c) PROVE IInv'
<1> USE AdoptionAssumption DEF accounting, call, Goto
<1>1. TypeOK'
  BY DEF IInv, TypeOK, Steps, Entry, CallerInv, PlanInv, Working, Holding, Consumed, Authorized, _plan
<1>2. ASSUME NEW x \in Caller PROVE CallerInv(x)'
  BY DEF IInv, TypeOK, CallerInv, Working, Holding, Consumed, Authorized, Unwritten, _plan
<1>3. ASSUME NEW x \in Plan PROVE PlanInv(x)'
  BY DEF IInv, TypeOK, CallerInv, PlanInv, Working, Holding, Consumed, Authorized, Unwritten, _plan
<1>4. SpentInv'
  BY DEF IInv, TypeOK, SpentInv, CallerInv, Working, Holding, Consumed, Authorized, _plan
<1> QED
  BY <1>1, <1>2, <1>3, <1>4 DEF IInv

\* The approval spent is the one the entry holds.
LEMMA SpendStep == ASSUME IInv, NEW c \in Caller, consume_once(c) PROVE IInv'
<1> USE AdoptionAssumption DEF accounting, call, Goto
<1>1. TypeOK'
  <2>1. spent' \subseteq Nonce
    BY DEF IInv, TypeOK, consume_once, CallerInv, Working, Holding, Consumed
  <2>2. pc' \in [Caller -> Steps \union {"idle"}]
    BY DEF IInv, TypeOK, Steps, consume_once
  <2> QED
    BY <2>1, <2>2 DEF IInv, TypeOK, consume_once
<1>2. ASSUME NEW x \in Caller PROVE CallerInv(x)'
  BY DEF IInv, TypeOK, CallerInv, Working, Holding, Consumed, Authorized, Unwritten, consume_once
<1>3. ASSUME NEW x \in Plan PROVE PlanInv(x)'
  BY DEF IInv, TypeOK, CallerInv, PlanInv, Working, Holding, Consumed, Authorized, Unwritten, consume_once
<1>4. SpentInv'
  BY DEF IInv, TypeOK, SpentInv, CallerInv, Working, Holding, Consumed, Authorized, consume_once
<1> QED
  BY <1>1, <1>2, <1>3, <1>4 DEF IInv

\* INTENT.json names an approval that is spent.
LEMMA IntentStep == ASSUME IInv, NEW c \in Caller, write_intent(c) PROVE IInv'
<1> USE AdoptionAssumption DEF accounting, call, Goto
<1>0. plan[c] \in Plan /\ nonce[c] \in Nonce
  BY DEF IInv, CallerInv, write_intent, Working, Holding, Consumed, Authorized
<1>1. TypeOK'
  <2>1. root' \in [Plan -> OperationRoot]
    <3>1. PICK w \in {"partial", "whole"} :
            root' = [root EXCEPT ![plan[c]].intent = w, ![plan[c]].authorization = nonce[c]]
      BY DEF write_intent
    <3>2. root' = [root EXCEPT ![plan[c]] = [root[plan[c]] EXCEPT !.intent = w, !.authorization = nonce[c]]]
      BY <1>0, <3>1 DEF IInv, TypeOK
    <3> QED
      BY <1>0, <3>2, RootIntent DEF IInv, TypeOK
  <2>2. pc' \in [Caller -> Steps \union {"idle"}]
    BY DEF IInv, TypeOK, Steps, write_intent
  <2> QED
    BY <2>1, <2>2 DEF IInv, TypeOK, write_intent
<1>2. ASSUME NEW x \in Caller PROVE CallerInv(x)'
  BY DEF IInv, TypeOK, CallerInv, Working, Holding, Consumed, Authorized, Unwritten, write_intent
<1>3. ASSUME NEW x \in Plan PROVE PlanInv(x)'
  BY DEF IInv, TypeOK, CallerInv, PlanInv, Working, Holding, Consumed, Authorized, Unwritten, write_intent
<1>4. SpentInv'
  BY DEF IInv, TypeOK, SpentInv, CallerInv, Working, Holding, Consumed, Authorized, write_intent
<1> QED
  BY <1>1, <1>2, <1>3, <1>4 DEF IInv

\* A file is replaced under a whole INTENT.json.
LEMMA ReplaceStep == ASSUME IInv, NEW c \in Caller, replace(c) PROVE IInv'
<1> USE AdoptionAssumption DEF accounting, call, Goto
<1>0. plan[c] \in Plan
  BY DEF IInv, CallerInv, replace, Working, Holding, Consumed, Authorized
<1>1. TypeOK'
  <2> DEFINE i == root[plan[c]].replaced + 1
  <2>1. i \in Index
    BY DEF replace
  <2>2. root' = [root EXCEPT ![plan[c]] = [root[plan[c]] EXCEPT !.copy[i] = "candidate", !.replaced = i]]
    BY <1>0 DEF replace, IInv, TypeOK
  <2> HIDE DEF i
  <2>3. root' \in [Plan -> OperationRoot]
    BY <1>0, <2>1, <2>2, RootReplaced DEF IInv, TypeOK
  <2> QED
    BY <2>3 DEF IInv, TypeOK, replace
<1>2. ASSUME NEW x \in Caller PROVE CallerInv(x)'
  <2>1. CallerInv(x) /\ CallerInv(c) /\ UNCHANGED <<pool, flock, spent, pc, plan, nonce>>
    BY DEF IInv, replace
  <2>2. root \in [Plan -> OperationRoot] /\ pc[c] = "replacing"
    BY DEF IInv, TypeOK, replace
  <2>3. \A p \in Plan : root'[p].intent = root[p].intent /\ root'[p].complete = root[p].complete
    BY <1>0, <2>2 DEF replace, OperationRoot
  <2>4. pc[x] \in Working => plan[x] \in Plan
    BY <2>1 DEF CallerInv
  <2> QED
    BY <2>1, <2>3, <2>4 DEF CallerInv, Working, Holding, Consumed, Authorized, Unwritten
<1>3. ASSUME NEW x \in Plan PROVE PlanInv(x)'
  <2>1. PlanInv(x) /\ pool' = pool /\ live' = live /\ spent' = spent
    BY DEF IInv, replace
  <2>2. pc[c] = "replacing" /\ root[plan[c]].intent = "whole"
    BY DEF IInv, CallerInv, replace
  <2>3. root \in [Plan -> OperationRoot]
    BY DEF IInv, TypeOK
  <2>4. /\ root'[x].stage = root[x].stage /\ root'[x].intent = root[x].intent
        /\ root'[x].authorization = root[x].authorization /\ root'[x].complete = root[x].complete
    BY <1>0, <2>3 DEF replace, OperationRoot
  <2>5. root'[x].copy = root[x].copy \/ root'[x].intent = "whole"
    BY <1>0, <2>2, <2>3, <2>4 DEF replace
  <2> QED
    BY <2>1, <2>4, <2>5 DEF PlanInv
<1>4. SpentInv'
  <2>1. pool' = pool /\ spent' = spent
    BY DEF replace
  <2> QED
    BY <2>1 DEF IInv, SpentInv
<1> QED
  BY <1>1, <1>2, <1>3, <1>4 DEF IInv

\* The last scan changes no store.
LEMMA VerifyStep == ASSUME IInv, NEW c \in Caller, verify_candidate(c) PROVE IInv'
<1> USE AdoptionAssumption DEF accounting, call, Goto
<1>1. TypeOK'
  BY DEF IInv, TypeOK, Steps, Entry, CallerInv, PlanInv, Working, Holding, Consumed, Authorized, verify_candidate
<1>2. ASSUME NEW x \in Caller PROVE CallerInv(x)'
  BY DEF IInv, TypeOK, CallerInv, Working, Holding, Consumed, Authorized, Unwritten, verify_candidate
<1>3. ASSUME NEW x \in Plan PROVE PlanInv(x)'
  BY DEF IInv, TypeOK, CallerInv, PlanInv, Working, Holding, Consumed, Authorized, Unwritten, verify_candidate
<1>4. SpentInv'
  BY DEF IInv, TypeOK, SpentInv, CallerInv, Working, Holding, Consumed, Authorized, verify_candidate
<1> QED
  BY <1>1, <1>2, <1>3, <1>4 DEF IInv

\* The shared settlement keeps the approval.
LEMMA CompleteStep == ASSUME IInv, NEW c \in Caller, _complete(c) PROVE IInv'
<1> USE AdoptionAssumption DEF accounting, call
<1> DEFINE p == plan[c]
           e == [pool.entries[p] EXCEPT !.completed = TRUE]
<1>1. /\ pc[c] = "verified" /\ _change(c, p, e, "completed")
      /\ UNCHANGED <<lock, opened, live, tickets, root, flock, spent, call, edits>>
  BY DEF _complete
<1>2. /\ p \in Plan /\ nonce[c] \in Nonce /\ approves[nonce[c]] = p /\ nonce[c] \in spent
      /\ flock[p] = c /\ root[p].intent = "whole" /\ root[p].complete = "absent"
      /\ pool.entries[p] # None /\ pool.entries[p].intent = nonce[c]
  BY <1>1 DEF IInv, CallerInv, Working, Holding, Consumed, Authorized
<1>3. pool.entries[p] \in Entry
  BY <1>2 DEF IInv, TypeOK
<1>4. e \in Entry /\ e # None /\ e.intent = nonce[c] /\ e.completed
  BY <1>2, <1>3, EntryCompleted
<1> HIDE DEF e
<1>5. /\ pool' \in PoolRecord /\ jammed' \in BOOLEAN
      /\ pc' \in [Caller -> Steps \union {"idle"}]
      /\ \A x \in Plan \ {p} : pool'.entries[x] = pool.entries[x]
      /\ \/ pc' = [pc EXCEPT ![c] = "completed"] /\ pool'.entries[p] = e
         \/ pc' = [pc EXCEPT ![c] = "failed"] /\ pool'.entries[p] \in {e, pool.entries[p]}
  <2>1. "completed" \in Steps
    BY DEF Steps
  <2> QED
    BY <1>1, <1>2, <1>4, <2>1, ChangeEffect DEF IInv
<1>6. pc'[c] \in {"completed", "failed"} /\ \A x \in Caller \ {c} : pc'[x] = pc[x]
  BY <1>5 DEF IInv, TypeOK
<1>7. TypeOK'
  BY <1>1, <1>5 DEF IInv, TypeOK, PoolRecord
<1>8. ASSUME NEW x \in Caller PROVE CallerInv(x)'
  <2>1. CASE x = c
    <3>1. pc'[c] = "completed" => pool'.entries[p] = e
      BY <1>5 DEF IInv, TypeOK
    <3> QED
      BY <1>1, <1>2, <1>4, <1>6, <2>1, <3>1
      DEF CallerInv, Working, Holding, Consumed, Authorized, Unwritten
  <2>2. CASE x # c
    <3>1. pc[x] \in Holding => plan[x] \in Plan \ {p}
      BY <1>1, <1>2, <2>2 DEF IInv, CallerInv, Working
    <3> QED
      BY <1>1, <1>5, <1>6, <2>2, <3>1
      DEF IInv, CallerInv, Working, Holding, Consumed, Authorized, Unwritten
  <2> QED
    BY <2>1, <2>2
<1>9. ASSUME NEW x \in Plan PROVE PlanInv(x)'
  <2>1. CASE x = p
    BY <1>1, <1>2, <1>4, <1>5, <2>1 DEF IInv, PlanInv
  <2>2. CASE x # p
    BY <1>1, <1>5, <2>2 DEF IInv, PlanInv
  <2> QED
    BY <2>1, <2>2
<1>10. SpentInv'
  BY <1>1, <1>2, <1>4, <1>5 DEF IInv, TypeOK, SpentInv
<1> QED
  BY <1>7, <1>8, <1>9, <1>10 DEF IInv

\* COMPLETE.json follows the shared settlement.
LEMMA WriteCompleteStep == ASSUME IInv, NEW c \in Caller, write_complete(c) PROVE IInv'
<1> USE AdoptionAssumption DEF accounting, call, Goto
<1>0. plan[c] \in Plan
  BY DEF IInv, CallerInv, write_complete, Working, Holding, Consumed, Authorized
<1>1. TypeOK'
  <2>1. root' \in [Plan -> OperationRoot]
    <3>1. PICK w \in {"partial", "whole"} : root' = [root EXCEPT ![plan[c]].complete = w]
      BY DEF write_complete
    <3> QED
      BY <1>0, <3>1, RootComplete DEF IInv, TypeOK
  <2>2. pc' \in [Caller -> Steps \union {"idle"}]
    BY DEF IInv, TypeOK, Steps, write_complete
  <2> QED
    BY <2>1, <2>2 DEF IInv, TypeOK, write_complete
<1>2. ASSUME NEW x \in Caller PROVE CallerInv(x)'
  BY DEF IInv, TypeOK, CallerInv, Working, Holding, Consumed, Authorized, Unwritten, write_complete
<1>3. ASSUME NEW x \in Plan PROVE PlanInv(x)'
  BY DEF IInv, TypeOK, CallerInv, PlanInv, Working, Holding, Consumed, Authorized, Unwritten, write_complete
<1>4. SpentInv'
  BY DEF IInv, TypeOK, SpentInv, CallerInv, Working, Holding, Consumed, Authorized, write_complete
<1> QED
  BY <1>1, <1>2, <1>3, <1>4 DEF IInv

\* A failure leaves the stores where they are.
LEMMA FailStep == ASSUME IInv, NEW c \in Caller, fail(c) PROVE IInv'
<1> USE AdoptionAssumption DEF accounting, call, Goto
<1>1. TypeOK'
  BY DEF IInv, TypeOK, Steps, Entry, CallerInv, PlanInv, Working, Holding, Consumed, Authorized, fail
<1>2. ASSUME NEW x \in Caller PROVE CallerInv(x)'
  BY DEF IInv, TypeOK, CallerInv, Working, Holding, Consumed, Authorized, Unwritten, fail
<1>3. ASSUME NEW x \in Plan PROVE PlanInv(x)'
  BY DEF IInv, TypeOK, CallerInv, PlanInv, Working, Holding, Consumed, Authorized, Unwritten, fail
<1>4. SpentInv'
  BY DEF IInv, TypeOK, SpentInv, CallerInv, Working, Holding, Consumed, Authorized, fail
<1> QED
  BY <1>1, <1>2, <1>3, <1>4 DEF IInv

\* A call that ends gives up only its own locks.
LEMMA ReturnStep == ASSUME IInv, NEW c \in Caller, return(c) PROVE IInv'
<1> USE AdoptionAssumption DEF accounting, call, Goto
<1>1. TypeOK'
  BY DEF IInv, TypeOK, Steps, Entry, CallerInv, PlanInv, Working, Holding, Consumed, Authorized, return
<1>2. ASSUME NEW x \in Caller PROVE CallerInv(x)'
  BY DEF IInv, TypeOK, CallerInv, Working, Holding, Consumed, Authorized, Unwritten, return
<1>3. ASSUME NEW x \in Plan PROVE PlanInv(x)'
  BY DEF IInv, TypeOK, CallerInv, PlanInv, Working, Holding, Consumed, Authorized, Unwritten, return
<1>4. SpentInv'
  BY DEF IInv, TypeOK, SpentInv, CallerInv, Working, Holding, Consumed, Authorized, return
<1> QED
  BY <1>1, <1>2, <1>3, <1>4 DEF IInv

\* A crash gives up only the locks of its own callers.
LEMMA CrashStep == ASSUME IInv, NEW q \in Process, Crash(q) PROVE IInv'
<1> USE AdoptionAssumption DEF accounting, call, Goto
<1>1. TypeOK'
  <2>1. /\ pc' \in [Caller -> Steps \union {"idle"}] /\ plan' \in [Caller -> Plan \union {None}]
        /\ nonce' \in [Caller -> Nonce \union {None}] /\ cli' \in [Caller -> BOOLEAN]
    BY DEF IInv, TypeOK, Crash
  <2>2. /\ lock' \in Caller \union {None} /\ flock' \in [Plan -> Caller \union {None}]
        /\ opened' \subseteq Process /\ live' \in [Process -> SUBSET Plan]
    BY DEF IInv, TypeOK, Crash
  <2> QED
    BY <2>1, <2>2 DEF IInv, TypeOK, Crash
<1>2. ASSUME NEW x \in Caller PROVE CallerInv(x)'
  BY DEF IInv, TypeOK, CallerInv, Working, Holding, Consumed, Authorized, Unwritten, Crash
<1>3. ASSUME NEW x \in Plan PROVE PlanInv(x)'
  BY DEF IInv, TypeOK, CallerInv, PlanInv, Working, Holding, Consumed, Authorized, Unwritten, Crash
<1>4. SpentInv'
  BY DEF IInv, TypeOK, SpentInv, CallerInv, Working, Holding, Consumed, Authorized, Crash
<1> QED
  BY <1>1, <1>2, <1>3, <1>4 DEF IInv

\* The invariant holds before any adoption.
LEMMA InitIInv == Init => IInv
<1> SUFFICES ASSUME Init PROVE IInv
  OBVIOUS
<1> USE AdoptionAssumption
<1>1. TypeOK
  <2>1. \A p \in Plan : root[p] \in OperationRoot
    BY DEF Init, OperationRoot, Written
  <2>2. root \in [Plan -> OperationRoot]
    BY <2>1 DEF Init
  <2>3. pool \in [epoch : {"service", "adoption", "review"}, entries : [Plan -> Entry \union {None}]]
    BY DEF Init
  <2>4. edits \in 0..MaxEdits
    BY DEF Init
  <2> QED
    BY <2>2, <2>3, <2>4 DEF Init, TypeOK
<1>2. ASSUME NEW c \in Caller PROVE CallerInv(c)
  BY DEF Init, CallerInv, Working, Holding, Consumed, Authorized, Unwritten
<1>3. ASSUME NEW p \in Plan PROVE PlanInv(p)
  BY DEF Init, PlanInv
<1> QED
  BY <1>1, <1>2, <1>3 DEF IInv, SpentInv, Init

\* Every step of an adoption keeps it.
LEMMA NextIInv == IInv /\ [Next]_vars => IInv'
<1> SUFFICES ASSUME IInv, [Next]_vars PROVE IInv'
  OBVIOUS
<1>1. CASE UNCHANGED vars
  BY <1>1 DEF vars, accounting, call, IInv, TypeOK, CallerInv, PlanInv, SpentInv
<1>2. CASE \E p \in Plan : provision_managed_copy(p) \/ prepare_adoption(p) \/ \E i \in Index : Edit(p, i)
  BY <1>2, ProvisionStep, PrepareStep, EditStep
<1>3. CASE \E c \in Caller : adopt_selected(c) \/ attach(c) \/ reopen(c) \/ reserve(c) \/ fail(c) \/ return(c)
  BY <1>3, SelectStep, AttachStep, ReopenStep, ReserveStep, FailStep, ReturnStep
<1>4. CASE \E c \in Caller : Adopt(c)
  BY <1>4, ApproveStep, LockStep, ConsumeStep, PlanStep, SpendStep, IntentStep, ReplaceStep, VerifyStep,
     CompleteStep, WriteCompleteStep DEF Adopt
<1>5. CASE attach_review
  BY <1>5, AttachReviewStep
<1>6. CASE \E q \in Process : Crash(q)
  BY <1>6, CrashStep
<1> QED
  BY <1>1, <1>2, <1>3, <1>4, <1>5, <1>6 DEF Next

--------------------------------------------------------------------------------
(* What an adoption guarantees                                                  *)

\* The inductive invariant of an adoption: the four stores agree at every step.
THEOREM AdoptionInvariant == Spec => []IInv
  BY InitIInv, NextIInv, PTL DEF Spec

\* Every variable of an adoption keeps its type.
THEOREM AdoptionTypes == Spec => []TypeOK
<1>1. IInv => TypeOK
  BY DEF IInv
<1> QED
  BY AdoptionInvariant, <1>1, PTL

\* The candidate's bytes are in a copy only with a whole INTENT.json, a spent approval
\* of this plan and the entry that holds that approval.
LEMMA WrittenIsApproved == IInv => NothingWrittenUnapproved
<1> SUFFICES ASSUME IInv, NEW p \in Plan, NEW i \in Index, root[p].copy[i] = "candidate"
             PROVE  /\ root[p].intent = "whole"
                    /\ root[p].authorization \in spent /\ approves[root[p].authorization] = p
                    /\ pool.entries[p] # None /\ pool.entries[p].intent = root[p].authorization
  BY DEF NothingWrittenUnapproved, _scan
<1>1. root[p].intent = "whole"
  BY DEF IInv, PlanInv
<1>2. root[p].authorization \in spent /\ approves[root[p].authorization] = p
  BY <1>1 DEF IInv, PlanInv
<1> QED
  BY <1>1, <1>2 DEF IInv, SpentInv

\* No file of a managed copy is the candidate's before INTENT.json is whole, its
\* approval is spent and the accounting root holds it, with a crash between any two.
THEOREM NothingIsWrittenUnapproved == Spec => []NothingWrittenUnapproved
  BY AdoptionInvariant, WrittenIsApproved, PTL

\* What reconcile observes under the free LOCK is settled in the accounting root.
LEMMA ObservedIsSettled == IInv => ObservedIsComplete
<1> SUFFICES ASSUME IInv, NEW p \in Plan, reconcile(p) = "OBSERVED_CANDIDATE"
             PROVE  /\ pool.entries[p] # None /\ pool.entries[p].completed
                    /\ \A c \in Caller : plan[c] = p => pc[c] \notin {"replacing", "verified", "completed"}
  BY DEF ObservedIsComplete
<1>1. flock[p] = None /\ root[p].complete = "whole"
  BY DEF reconcile, _locked
<1>2. pool.entries[p] # None /\ pool.entries[p].completed
  BY <1>1 DEF IInv, PlanInv
<1>3. \A c \in Caller : plan[c] = p => pc[c] \notin {"replacing", "verified", "completed"}
  BY <1>1, AdoptionAssumption DEF IInv, CallerInv, Holding, Consumed, Authorized
<1> QED
  BY <1>2, <1>3

\* reconcile never reports OBSERVED_CANDIDATE of an adoption still at work or never
\* settled.
THEOREM ObservationIsComplete == Spec => []ObservedIsComplete
  BY AdoptionInvariant, ObservedIsSettled, PTL

\* Two approvals of one plan cannot both be the one its entry holds.
LEMMA OnePerPlan == IInv => OneApprovalPerPlan
<1> SUFFICES ASSUME IInv, NEW p \in Plan PROVE Cardinality({n \in spent : approves[n] = p}) <= 1
  BY DEF OneApprovalPerPlan
<1> DEFINE S == {n \in spent : approves[n] = p}
<1>1. \A m, n \in S : m = n
  BY DEF IInv, SpentInv
<1>2. CASE S = {}
  BY <1>2, FS_EmptySet
<1>3. CASE S # {}
  <2>1. PICK n : n \in S
    BY <1>3
  <2>2. S = {n}
    BY <1>1, <2>1
  <2>3. Cardinality({n}) = 1
    BY FS_Singleton
  <2> QED
    BY <2>2, <2>3
<1> QED
  BY <1>2, <1>3

\* However often an adoption fails or crashes, one approval per plan is ever spent.
THEOREM OneApprovalIsSpent == Spec => []OneApprovalPerPlan
  BY AdoptionInvariant, OnePerPlan, PTL

\* Only the holder of the LOCK writes an operation root that has an INTENT.json.
LEMMA HolderWrites ==
  ASSUME IInv, [Next]_vars, NEW p \in Plan, root[p].intent # "absent", flock[p] = None, edits' = edits
  PROVE  root'[p] = root[p]
<1>0. root[p].stage = "planned"
  <2>1. pool.entries[p] # None
    BY DEF IInv, PlanInv, SpentInv
  <2> QED
    BY <2>1 DEF IInv, PlanInv
<1>1. CASE UNCHANGED root
  BY <1>1
<1>2. CASE \E x \in Plan : provision_managed_copy(x) \/ prepare_adoption(x)
  BY <1>0, <1>2 DEF provision_managed_copy, prepare_adoption, IInv, TypeOK
<1>3. CASE \E x \in Plan, i \in Index : Edit(x, i)
  BY <1>3 DEF Edit, IInv, TypeOK
<1>4. CASE \E c \in Caller : write_intent(c) \/ replace(c) \/ write_complete(c)
  <2>1. PICK c \in Caller : write_intent(c) \/ replace(c) \/ write_complete(c)
    BY <1>4
  <2>2. pc[c] \in Holding
    BY <2>1 DEF write_intent, replace, write_complete, Holding, Consumed, Authorized
  <2>3. plan[c] # p
    BY <2>2, AdoptionAssumption DEF IInv, CallerInv
  <2> QED
    BY <2>1, <2>3 DEF write_intent, replace, write_complete, IInv, TypeOK
<1> QED
  BY <1>1, <1>2, <1>3, <1>4, ZenonT(120)
  DEF Next, Adopt, vars, adopt_selected, attach, reopen, reserve, fail, return, approve, lock_root,
      _consume, _plan, consume_once, verify_candidate, _complete, attach_review, Crash

\* What a crashed or failed adoption has written stays as it is: no later adoption
\* touches the copy.
THEOREM NoSecondAdoptionWrites == Spec => NoSecondHand
<1>1. IInv /\ [Next]_vars =>
        [\A p \in Plan : (root[p].intent # "absent" /\ flock[p] = None /\ edits' = edits)
                            => root'[p] = root[p]]_vars
  BY HolderWrites
<1> QED
  BY AdoptionInvariant, <1>1, PTL DEF Spec, NoSecondHand

--------------------------------------------------------------------------------
(* The record of a reading and its changes                                      *)

JobSteps == {"idle", "selecting", "reconciling", "read", "retained"}
Reasons == {None, "failed", "refused"}

\* Two records of a reading that agree on what it reads for, saw and made of it.
SameReading(j, k) == k.request = j.request /\ k.seen = j.seen /\ k.run = j.run /\ k.ids = j.ids
SameBooks(j, k) == k.at = j.at /\ k.calls = j.calls /\ k.bytes = j.bytes /\ k.trace = j.trace /\ k.failed = j.failed

LEMMA JobStepped ==
  ASSUME NEW j \in JobRecord, NEW s \in JobSteps
  PROVE  LET k == [j EXCEPT !.step = s] IN
         k \in JobRecord /\ k.step = s /\ k.reason = j.reason /\ SameReading(j, k) /\ SameBooks(j, k)
  BY DEF JobRecord, JobSteps, SameReading, SameBooks

LEMMA JobEnded ==
  ASSUME NEW j \in JobRecord, NEW why \in Reasons
  PROVE  LET k == Ended(j, why) IN
         k \in JobRecord /\ k.step = "read" /\ k.reason = why /\ SameReading(j, k) /\ SameBooks(j, k)
  BY DEF Ended, JobRecord, Reasons, SameReading, SameBooks

LEMMA JobNext ==
  ASSUME NEW j \in JobRecord, NEW name \in FileName
  PROVE  LET k == [j EXCEPT !.calls = @ + 1, !.bytes = @ + 1, !.trace = Append(@, name), !.at = @ + 1] IN
         /\ k \in JobRecord /\ k.step = j.step /\ k.reason = j.reason /\ SameReading(j, k)
         /\ k.at = j.at + 1 /\ k.calls = j.calls + 1 /\ k.bytes = j.bytes + 1
         /\ k.trace = Append(j.trace, name) /\ k.failed = j.failed
<1> DEFINE n1 == [j EXCEPT !.calls = @ + 1]
           n2 == [n1 EXCEPT !.bytes = @ + 1]
           n3 == [n2 EXCEPT !.trace = Append(@, name)]
           n4 == [n3 EXCEPT !.at = @ + 1]
           k == [j EXCEPT !.calls = @ + 1, !.bytes = @ + 1, !.trace = Append(@, name), !.at = @ + 1]
<1>1. k = n4
  BY DEF JobRecord
<1>2. /\ n1 \in JobRecord /\ n1.step = j.step /\ n1.reason = j.reason /\ SameReading(j, n1) /\ n1.at = j.at
      /\ n1.calls = j.calls + 1 /\ n1.bytes = j.bytes /\ n1.trace = j.trace /\ n1.failed = j.failed
  BY DEF JobRecord, SameReading
<1> HIDE DEF n1
<1>3. /\ n2 \in JobRecord /\ n2.step = j.step /\ n2.reason = j.reason /\ SameReading(j, n2) /\ n2.at = j.at
      /\ n2.calls = j.calls + 1 /\ n2.bytes = j.bytes + 1 /\ n2.trace = j.trace /\ n2.failed = j.failed
  BY <1>2 DEF JobRecord, SameReading
<1> HIDE DEF n2
<1>4. Append(j.trace, name) \in Seq(FileName)
  BY DEF JobRecord
<1>5. /\ n3 \in JobRecord /\ n3.step = j.step /\ n3.reason = j.reason /\ SameReading(j, n3) /\ n3.at = j.at
      /\ n3.calls = j.calls + 1 /\ n3.bytes = j.bytes + 1 /\ n3.trace = Append(j.trace, name) /\ n3.failed = j.failed
  BY <1>3, <1>4 DEF JobRecord, SameReading
<1> HIDE DEF n3
<1>6. n3.at + 1 \in Nat
  BY <1>5 DEF JobRecord
<1>7. n4 \in JobRecord
  BY <1>5, <1>6 DEF JobRecord
<1>8. /\ n4.step = j.step /\ n4.reason = j.reason /\ SameReading(j, n4) /\ n4.at = j.at + 1
      /\ n4.calls = j.calls + 1 /\ n4.bytes = j.bytes + 1 /\ n4.trace = Append(j.trace, name) /\ n4.failed = j.failed
  BY <1>5 DEF JobRecord, SameReading
<1> HIDE DEF n4, k
<1> QED
  BY <1>1, <1>7, <1>8 DEF k

LEMMA JobIds ==
  ASSUME NEW j \in JobRecord, NEW x \in {None, "typed", "ill"}
  PROVE  LET k == [j EXCEPT !.ids = x] IN
         /\ k \in JobRecord /\ k.step = j.step /\ k.reason = j.reason /\ SameBooks(j, k)
         /\ k.request = j.request /\ k.run = j.run /\ k.ids = x
  BY DEF JobRecord, SameBooks

LEMMA JobRun ==
  ASSUME NEW j \in JobRecord, NEW r \in Outcome
  PROVE  LET k == [j EXCEPT !.run = r] IN
         /\ k \in JobRecord /\ k.step = j.step /\ k.reason = j.reason /\ SameBooks(j, k)
         /\ k.request = j.request /\ k.run = r
  BY DEF JobRecord, SameBooks

\* COMPLETE.json is whole: the record stays where it is and its outcome says so.
LEMMA JobObserved ==
  ASSUME NEW j \in JobRecord, NEW a \in Nat
  PROVE  LET k == [j EXCEPT !.at = a, !.run.state = "OBSERVED_CANDIDATE"] IN
         /\ k \in JobRecord /\ k.step = j.step /\ k.reason = j.reason /\ k.request = j.request
         /\ k.calls = j.calls /\ k.bytes = j.bytes /\ k.trace = j.trace /\ k.failed = j.failed
         /\ k.run.content = j.run.content /\ k.run.intent = j.run.intent
<1> DEFINE n == [j EXCEPT !.at = a]
           k == [j EXCEPT !.at = a, !.run.state = "OBSERVED_CANDIDATE"]
<1>1. k = [n EXCEPT !.run.state = "OBSERVED_CANDIDATE"]
  BY DEF JobRecord
<1>2. /\ n \in JobRecord /\ n.step = j.step /\ n.reason = j.reason /\ n.request = j.request
      /\ n.calls = j.calls /\ n.bytes = j.bytes /\ n.trace = j.trace /\ n.failed = j.failed /\ n.run = j.run
  BY DEF JobRecord
<1>3. n.run \in Outcome
  BY <1>2 DEF JobRecord
<1> HIDE DEF n
<1> QED
  BY <1>1, <1>2, <1>3 DEF JobRecord, Outcome

\* A new job, and none.
LEMMA JobFresh ==
  ASSUME NEW s \in JobSteps, NEW q \in Review \union {None}
  PROVE  Job(s, q) \in JobRecord
<1>1. Unknown \in Outcome
  BY DEF Unknown, Outcome
<1>2. Unread \in Manifest
  BY DEF Unread, Manifest
<1>3. <<>> \in Seq(FileName)
  OBVIOUS
<1> QED
  BY <1>1, <1>2, <1>3 DEF Job, JobRecord, JobSteps

\* u is s followed by t, m and n long.
Joins(u, s, t, m, n) == \A i \in 1..m + n : u[i] = IF i <= m THEN s[i] ELSE t[i - m]

LEMMA Joined ==
  ASSUME NEW s \in Seq(FileName), NEW t \in Seq(FileName), NEW m \in Nat, NEW n \in Nat, Len(s) = m, Len(t) = n
  PROVE  s \o t \in Seq(FileName) /\ Len(s \o t) = m + n /\ Joins(s \o t, s, t, m, n)
<1>1. /\ s \o t \in Seq(FileName) /\ Len(s \o t) = Len(s) + Len(t)
      /\ \A i \in 1..Len(s) + Len(t) : (s \o t)[i] = IF i <= Len(s) THEN s[i] ELSE t[i - Len(s)]
  BY ConcatProperties, Zenon
<1> QED
  BY <1>1 DEF Joins

\* What paid_review reads, place by place.
LEMMA ScriptNames ==
  /\ Script[1] = "plan" /\ Script[2] = "trust" /\ Script[3] = "module"
  /\ Script[4] = "FIXTURE" /\ Script[5] = "frozen"
  /\ \A at \in 4..Files + 7 :
       /\ Script[at] \in FileName /\ Script[at] # "module"
       /\ Script[at] = "copy" => CopyIndex(at) \in Index
       /\ Script[at] = "COMPLETE" <=> at = Files + 7
<1>0. Files \in Nat /\ Files > 0
  BY AdoptionAssumption
<1> DEFINE head == Selected \o <<"FIXTURE", "frozen">>
           copies == [i \in Index |-> "copy"]
           tail == <<"INTENT", "COMPLETE">>
<1>1. /\ head \in Seq(FileName) /\ Len(head) = 5
      /\ head[1] = "plan" /\ head[2] = "trust" /\ head[3] = "module" /\ head[4] = "FIXTURE" /\ head[5] = "frozen"
  <2> DEFINE two == <<"FIXTURE", "frozen">>
  <2>1. Selected \in Seq(FileName) /\ Len(Selected) = 3
    BY DEF Selected, FileName
  <2>2. Selected[1] = "plan" /\ Selected[2] = "trust" /\ Selected[3] = "module"
    BY DEF Selected
  <2>3. two \in Seq(FileName) /\ Len(two) = 2 /\ two[1] = "FIXTURE" /\ two[2] = "frozen"
    BY DEF FileName
  <2> HIDE DEF two
  <2>4. /\ Selected \o two \in Seq(FileName) /\ Len(Selected \o two) = 3 + 2
        /\ Joins(Selected \o two, Selected, two, 3, 2)
    <3>1. 3 \in Nat /\ 2 \in Nat
      OBVIOUS
    <3> QED
      BY <2>1, <2>3, <3>1, Joined, Zenon
  <2>5. head = Selected \o two
    BY DEF two
  <2> QED
    BY <2>2, <2>3, <2>4, <2>5 DEF Joins
<1>3. copies \in Seq(FileName) /\ Len(copies) = Files /\ \A i \in 1..Files : copies[i] = "copy"
  <2>1. copies \in [1..Files -> FileName]
    BY DEF Index, FileName
  <2>2. copies \in Seq(FileName)
    BY <1>0, <2>1, SeqDef
  <2>3. DOMAIN copies = 1..Files
    BY <2>1
  <2> QED
    BY <1>0, <2>2, <2>3, LenProperties DEF Index
<1>4. tail \in Seq(FileName) /\ Len(tail) = 2 /\ tail[1] = "INTENT" /\ tail[2] = "COMPLETE"
  BY DEF FileName
<1>5. Script = (head \o copies) \o tail
  BY DEF Script
<1> HIDE DEF head, copies, tail
<1>6. /\ head \o copies \in Seq(FileName) /\ Len(head \o copies) = 5 + Files
      /\ Joins(head \o copies, head, copies, 5, Files)
  <2>1. 5 \in Nat
    OBVIOUS
  <2> QED
    BY <1>0, <1>1, <1>3, <2>1, Joined, Zenon
<1>7. Joins(Script, head \o copies, tail, 5 + Files, 2)
  <2>1. 2 \in Nat /\ 5 + Files \in Nat
    BY <1>0
  <2> QED
    BY <1>4, <1>5, <1>6, <2>1, Joined, Zenon
<1>8. ASSUME NEW at \in 1..5 PROVE Script[at] = head[at]
  BY <1>0, <1>6, <1>7 DEF Joins
<1>9. ASSUME NEW at \in 6..Files + 5 PROVE Script[at] = "copy" /\ CopyIndex(at) \in Index
  BY <1>0, <1>3, <1>6, <1>7 DEF CopyIndex, Index, Joins
<1>10. Script[Files + 6] = "INTENT" /\ Script[Files + 7] = "COMPLETE"
  BY <1>0, <1>4, <1>7 DEF Joins
<1>11. \A at \in 4..Files + 7 : at \in {4, 5} \/ at \in 6..Files + 5 \/ at \in {Files + 6, Files + 7}
  BY <1>0
<1> QED
  BY <1>0, <1>1, <1>8, <1>9, <1>10, <1>11 DEF FileName

--------------------------------------------------------------------------------
(* The invariant of a paid review                                               *)

SelectedRead(t) == Len(t) >= 3 /\ t[1] = "plan" /\ t[2] = "trust" /\ t[3] = "module"

\* The books of a reading that has begun: charges within the request's limits, and a
\* trace that no failure cut short accounts for every call and byte.
Books(j) ==
  /\ j.request \in Review
  /\ j.calls <= Calls[j.request] /\ j.bytes <= Bytes[j.request]
  /\ Len(j.trace) <= j.calls /\ Len(j.trace) <= j.bytes
  /\ ~j.failed => j.calls = Len(j.trace) /\ j.bytes = Len(j.trace)
  /\ j.step = "selecting" =>
       /\ ~j.failed /\ j.reason = None /\ j.at \in 1..3 /\ Len(j.trace) = j.at - 1
       /\ j.at > 1 => j.trace[1] = "plan"
       /\ j.at > 2 => j.trace[2] = "trust"
  /\ j.step = "reconciling" => ~j.failed /\ j.reason = None /\ j.at \in 4..Files + 7 /\ SelectedRead(j.trace)
  /\ j.step \in {"read", "retained"} /\ ~j.failed /\ j.reason # "refused" =>
       j.reason = None /\ SelectedRead(j.trace)

\* What it makes of the manifest.
Result(run) ==
  /\ run.content = "CANDIDATE" => run.intent = TRUE
  /\ run.state = "OBSERVED_CANDIDATE" => run.content = "CANDIDATE" /\ root[operation].complete = "whole"

\* Identities of the wrong type come of an altered plan, whose reading ends at the
\* frozen records without a result.
Identities(j) ==
  /\ j.ids = "ill" => j.request \in Altered
  /\ j.request \in Altered => j.run = Unknown
  /\ j.step = "reconciling" /\ j.request \in Altered => j.at \in {4, 5}

ConsumedEntry(q) == rpool.entries[q] # None /\ rpool.entries[q].consumed

\* A reading of a request whose entry is consumed: every file opened for it is on its books.
JobInv(v) ==
  /\ job[v].step # "idle" => Books(job[v]) /\ Identities(job[v])
  /\ job[v].step # "idle" => ConsumedEntry(job[v].request) /\ reads[job[v].request] = job[v].calls
  /\ job[v].step = "retained" => HasReceipt(job[v].request)
  /\ Result(job[v].run)

\* A receipt that verifies, or that carries the identities of an altered plan.
Acceptable(q, b) ==
  verify_receipt(q, b) \/ (q \in Altered /\ b.ids = "ill" /\ b.run = Unknown)

\* What is left of a request when its reviewer is gone.
RequestInv(q) ==
  /\ reads[q] <= Calls[q]
  /\ reads[q] > 0 => ConsumedEntry(q)
  /\ \A v \in Reviewer : q \in rlive[v] => rpool.entries[q] # None
  /\ rpool.entries[q] # None /\ rpool.entries[q].receipt => HasReceipt(q)
  /\ HasReceipt(q) =>
       /\ Acceptable(q, retained[q])
       /\ retained[q].run.state = "OBSERVED_CANDIDATE" => root[operation].complete = "whole"

\* A request is read by one reviewer.
OneReader ==
  \A v, w \in Reviewer :
    job[v].step # "idle" /\ job[w].step # "idle" /\ job[v].request = job[w].request => v = w

ReviewInv ==
  /\ IInv
  /\ ReviewTypeOK
  /\ \A v \in Reviewer : JobInv(v)
  /\ \A q \in Review : RequestInv(q)
  /\ OneReader

--------------------------------------------------------------------------------
(* What one read puts on the books                                              *)

\* A file read within the limits: every way the reading goes on from there.
LEMMA ReadEffect ==
  ASSUME ReviewInv, NEW v \in Reviewer, read(v)
  PROVE  LET j == job[v]
             k == job'[v] IN
         /\ job' = [job EXCEPT ![v] = k]
         /\ k \in JobRecord /\ k.request = j.request /\ Books(k) /\ Result(k.run)
         /\ k.step \in {"selecting", "reconciling", "read"} /\ k.calls = j.calls + 1
<1> DEFINE j == job[v]
           k == job'[v]
           name == Name(j)
           i == CopyIndex(j.at)
           next == [j EXCEPT !.calls = @ + 1, !.bytes = @ + 1, !.trace = Append(@, name), !.at = @ + 1]
           r == root[operation]
<1>1. j \in JobRecord /\ job \in [Reviewer -> JobRecord]
  BY DEF ReviewInv, ReviewTypeOK
<1>2. /\ j.step \in {"selecting", "reconciling"} /\ Books(j) /\ Result(j.run) /\ Exists(name)
      /\ j.calls < Calls[j.request] /\ j.bytes < Bytes[j.request]
  BY DEF ReviewInv, JobInv, read, Reads
<1>3. /\ r \in OperationRoot /\ PlanInv(operation)
  BY PaidReviewAssumption DEF ReviewInv, IInv, TypeOK
<1>4. /\ j.step = "selecting" => j.at \in 1..3
      /\ j.step = "reconciling" => j.at \in 4..Files + 7
  BY <1>2 DEF Books
<1>5. /\ j.at = 1 => name = "plan"
      /\ j.at = 2 => name = "trust"
      /\ j.at = 3 => name = "module"
      /\ j.step = "reconciling" => /\ name \in FileName /\ name # "module"
                                   /\ name = "copy" => i \in Index
                                   /\ name = "COMPLETE" <=> j.at = Files + 7
  BY <1>4, ScriptNames DEF Name
<1>6. name \in FileName
  BY <1>2, <1>4, <1>5 DEF FileName
<1>7. /\ next \in JobRecord /\ next.step = j.step /\ next.reason = j.reason /\ SameReading(j, next)
      /\ next.at = j.at + 1 /\ next.calls = j.calls + 1 /\ next.bytes = j.bytes + 1
      /\ next.trace = Append(j.trace, name) /\ next.failed = j.failed
  BY <1>1, <1>6, JobNext
<1>8. k = CASE name = "module" -> [next EXCEPT !.step = "reconciling", !.ids = SelectedIds(j.request)]
            [] name = "frozen" /\ j.request \in Altered -> Ended(next, None)
            [] name = "copy" /\ i < Files -> [next EXCEPT !.seen[i] = r.copy[i]]
            [] name = "copy" /\ i = Files -> Reconciled([next EXCEPT !.seen[i] = r.copy[i]])
            [] name = "INTENT" /\ r.intent = "partial" -> Ended(next, None)
            [] name = "COMPLETE" /\ (r.complete = "partial" \/ j.run.content # "CANDIDATE") -> Ended(next, None)
            [] name = "COMPLETE" /\ r.complete = "whole" /\ j.run.content = "CANDIDATE" ->
                 Ended([next EXCEPT !.at = j.at, !.run.state = "OBSERVED_CANDIDATE"], None)
            [] OTHER -> next
  BY <1>1 DEF read, Step
<1>9. job' = [job EXCEPT ![v] = k]
  BY <1>1, SMTT(30) DEF read, Step
\* The trace, and what of it is known.
<1>10. /\ Len(next.trace) = Len(j.trace) + 1 /\ next.trace[Len(j.trace) + 1] = name
       /\ \A x \in 1..Len(j.trace) : next.trace[x] = j.trace[x]
  <2>1. j.trace \in Seq(FileName)
    BY <1>1 DEF JobRecord
  <2> QED
    BY <1>6, <1>7, <2>1, AppendProperties
<1> HIDE DEF next, k, name, i, r, j
\* Whatever continues the reading with the same request and books continues them rightly.
<1>11. ASSUME NEW m \in JobRecord, m.request = j.request, m.calls = next.calls, m.bytes = next.bytes,
              m.trace = next.trace, m.failed = j.failed, m.reason = None,
              \/ m.step = "selecting" /\ j.step = "selecting" /\ m.at = j.at + 1 /\ j.at \in 1..2
              \/ m.step = "reconciling" /\ j.step = "selecting" /\ m.at = j.at + 1 /\ j.at = 3
              \/ m.step = "reconciling" /\ j.step = "reconciling" /\ m.at = j.at + 1 /\ j.at # Files + 7
              \/ m.step = "read" /\ j.step = "reconciling"
       PROVE  Books(m)
  <2>1. /\ j.request \in Review /\ ~j.failed /\ j.reason = None
        /\ j.calls = Len(j.trace) /\ j.bytes = Len(j.trace)
    BY <1>2 DEF Books
  <2>2. Calls[j.request] \in Nat /\ Bytes[j.request] \in Nat /\ Len(j.trace) \in Nat /\ Files \in Nat
    BY <1>1, <2>1, PaidReviewAssumption, AdoptionAssumption, LenProperties DEF JobRecord
  <2>3. /\ m.calls <= Calls[m.request] /\ m.bytes <= Bytes[m.request]
        /\ m.calls = Len(m.trace) /\ m.bytes = Len(m.trace)
    BY <1>2, <1>7, <1>10, <1>11, <2>1, <2>2
  <2>4. j.step = "reconciling" => SelectedRead(m.trace)
    <3>1. SUFFICES ASSUME j.step = "reconciling" PROVE SelectedRead(m.trace)
      OBVIOUS
    <3>2. Len(j.trace) >= 3 /\ j.trace[1] = "plan" /\ j.trace[2] = "trust" /\ j.trace[3] = "module"
      BY <1>2, <3>1 DEF Books, SelectedRead
    <3>3. 1 \in 1..Len(j.trace) /\ 2 \in 1..Len(j.trace) /\ 3 \in 1..Len(j.trace)
      BY <2>2, <3>2
    <3>4. m.trace = next.trace
      BY <1>11
    <3>5. m.trace[1] = "plan" /\ m.trace[2] = "trust" /\ m.trace[3] = "module"
      BY <1>10, <3>2, <3>3, <3>4
    <3>6. Len(m.trace) >= 3
      BY <1>10, <2>2, <3>2, <3>4
    <3> QED
      BY <3>5, <3>6 DEF SelectedRead
  <2>5. j.step = "selecting" /\ j.at = 3 => SelectedRead(m.trace)
    BY <1>2, <1>5, <1>10, <1>11, <2>2, SMTT(30) DEF Books, SelectedRead
  <2>6. CASE m.step = "selecting"
    <3>1. j.step = "selecting" /\ m.at = j.at + 1 /\ j.at \in 1..2
      BY <1>11, <2>6
    <3>2. Len(m.trace) = m.at - 1 /\ m.at \in 1..3
      BY <1>2, <1>10, <1>11, <2>2, <3>1 DEF Books
    <3>3. Len(j.trace) = j.at - 1 /\ (j.at = 2 => j.trace[1] = "plan")
      BY <1>2, <3>1 DEF Books
    <3>4. CASE j.at = 1
      <4>1. m.at = 2 /\ m.trace[1] = "plan"
        BY <1>5, <1>10, <1>11, <3>1, <3>3, <3>4
      <4> QED
        BY <1>11, <2>1, <2>3, <2>6, <3>2, <4>1 DEF Books
    <3>5. CASE j.at = 2
      <4>1. m.at = 3 /\ m.trace[2] = "trust" /\ m.trace[1] = "plan"
        BY <1>5, <1>10, <1>11, <3>1, <3>3, <3>5
      <4> QED
        BY <1>11, <2>1, <2>3, <2>6, <3>2, <4>1 DEF Books
    <3> QED
      BY <3>1, <3>4, <3>5
  <2>7. CASE m.step = "reconciling"
    <3>1. m.at \in 4..Files + 7
      BY <1>4, <1>11, <2>2, <2>7
    <3> QED
      BY <1>11, <2>1, <2>3, <2>4, <2>5, <2>7, <3>1 DEF Books
  <2>8. CASE m.step = "read"
    BY <1>11, <2>1, <2>3, <2>4, <2>8 DEF Books
  <2> QED
    BY <1>11, <2>6, <2>7, <2>8
<1> DEFINE Good(m) == /\ m \in JobRecord /\ m.request = j.request /\ Books(m) /\ Result(m.run)
                      /\ m.step \in {"selecting", "reconciling", "read"} /\ m.calls = j.calls + 1
<1> SUFFICES Good(k)
  BY <1>9 DEF j, k
<1>12. j.reason = None /\ next.reason = None
  BY <1>2, <1>7 DEF Books
<1>13. CASE name = "module"
  <2>1. j.step = "selecting" /\ j.at = 3
    BY <1>2, <1>4, <1>5, <1>13
  <2> DEFINE m == [next EXCEPT !.step = "reconciling"]
  <2>2. k = [m EXCEPT !.ids = SelectedIds(j.request)]
    BY <1>7, <1>8, <1>13 DEF JobRecord
  <2>3. /\ k \in JobRecord /\ k.step = "reconciling" /\ k.reason = None /\ SameBooks(next, k)
        /\ k.request = next.request /\ k.run = next.run
    <3>1. /\ m \in JobRecord /\ m.step = "reconciling" /\ m.reason = None /\ SameReading(next, m)
          /\ SameBooks(next, m)
      BY <1>7, <1>12, JobStepped DEF JobSteps
    <3>2. SelectedIds(j.request) \in {None, "typed", "ill"}
      BY DEF SelectedIds
    <3> HIDE DEF m
    <3>3. /\ k \in JobRecord /\ k.step = m.step /\ k.reason = m.reason /\ SameBooks(m, k)
          /\ k.request = m.request /\ k.run = m.run
      BY <2>2, <3>1, <3>2, JobIds
    <3> QED
      BY <3>1, <3>3 DEF SameReading, SameBooks
  <2>4. Books(k)
    BY <1>7, <1>11, <2>1, <2>3 DEF SameReading, SameBooks
  <2> QED
    BY <1>2, <1>7, <2>3, <2>4 DEF SameReading, SameBooks
<1>14. CASE name = "copy"
  <2>1. j.step = "reconciling" /\ i \in Index /\ j.at # Files + 7
    BY <1>2, <1>4, <1>5, <1>14
  <2>2. r.copy[i] \in {"base", "candidate", "edited"}
    BY <1>3, <2>1 DEF OperationRoot
  <2> DEFINE x == r.copy[i]
             m == [next EXCEPT !.seen[i] = x]
  <2> HIDE DEF x
  <2>3. /\ m \in JobRecord /\ m.step = next.step /\ m.reason = next.reason /\ SameBooks(next, m)
        /\ m.request = next.request /\ m.run = next.run /\ m.seen[i] = x
    <3>1. x \in {"base", "candidate", "edited"}
      BY <2>2 DEF x
    <3> QED
      BY <1>7, <2>1, <3>1 DEF JobRecord, Manifest, SameBooks
  <2>4. k = m \/ (i = Files /\ k = Reconciled(m))
    BY <1>8, <1>14, <2>1, AdoptionAssumption DEF Index, x
  <2> HIDE DEF m
  <2>5. CASE k = m
    <3>1. Books(k)
      BY <1>7, <1>11, <1>12, <2>1, <2>3, <2>5 DEF SameReading, SameBooks
    <3> QED
      BY <1>2, <1>7, <2>1, <2>3, <2>5, <3>1 DEF SameReading, SameBooks
  <2>6. CASE i = Files /\ k = Reconciled(m)
    <3> DEFINE content == CASE m.seen = All("base") -> "BASE"
                            [] m.seen = All("candidate") -> "CANDIDATE"
                            [] \E b \in Index : m.seen[b] = "edited" -> "UNKNOWN"
                            [] OTHER -> "MIXED"
               run == [state |-> "UNKNOWN", content |-> content, intent |-> r.intent # "absent"]
    <3>1. k = [m EXCEPT !.run = run]
      BY <2>6 DEF Reconciled, r
    <3>2. content \in {"UNKNOWN", "BASE", "CANDIDATE", "MIXED"}
      OBVIOUS
    <3>3. content = "CANDIDATE" => m.seen = All("candidate")
      OBVIOUS
    <3> HIDE DEF content
    <3>4. run \in Outcome
      BY <3>2 DEF Outcome
    <3>5. content = "CANDIDATE" => r.copy[i] = "candidate"
      BY <2>1, <2>3, <3>3 DEF All, x
    <3>6. content = "CANDIDATE" => r.intent = "whole"
      BY <1>3, <2>1, <3>5 DEF PlanInv, r
    <3>7. Result(run)
      BY <3>6 DEF Result
    <3> HIDE DEF run
    <3>8. /\ k \in JobRecord /\ k.step = m.step /\ k.reason = m.reason /\ SameBooks(m, k)
          /\ k.request = m.request /\ k.run = run
      BY <2>3, <3>1, <3>4, JobRun
    <3>9. Books(k)
      BY <1>7, <1>11, <1>12, <2>1, <2>3, <3>8 DEF SameReading, SameBooks
    <3> QED
      BY <1>7, <2>1, <2>3, <3>7, <3>8, <3>9 DEF SameReading, SameBooks
  <2> QED
    BY <2>4, <2>5, <2>6
<1>15. CASE k = Ended(next, None) /\ name \in {"frozen", "INTENT", "COMPLETE"}
  <2>1. j.step = "reconciling"
    BY <1>2, <1>4, <1>5, <1>15
  <2>2. /\ k \in JobRecord /\ k.step = "read" /\ k.reason = None /\ SameReading(next, k) /\ SameBooks(next, k)
    BY <1>7, <1>15, JobEnded DEF Reasons
  <2>3. Books(k)
    BY <1>7, <1>11, <2>1, <2>2 DEF SameReading, SameBooks
  <2> QED
    BY <1>2, <1>7, <2>2, <2>3 DEF SameReading, SameBooks
<1>16. CASE /\ name = "COMPLETE" /\ r.complete = "whole" /\ j.run.content = "CANDIDATE"
            /\ k = Ended([next EXCEPT !.at = j.at, !.run.state = "OBSERVED_CANDIDATE"], None)
  <2> DEFINE m == [next EXCEPT !.at = j.at, !.run.state = "OBSERVED_CANDIDATE"]
  <2>1. j.step = "reconciling" /\ j.at \in Nat
    BY <1>1, <1>2, <1>4, <1>5, <1>16 DEF JobRecord
  <2>2. /\ m \in JobRecord /\ m.step = next.step /\ m.reason = next.reason /\ m.request = next.request
        /\ m.calls = next.calls /\ m.bytes = next.bytes /\ m.trace = next.trace /\ m.failed = next.failed
        /\ m.run.content = next.run.content /\ m.run.intent = next.run.intent
    BY <1>7, <2>1, JobObserved
  <2>3. k = Ended(m, None)
    BY <1>16
  <2> HIDE DEF m
  <2>4. /\ k \in JobRecord /\ k.step = "read" /\ k.reason = None /\ SameReading(m, k) /\ SameBooks(m, k)
    BY <2>2, <2>3, JobEnded DEF Reasons
  <2>5. Books(k)
    BY <1>7, <1>11, <2>1, <2>2, <2>4 DEF SameReading, SameBooks
  <2>6. k.run.content = "CANDIDATE" /\ k.run.intent = TRUE
    BY <1>2, <1>7, <1>16, <2>2, <2>4 DEF SameReading, Result
  <2>7. Result(k.run)
    BY <1>16, <2>6 DEF Result, r
  <2> QED
    BY <1>7, <2>2, <2>4, <2>5, <2>7 DEF SameReading, SameBooks
<1>17. CASE k = next /\ name \notin {"module", "copy", "COMPLETE"}
  <2>1. \/ j.step = "selecting" /\ j.at \in 1..2
        \/ j.step = "reconciling" /\ j.at # Files + 7
    BY <1>2, <1>4, <1>5, <1>17
  <2>2. Books(k)
    BY <1>7, <1>11, <1>12, <1>17, <2>1 DEF SameReading
  <2> QED
    BY <1>2, <1>7, <1>17, <2>2 DEF SameReading
<1>18. \/ name \in {"module", "copy"}
       \/ k = Ended(next, None) /\ name \in {"frozen", "INTENT", "COMPLETE"}
       \/ /\ name = "COMPLETE" /\ r.complete = "whole" /\ j.run.content = "CANDIDATE"
          /\ k = Ended([next EXCEPT !.at = j.at, !.run.state = "OBSERVED_CANDIDATE"], None)
       \/ k = next /\ name \notin {"module", "copy", "COMPLETE"}
  <2>1. name = "COMPLETE" => r.complete \in {"partial", "whole"}
    BY <1>2, <1>3 DEF Exists, OperationRoot, Written, r
  <2> QED
    BY <1>8, <2>1
<1> QED
  BY <1>13, <1>14, <1>15, <1>16, <1>17, <1>18

\* An altered plan is found out at the frozen records; until then nothing is made of it.
LEMMA ReadIdentities ==
  ASSUME ReviewInv, NEW v \in Reviewer, read(v)
  PROVE  Identities(job'[v])
<1> DEFINE j == job[v]
           k == job'[v]
           name == Name(j)
           i == CopyIndex(j.at)
           next == [j EXCEPT !.calls = @ + 1, !.bytes = @ + 1, !.trace = Append(@, name), !.at = @ + 1]
           r == root[operation]
<1>1. j \in JobRecord /\ job \in [Reviewer -> JobRecord]
  BY DEF ReviewInv, ReviewTypeOK
<1>2. j.step \in {"selecting", "reconciling"} /\ Books(j) /\ Identities(j)
  BY DEF ReviewInv, JobInv, read, Reads
<1>3. k = CASE name = "module" -> [next EXCEPT !.step = "reconciling", !.ids = SelectedIds(j.request)]
            [] name = "frozen" /\ j.request \in Altered -> Ended(next, None)
            [] name = "copy" /\ i < Files -> [next EXCEPT !.seen[i] = r.copy[i]]
            [] name = "copy" /\ i = Files -> Reconciled([next EXCEPT !.seen[i] = r.copy[i]])
            [] name = "INTENT" /\ r.intent = "partial" -> Ended(next, None)
            [] name = "COMPLETE" /\ (r.complete = "partial" \/ j.run.content # "CANDIDATE") -> Ended(next, None)
            [] name = "COMPLETE" /\ r.complete = "whole" /\ j.run.content = "CANDIDATE" ->
                 Ended([next EXCEPT !.at = j.at, !.run.state = "OBSERVED_CANDIDATE"], None)
            [] OTHER -> next
  BY <1>1 DEF read, Step
<1>4. k.request = j.request
  BY ReadEffect
<1>5. /\ next.step = j.step /\ next.run = j.run /\ next.ids = j.ids /\ next.at = j.at + 1
      /\ next.request = j.request
  BY <1>1 DEF JobRecord
<1>6. /\ j.step = "selecting" => name \in {"plan", "trust", "module"} /\ (name = "module" <=> j.at = 3)
      /\ j.step = "reconciling" /\ j.request \in Altered =>
           (j.at = 4 /\ name = "FIXTURE") \/ (j.at = 5 /\ name = "frozen")
      /\ j.step = "reconciling" => name # "module"
  <2>1. /\ j.step = "selecting" => j.at \in 1..3
        /\ j.step = "reconciling" => j.at \in 4..Files + 7
        /\ j.step = "reconciling" /\ j.request \in Altered => j.at \in {4, 5}
    BY <1>2 DEF Books, Identities
  <2> QED
    BY <2>1, ScriptNames DEF Name
<1>7. k.ids = IF name = "module" THEN SelectedIds(j.request) ELSE j.ids
  <2> HIDE DEF name, i, r
  <2>1. next \in [DOMAIN j -> {next[x] : x \in DOMAIN j}] /\ "ids" \in DOMAIN next /\ DOMAIN next = DOMAIN j
    BY <1>1 DEF JobRecord
  <2> HIDE DEF next
  <2> QED
    BY <1>3, <1>5, <2>1, SMTT(30) DEF Ended, Reconciled
<1>8. CASE j.request \notin Altered
  BY <1>2, <1>4, <1>7, <1>8 DEF Identities, SelectedIds
<1>9. CASE j.request \in Altered /\ j.step = "selecting"
  <2>1. name \in {"plan", "trust", "module"}
    BY <1>6, <1>9
  <2>2. k.run = j.run /\ (k.step = "selecting" \/ (k.step = "reconciling" /\ k.at = 4))
    <3>1. CASE name = "module"
      <4>1. k = [next EXCEPT !.step = "reconciling", !.ids = SelectedIds(j.request)]
        BY <1>3, <3>1
      <4>2. next \in JobRecord
        BY <1>1, <3>1, JobNext DEF FileName
      <4> DEFINE m == [next EXCEPT !.step = "reconciling"]
      <4>3. k = [m EXCEPT !.ids = SelectedIds(j.request)]
        BY <4>1, <4>2 DEF JobRecord
      <4> HIDE DEF next
      <4>4. m \in JobRecord /\ m.step = "reconciling" /\ m.run = next.run /\ m.at = next.at
        BY <4>2, JobStepped DEF JobSteps, SameReading, SameBooks
      <4>5. SelectedIds(j.request) \in {None, "typed", "ill"}
        BY DEF SelectedIds
      <4> HIDE DEF m, k
      <4>6. k.step = m.step /\ k.run = m.run /\ k.at = m.at
        BY <4>3, <4>4, <4>5, JobIds DEF SameBooks
      <4> QED
        BY <1>5, <1>6, <1>9, <3>1, <4>4, <4>6
    <3>2. CASE name # "module"
      <4> HIDE DEF next, k, name, i, r
      <4>1. k = next
        BY <1>3, <2>1, <3>2
      <4> QED
        BY <1>5, <1>9, <4>1
    <3> QED
      BY <3>1, <3>2
  <2> QED
    BY <1>2, <1>4, <1>9, <2>2 DEF Identities
<1>10. CASE j.request \in Altered /\ j.step = "reconciling" /\ j.at = 4
  <2>1. k = next
    BY <1>3, <1>6, <1>10
  <2> QED
    BY <1>2, <1>4, <1>5, <1>10, <2>1 DEF Identities
<1>11. CASE j.request \in Altered /\ j.step = "reconciling" /\ j.at = 5
  <2>1. k = Ended(next, None)
    BY <1>3, <1>6, <1>11
  <2>2. k.step = "read" /\ k.run = j.run
    BY <1>1, <2>1 DEF Ended, JobRecord
  <2> QED
    BY <1>2, <1>4, <1>11, <2>2 DEF Identities
<1> QED
  BY <1>2, <1>6, <1>8, <1>9, <1>10, <1>11

\* A read that fails: charged or not, the reading ends within its limits.
LEMMA FailEffect ==
  ASSUME ReviewInv, NEW v \in Reviewer, read_fails(v)
  PROVE  LET j == job[v]
             k == job'[v] IN
         /\ job' = [job EXCEPT ![v] = k]
         /\ k \in JobRecord /\ k.request = j.request /\ Books(k) /\ Result(k.run)
         /\ k.step = "read" /\ k.calls \in {j.calls, j.calls + 1}
         /\ k.run = j.run /\ k.ids = j.ids
<1> DEFINE j == job[v]
           k == job'[v]
           opened_it == [j EXCEPT !.calls = @ + 1, !.failed = TRUE]
           unopened == [j EXCEPT !.failed = TRUE]
           long == [opened_it EXCEPT !.bytes = @ + 1]
<1>1. j \in JobRecord /\ job \in [Reviewer -> JobRecord]
  BY DEF ReviewInv, ReviewTypeOK
<1>2. j.step \in {"selecting", "reconciling"} /\ Books(j) /\ Result(j.run)
  BY DEF ReviewInv, JobInv, read_fails, Reads
<1>3. /\ j.calls \in Nat /\ j.bytes \in Nat /\ j.request \in Review /\ Len(j.trace) \in Nat
      /\ Calls[j.request] \in Nat /\ Bytes[j.request] \in Nat
  BY <1>1, <1>2, PaidReviewAssumption, LenProperties DEF JobRecord, Books
<1>4. \/ k = Ended(unopened, "failed")
      \/ j.calls < Calls[j.request] /\ k = Ended(opened_it, "failed")
      \/ j.calls < Calls[j.request] /\ j.bytes < Bytes[j.request] /\ k = Ended(long, "failed")
  BY <1>1 DEF read_fails, Step
<1>5. job' = [job EXCEPT ![v] = k]
  BY <1>1 DEF read_fails, Step
<1> HIDE DEF j
<1>6. /\ unopened \in JobRecord /\ SameReading(j, unopened) /\ unopened.calls = j.calls /\ unopened.bytes = j.bytes
      /\ unopened.trace = j.trace /\ unopened.failed = TRUE
  BY <1>1 DEF JobRecord, SameReading
<1>7. /\ opened_it \in JobRecord /\ SameReading(j, opened_it) /\ opened_it.calls = j.calls + 1
      /\ opened_it.bytes = j.bytes /\ opened_it.trace = j.trace /\ opened_it.failed = TRUE
  <2> DEFINE n == [j EXCEPT !.calls = @ + 1]
  <2>0. j.calls + 1 \in Nat
    BY <1>3
  <2>1. n \in JobRecord
    BY <1>1, <2>0 DEF JobRecord
  <2>3. SameReading(j, n) /\ n.calls = j.calls + 1 /\ n.bytes = j.bytes /\ n.trace = j.trace
    BY <1>1 DEF JobRecord, SameReading
  <2>2. opened_it = [n EXCEPT !.failed = TRUE]
    BY <1>1 DEF JobRecord
  <2> HIDE DEF n, opened_it
  <2> QED
    BY <2>1, <2>2, <2>3 DEF JobRecord, SameReading
<1> HIDE DEF opened_it
<1>8. /\ long \in JobRecord /\ SameReading(j, long) /\ long.calls = j.calls + 1
      /\ long.bytes = j.bytes + 1 /\ long.trace = j.trace /\ long.failed = TRUE
  BY <1>7 DEF JobRecord, SameReading
<1> HIDE DEF unopened, long, k
<1>9. ASSUME NEW m \in JobRecord, SameReading(j, m), m.trace = j.trace, m.failed = TRUE,
             m.calls \in {j.calls, j.calls + 1}, m.bytes \in {j.bytes, j.bytes + 1},
             m.calls <= Calls[j.request], m.bytes <= Bytes[j.request], k = Ended(m, "failed")
      PROVE  /\ k \in JobRecord /\ k.request = j.request /\ Books(k) /\ Result(k.run)
             /\ k.step = "read" /\ k.calls \in {j.calls, j.calls + 1}
             /\ k.run = j.run /\ k.ids = j.ids
  <2>1. /\ k \in JobRecord /\ k.step = "read" /\ k.reason = "failed" /\ SameReading(m, k) /\ SameBooks(m, k)
    BY <1>9, JobEnded DEF Reasons
  <2>2. Len(j.trace) <= j.calls /\ Len(j.trace) <= j.bytes
    BY <1>2 DEF Books
  <2>3. Len(m.trace) <= m.calls /\ Len(m.trace) <= m.bytes
    BY <1>3, <1>9, <2>2
  <2>4. Books(k)
    BY <1>3, <1>9, <2>1, <2>3 DEF Books, SameReading, SameBooks
  <2> QED
    BY <1>2, <1>9, <2>1, <2>4 DEF SameReading, SameBooks
<1>10. j.calls <= Calls[j.request] /\ j.bytes <= Bytes[j.request]
  BY <1>2 DEF Books
<1>11. CASE k = Ended(unopened, "failed")
  BY <1>5, <1>6, <1>9, <1>10, <1>11 DEF j, k
<1>12. CASE j.calls < Calls[j.request] /\ k = Ended(opened_it, "failed")
  <2>1. j.calls + 1 <= Calls[j.request]
    BY <1>3, <1>12
  <2> QED
    BY <1>5, <1>7, <1>9, <1>10, <1>12, <2>1 DEF j, k
<1>13. CASE j.calls < Calls[j.request] /\ j.bytes < Bytes[j.request] /\ k = Ended(long, "failed")
  <2>1. j.calls + 1 <= Calls[j.request] /\ j.bytes + 1 <= Bytes[j.request]
    BY <1>3, <1>13
  <2> QED
    BY <1>5, <1>8, <1>9, <1>13, <2>1 DEF j, k
<1> QED
  BY <1>4, <1>11, <1>12, <1>13

\* The writer's receipt of a reading that ended passes the verifier's own rules, or
\* fails them by the identities it copied.
LEMMA ReceiptVerifies ==
  ASSUME NEW j \in JobRecord, j.step = "read", Books(j), Result(j.run), Identities(j)
  PROVE  /\ Receipt(j) \in ReceiptRecord
         /\ Acceptable(j.request, Receipt(j))
         /\ Receipt(j).run.state = "OBSERVED_CANDIDATE" => root[operation].complete = "whole"
<1> DEFINE b == Receipt(j)
           state == IF j.failed \/ j.reason = "refused" THEN "UNKNOWN_HOLD_RETAINED" ELSE "REVIEW_RECORDED"
           relation == source_relation(j.request, observed(j))
<1>1. /\ b.state = state /\ b.observed = observed(j) /\ b.relation = relation
      /\ b.run = IF state # "REVIEW_RECORDED" \/ relation # "MATCH" THEN Unknown ELSE j.run
      /\ b.charged.read_calls = j.calls /\ b.charged.read_bytes = j.bytes
      /\ b.charged = [read_calls |-> j.calls, read_bytes |-> j.bytes]
      /\ b.trace = j.trace /\ b.reason = j.reason /\ b.ids = j.ids
  BY DEF Receipt
<1>2. /\ j.calls \in Nat /\ j.bytes \in Nat /\ j.trace \in Seq(FileName) /\ j.run \in Outcome
      /\ j.reason \in Reasons /\ j.seen \in Manifest /\ j.ids \in {None, "typed", "ill"}
  BY DEF JobRecord, Reasons
<1>3. observed(j) \in Manifest \union {None}
  BY <1>2 DEF observed
<1>4. relation \in {"MATCH", "MISMATCH", "UNKNOWN"}
  BY DEF source_relation
<1>5. Unknown \in Outcome /\ Unknown.state = "UNKNOWN"
  BY DEF Unknown, Outcome
<1>6. state \in {"REVIEW_RECORDED", "UNKNOWN_HOLD_RETAINED"}
  OBVIOUS
<1>7. b \in ReceiptRecord
  <2> HIDE DEF state, relation
  <2>1. b = [state |-> state, observed |-> observed(j), relation |-> relation,
             run |-> IF state # "REVIEW_RECORDED" \/ relation # "MATCH" THEN Unknown ELSE j.run,
             charged |-> [read_calls |-> j.calls, read_bytes |-> j.bytes], trace |-> j.trace, reason |-> j.reason,
             ids |-> j.ids]
    BY DEF Receipt, state, relation
  <2> HIDE DEF b
  <2> QED
    BY <1>2, <1>3, <1>4, <1>5, <1>6, <2>1 DEF ReceiptRecord, Reasons
<1>8. state = "REVIEW_RECORDED" =>
        /\ ~j.failed /\ j.reason = None /\ SelectedRead(j.trace)
        /\ j.calls = Len(j.trace) /\ j.bytes = Len(j.trace)
  BY DEF Books
<1>9. SelectedRead(j.trace) => Len(j.trace) >= 3 /\ SubSeq(j.trace, 1, 3) = Selected
  <2> SUFFICES ASSUME SelectedRead(j.trace) PROVE Len(j.trace) >= 3 /\ SubSeq(j.trace, 1, 3) = Selected
    OBVIOUS
  <2>1. Len(j.trace) >= 3 /\ j.trace[1] = "plan" /\ j.trace[2] = "trust" /\ j.trace[3] = "module"
    BY DEF SelectedRead
  <2>2. \A i \in 1..3 : j.trace[i] \in FileName
    BY <2>1 DEF FileName
  <2>3. 1 \in Int /\ 3 \in Int
    OBVIOUS
  <2> DEFINE t == SubSeq(j.trace, 1, 3)
  <2>4. /\ t \in Seq(FileName) /\ Len(t) = IF 1 <= 3 THEN 3 - 1 + 1 ELSE 0
        /\ \A i \in 1..3 - 1 + 1 : t[i] = j.trace[1 + i - 1]
    BY <2>2, <2>3, SubSeqProperties
  <2> HIDE DEF t
  <2>5. Len(t) = 3 /\ t[1] = "plan" /\ t[2] = "trust" /\ t[3] = "module"
    BY <2>1, <2>4
  <2>6. Selected \in Seq(FileName) /\ Len(Selected) = 3
    BY DEF Selected, FileName
  <2>7. Selected[1] = "plan" /\ Selected[2] = "trust" /\ Selected[3] = "module"
    BY DEF Selected
  <2>8. \A i \in 1..Len(t) : t[i] = Selected[i]
    BY <2>5, <2>7
  <2>9. t = Selected
    <3>1. Len(t) = Len(Selected)
      BY <2>5, <2>6
    <3> QED
      BY <2>4, <2>6, <2>8, <3>1, SeqEqual
  <2> QED
    BY <2>1, <2>9 DEF t
<1> HIDE DEF b, state, relation
<1>10. b.run.state = "OBSERVED_CANDIDATE" => state = "REVIEW_RECORDED" /\ relation = "MATCH" /\ b.run = j.run
  BY <1>1, <1>5
<1>11. b.run.state = "OBSERVED_CANDIDATE" =>
         b.run.content = "CANDIDATE" /\ b.run.intent = TRUE /\ root[operation].complete = "whole"
  BY <1>10 DEF Result
<1>12. (state = "UNKNOWN_HOLD_RETAINED" \/ relation # "MATCH") => b.run.state = "UNKNOWN"
  BY <1>1, <1>5
<1>13. /\ j.calls <= Calls[j.request] /\ j.bytes <= Bytes[j.request]
       /\ j.bytes >= Len(j.trace) /\ j.calls >= Len(j.trace)
  <2>1. Len(j.trace) \in Nat
    BY <1>2, LenProperties
  <2> QED
    BY <1>2, <2>1 DEF Books
<1>14. state = "REVIEW_RECORDED" =>
         /\ b.charged = [read_bytes |-> Len(b.trace), read_calls |-> Len(b.trace)]
         /\ Len(b.trace) >= 3 /\ SubSeq(b.trace, 1, 3) = Selected
  BY <1>1, <1>8, <1>9
<1>15. b.relation = source_relation(j.request, b.observed)
  BY <1>1 DEF relation
<1>16. CASE j.ids # "ill"
  <2>1. verify_receipt(j.request, b)
    BY <1>1, <1>2, <1>8, <1>10, <1>11, <1>12, <1>13, <1>14, <1>15, <1>16 DEF verify_receipt
  <2> QED
    BY <1>7, <1>11, <2>1 DEF Acceptable, b
<1>17. CASE j.ids = "ill"
  <2>1. j.request \in Altered /\ b.run = Unknown /\ b.ids = "ill"
    BY <1>1, <1>17 DEF Identities
  <2> QED
    BY <1>7, <1>11, <2>1 DEF Acceptable, b
<1> QED
  BY <1>16, <1>17

\* COMPLETE.json, once whole, stays whole: only the holder of the LOCK writes it, once.
LEMMA CompleteStays ==
  ASSUME IInv, [Next]_vars, NEW p \in Plan, root[p].complete = "whole"
  PROVE  root'[p].complete = "whole"
<1>1. CASE UNCHANGED root
  BY <1>1
<1>2. CASE \E x \in Plan : provision_managed_copy(x) \/ prepare_adoption(x)
  <2>1. PICK x \in Plan : \E s \in {"provisioned", "partial", "planned"} : root' = [root EXCEPT ![x].stage = s]
    BY <1>2 DEF provision_managed_copy, prepare_adoption
  <2> QED
    BY <2>1 DEF IInv, TypeOK, OperationRoot
<1>3. CASE \E x \in Plan, i \in Index : Edit(x, i)
  BY <1>3 DEF Edit, IInv, TypeOK, OperationRoot
<1>4. CASE \E c \in Caller : write_intent(c) \/ replace(c) \/ write_complete(c)
  <2>1. PICK c \in Caller : write_intent(c) \/ replace(c) \/ write_complete(c)
    BY <1>4
  <2>2. pc[c] \in Holding
    BY <2>1 DEF write_intent, replace, write_complete, Holding, Consumed, Authorized
  <2>3. plan[c] # p
    BY <2>2 DEF IInv, CallerInv
  <2> QED
    BY <2>1, <2>3 DEF write_intent, replace, write_complete, IInv, TypeOK
<1> QED
  BY <1>1, <1>2, <1>3, <1>4, ZenonT(120)
  DEF Next, Adopt, vars, adopt_selected, attach, reopen, reserve, fail, return, approve, lock_root,
      _consume, _plan, consume_once, verify_candidate, _complete, attach_review, Crash

--------------------------------------------------------------------------------
(* The invariant of a paid review, step by step                                 *)

RPool == [attached : BOOLEAN, jammed : BOOLEAN, reviews : BOOLEAN, entries : [Review -> ReviewEntry \union {None}]]

LEMMA IdleJob == Idle \in JobRecord /\ Idle.step = "idle" /\ Idle.run = Unknown
<1>1. Idle \in JobRecord
  BY JobFresh DEF Idle, JobSteps
<1> QED
  BY <1>1 DEF Idle, Job

LEMMA UnknownResult == Result(Unknown) /\ Unknown.state = "UNKNOWN" /\ Unknown.content = "UNKNOWN"
  BY DEF Result, Unknown

\* A reading that goes on, or ends, keeps its request; all that it opened is on its books.
LEMMA ReadingStep ==
  ASSUME ReviewInv, NEW v \in Reviewer, NEW k \in JobRecord,
         job[v].step # "idle", job' = [job EXCEPT ![v] = k], k.request = job[v].request,
         Books(k), Result(k.run), Identities(k), k.step \in {"selecting", "reconciling", "read"},
         reads' = [reads EXCEPT ![job[v].request] = k.calls], readers' \subseteq Reviewer,
         UNCHANGED <<vars, rpool, rlive, ropened, retained>>
  PROVE  ReviewInv'
<1> DEFINE q == job[v].request
<1>1. q \in Review /\ ConsumedEntry(q) /\ k.calls \in Nat /\ k.calls <= Calls[q]
  BY DEF ReviewInv, JobInv, Books, JobRecord
<1>2. job \in [Reviewer -> JobRecord] /\ reads \in [Review -> Nat]
  BY DEF ReviewInv, ReviewTypeOK
<1>3. IInv' /\ TypeOK'
  BY NextIInv DEF ReviewInv, IInv
<1>4. ReviewTypeOK'
  BY <1>1, <1>2, <1>3 DEF ReviewInv, ReviewTypeOK
<1>5. root' = root
  BY DEF vars
<1>6. ASSUME NEW w \in Reviewer PROVE JobInv(w)'
  <2>1. CASE w = v
    BY <1>1, <1>2, <1>5, <2>1 DEF JobInv, Result, Books, Identities, ConsumedEntry
  <2>2. CASE w # v
    <3>1. job'[w] = job[w] /\ JobInv(w)
      BY <1>2, <2>2 DEF ReviewInv
    <3>2. job[w].step # "idle" => job[w].request # q
      BY <2>2 DEF ReviewInv, OneReader
    <3> QED
      BY <1>1, <1>2, <1>5, <3>1, <3>2 DEF JobInv, Result, Books, Identities, ConsumedEntry, HasReceipt
  <2> QED
    BY <2>1, <2>2
<1>7. ASSUME NEW x \in Review PROVE RequestInv(x)'
  BY <1>1, <1>2, <1>5 DEF ReviewInv, RequestInv, ConsumedEntry, HasReceipt, Acceptable, verify_receipt
<1>8. OneReader'
  BY <1>2 DEF ReviewInv, OneReader
<1> QED
  BY <1>3, <1>4, <1>6, <1>7, <1>8 DEF ReviewInv

LEMMA ReadStep == ASSUME ReviewInv, NEW v \in Reviewer, read(v) PROVE ReviewInv'
<1> DEFINE j == job[v]
           k == job'[v]
<1>1. /\ job' = [job EXCEPT ![v] = k]
      /\ k \in JobRecord /\ k.request = j.request /\ Books(k) /\ Result(k.run) /\ Identities(k)
      /\ k.step \in {"selecting", "reconciling", "read"} /\ k.calls = j.calls + 1
  BY ReadEffect, ReadIdentities
<1>2. j.step # "idle" /\ reads[j.request] = j.calls
  BY DEF read, Reads, ReviewInv, JobInv
<1>3. reads' = [reads EXCEPT ![j.request] = k.calls]
  BY <1>1, <1>2 DEF read, ReviewInv, ReviewTypeOK
<1>4. readers' \subseteq Reviewer /\ UNCHANGED <<vars, rpool, rlive, ropened, retained>>
  BY DEF read, ReviewInv, ReviewTypeOK
<1> HIDE DEF k
<1> QED
  BY <1>1, <1>2, <1>3, <1>4, ReadingStep

LEMMA ReadFailsStep == ASSUME ReviewInv, NEW v \in Reviewer, read_fails(v) PROVE ReviewInv'
<1> DEFINE j == job[v]
           k == job'[v]
<1>1. /\ job' = [job EXCEPT ![v] = k]
      /\ k \in JobRecord /\ k.request = j.request /\ Books(k) /\ Result(k.run)
      /\ k.step = "read" /\ k.calls \in {j.calls, j.calls + 1}
      /\ k.run = j.run /\ k.ids = j.ids
  BY FailEffect
<1>5. Identities(k)
  <2>1. Identities(j)
    BY DEF read_fails, Reads, ReviewInv, JobInv
  <2> QED
    BY <1>1, <2>1 DEF Identities
<1>2. j.step # "idle" /\ reads[j.request] = j.calls /\ j.calls \in Nat
  BY DEF read_fails, Reads, ReviewInv, ReviewTypeOK, JobInv, JobRecord
<1>3. reads' = [reads EXCEPT ![j.request] = k.calls]
  <2>1. reads' = [reads EXCEPT ![j.request] = @ + (k.calls - j.calls)]
    BY DEF read_fails
  <2>2. j.calls + (k.calls - j.calls) = k.calls
    BY <1>1, <1>2
  <2> QED
    BY <1>2, <2>1, <2>2 DEF ReviewInv, ReviewTypeOK
<1>4. readers' \subseteq Reviewer /\ UNCHANGED <<vars, rpool, rlive, ropened, retained>>
  BY DEF read_fails, ReviewInv, ReviewTypeOK
<1> HIDE DEF k
<1> QED
  BY <1>1, <1>2, <1>3, <1>4, <1>5, ReadingStep

\* A reading that ends without a read, its plan known or not: the selection refused, or
\* the LOCK taken.
LEMMA EndedStep ==
  ASSUME ReviewInv, NEW v \in Reviewer, job[v].step \in {"selecting", "reconciling"}, NEW why \in Reasons,
         job[v].step = "selecting" => why = "refused", why \in {None, "refused"},
         NEW known \in {None, job[v].ids},
         job' = [job EXCEPT ![v] = Ended([job[v] EXCEPT !.ids = known], why)],
         UNCHANGED <<vars, rpool, rlive, ropened, readers, retained, reads>>
  PROVE  ReviewInv'
<1> DEFINE j == job[v]
           m == [j EXCEPT !.ids = known]
           k == Ended(m, why)
<1>1. j \in JobRecord
  BY DEF ReviewInv, ReviewTypeOK
<1>2. Books(j) /\ Result(j.run) /\ Identities(j) /\ reads[j.request] = j.calls
  BY DEF ReviewInv, JobInv
<1>3. /\ k \in JobRecord /\ k.step = "read" /\ k.reason = why /\ k.ids = known
      /\ k.request = j.request /\ k.run = j.run /\ SameBooks(j, k)
  <2>1. known \in {None, "typed", "ill"}
    BY <1>1 DEF JobRecord
  <2>2. /\ m \in JobRecord /\ m.request = j.request /\ m.run = j.run /\ m.ids = known /\ SameBooks(j, m)
    BY <1>1, <2>1, JobIds
  <2> HIDE DEF m
  <2>3. k \in JobRecord /\ k.step = "read" /\ k.reason = why /\ SameReading(m, k) /\ SameBooks(m, k)
    BY <2>2, JobEnded
  <2> QED
    BY <2>2, <2>3 DEF SameReading, SameBooks
<1> HIDE DEF k, m
<1>4. Books(k) /\ Identities(k)
  BY <1>2, <1>3, PaidReviewAssumption DEF Books, SameBooks, Identities
<1>5. reads' = [reads EXCEPT ![j.request] = k.calls]
  BY <1>2, <1>3 DEF SameBooks, ReviewInv, ReviewTypeOK
<1>6. Result(k.run) /\ k.request = j.request
  BY <1>2, <1>3
<1>7. job' = [job EXCEPT ![v] = k]
  BY DEF k, m
<1>8. readers' \subseteq Reviewer
  BY DEF ReviewInv, ReviewTypeOK
<1> QED
  BY <1>3, <1>4, <1>5, <1>6, <1>7, <1>8, ReadingStep

LEMMA RefuseStep == ASSUME ReviewInv, NEW v \in Reviewer, refuse_selection(v) PROVE ReviewInv'
<1> DEFINE j == job[v]
<1>1. UNCHANGED <<vars, rpool, rlive, ropened, readers, retained, reads>> /\ "refused" \in Reasons
  BY DEF refuse_selection, Reasons
<1>2. CASE j.step = "selecting" /\ Step(v, Ended(j, "refused"))
  <2>1. [j EXCEPT !.ids = j.ids] = j
    BY DEF ReviewInv, ReviewTypeOK, JobRecord
  <2> QED
    BY <1>1, <1>2, <2>1, EndedStep DEF Step
<1>3. CASE j.step = "reconciling" /\ \E known \in {None, j.ids} : Step(v, Ended([j EXCEPT !.ids = known], "refused"))
  BY <1>1, <1>3, EndedStep DEF Step
<1> QED
  BY <1>2, <1>3 DEF refuse_selection

LEMMA LockSharedStep == ASSUME ReviewInv, NEW v \in Reviewer, lock_shared(v) PROVE ReviewInv'
<1>1. job[v].step = "reconciling" /\ UNCHANGED <<vars, rpool, rlive, ropened, retained, reads>>
  BY DEF lock_shared
<1>2. CASE readers' = readers \union {v} /\ UNCHANGED job
  <2>1. IInv' /\ TypeOK' /\ root' = root
    BY <1>1, NextIInv DEF ReviewInv, IInv, vars
  <2>2. ReviewTypeOK'
    BY <1>1, <1>2, <2>1 DEF ReviewInv, ReviewTypeOK
  <2>3. UNCHANGED <<rpool, rlive, retained, reads, root, job>>
    BY <1>1, <1>2, <2>1
  <2>4. ASSUME NEW w \in Reviewer PROVE JobInv(w)'
    <3>1. JobInv(w)
      BY DEF ReviewInv
    <3> QED
      BY <2>3, <3>1 DEF JobInv, Result, Books, Identities, ConsumedEntry, HasReceipt
  <2>5. ASSUME NEW q \in Review PROVE RequestInv(q)'
    <3>1. RequestInv(q)
      BY DEF ReviewInv
    <3> QED
      BY <2>3, <3>1 DEF RequestInv, ConsumedEntry, HasReceipt, Acceptable, verify_receipt
  <2>6. OneReader'
    BY <2>3 DEF ReviewInv, OneReader
  <2> QED
    BY <2>1, <2>2, <2>4, <2>5, <2>6 DEF ReviewInv
<1>3. CASE job' = [job EXCEPT ![v] = Ended(job[v], None)] /\ UNCHANGED readers
  <2>1. [job[v] EXCEPT !.ids = job[v].ids] = job[v]
    BY DEF ReviewInv, ReviewTypeOK, JobRecord
  <2> QED
    BY <1>1, <1>3, <2>1, EndedStep DEF Reasons
<1> QED
  BY <1>2, <1>3 DEF lock_shared, Step

\* A reviewer that lets go of its reading, with or without its capabilities.
LEMMA DroppedStep ==
  ASSUME ReviewInv, NEW v \in Reviewer, job' = [job EXCEPT ![v] = Idle],
         ropened' \subseteq Reviewer, readers' \subseteq Reviewer,
         rlive' \in [Reviewer -> SUBSET Review], \A w \in Reviewer : rlive'[w] \subseteq rlive[w],
         UNCHANGED <<vars, rpool, retained, reads>>
  PROVE  ReviewInv'
<1>1. IInv' /\ TypeOK' /\ root' = root
  BY NextIInv DEF ReviewInv, IInv, vars
<1>2. job \in [Reviewer -> JobRecord]
  BY DEF ReviewInv, ReviewTypeOK
<1>3. ReviewTypeOK'
  BY <1>1, <1>2, IdleJob DEF ReviewInv, ReviewTypeOK
<1>4. ASSUME NEW w \in Reviewer PROVE JobInv(w)'
  <2>1. CASE w = v
    <3>1. job'[w].step = "idle" /\ job'[w].run = Unknown
      BY <1>2, <2>1, IdleJob
    <3> QED
      BY <3>1, UnknownResult DEF JobInv, Result
  <2>2. CASE w # v
    BY <1>1, <1>2, <2>2 DEF ReviewInv, JobInv, Result, Books, Identities, ConsumedEntry, HasReceipt
  <2> QED
    BY <2>1, <2>2
<1>5. ASSUME NEW x \in Review PROVE RequestInv(x)'
  BY <1>1 DEF ReviewInv, RequestInv, ConsumedEntry, HasReceipt, Acceptable, verify_receipt
<1>6. OneReader'
  BY <1>2, IdleJob DEF ReviewInv, OneReader
<1> QED
  BY <1>1, <1>3, <1>4, <1>5, <1>6 DEF ReviewInv

LEMMA GiveUpStep == ASSUME ReviewInv, NEW v \in Reviewer, give_up(v) PROVE ReviewInv'
  BY DroppedStep DEF give_up, Step, ReviewInv, ReviewTypeOK

LEMMA ReviewerCrashStep == ASSUME ReviewInv, NEW v \in Reviewer, ReviewerCrash(v) PROVE ReviewInv'
  BY DroppedStep DEF ReviewerCrash, Step, ReviewInv, ReviewTypeOK

\* The receipt is retained whole and verifies, or only its directory is left.
LEMMA RetainStep == ASSUME ReviewInv, NEW v \in Reviewer, retain(v) PROVE ReviewInv'
<1> DEFINE j == job[v]
           q == j.request
<1>1. /\ j \in JobRecord /\ job \in [Reviewer -> JobRecord] /\ reads \in [Review -> Nat]
      /\ retained \in [Review -> ReceiptRecord \union {None, Partial}]
  BY DEF ReviewInv, ReviewTypeOK
<1>2. /\ j.step = "read" /\ Books(j) /\ Result(j.run) /\ Identities(j) /\ q \in Review /\ retained[q] = None
      /\ ConsumedEntry(q) /\ reads[q] = j.calls
  BY DEF retain, ReviewInv, JobInv, Books
<1>3. UNCHANGED <<vars, rpool, rlive, ropened, readers, reads>>
  BY DEF retain
<1>4. IInv' /\ TypeOK' /\ root' = root
  BY <1>3, NextIInv DEF ReviewInv, IInv, vars
<1>5. \A w \in Reviewer : w # v /\ job[w].step # "idle" => job[w].request # q
  BY <1>2 DEF ReviewInv, OneReader
<1>6. CASE retained' = [retained EXCEPT ![q] = Receipt(j)] /\ Step(v, [j EXCEPT !.step = "retained"])
  <2> DEFINE k == [j EXCEPT !.step = "retained"]
             b == Receipt(j)
  <2>1. /\ k \in JobRecord /\ k.step = "retained" /\ k.reason = j.reason /\ SameReading(j, k) /\ SameBooks(j, k)
    BY <1>1, JobStepped DEF JobSteps
  <2>2. /\ b \in ReceiptRecord /\ Acceptable(q, b)
        /\ b.run.state = "OBSERVED_CANDIDATE" => root[operation].complete = "whole"
    BY <1>1, <1>2, ReceiptVerifies
  <2>3. b # None /\ b # Partial
    <3>1. b.state # "partial"
      BY <2>2 DEF ReceiptRecord
    <3>2. Partial.state = "partial"
      BY DEF Partial
    <3> QED
      BY <2>2, <3>1, <3>2, PaidReviewAssumption
  <2>4. job' = [job EXCEPT ![v] = k] /\ retained' = [retained EXCEPT ![q] = b]
    BY <1>6 DEF Step
  <2> HIDE DEF k, b
  <2>5. ReviewTypeOK'
    BY <1>1, <1>2, <1>3, <1>4, <2>1, <2>2, <2>4 DEF ReviewInv, ReviewTypeOK
  <2>6. Books(k) /\ Identities(k) /\ Result(k.run) /\ k.request = q /\ k.calls = j.calls
    BY <1>2, <2>1 DEF Books, Identities, SameReading, SameBooks
  <2>7. ASSUME NEW w \in Reviewer PROVE JobInv(w)'
    <3>1. CASE w = v
      BY <1>1, <1>2, <1>3, <1>4, <2>1, <2>3, <2>4, <2>6, <3>1
      DEF JobInv, Result, Books, Identities, ConsumedEntry, HasReceipt, SelectedRead, Partial
    <3>2. CASE w # v
      <4>1. JobInv(w) /\ job'[w] = job[w] /\ UNCHANGED <<rpool, reads, root>>
        BY <1>1, <1>3, <1>4, <2>4, <3>2 DEF ReviewInv
      <4>2. job[w].step # "idle" => job[w].request # q /\ job[w].request \in Review
        BY <1>5, <3>2, <4>1 DEF JobInv, Books
      <4>3. job[w].step # "idle" => retained'[job[w].request] = retained[job[w].request]
        BY <1>1, <2>4, <4>2
      <4> QED
        BY <4>1, <4>3 DEF JobInv, Result, Books, Identities, ConsumedEntry, HasReceipt, SelectedRead, Partial
    <3> QED
      BY <3>1, <3>2
  <2>8. ASSUME NEW x \in Review PROVE RequestInv(x)'
    <3>1. CASE x = q
      <4>1. retained'[x] = b
        BY <1>1, <1>2, <2>4, <3>1
      <4>2. Acceptable(x, retained[x])'
        BY <2>2, <3>1, <4>1 DEF Acceptable, verify_receipt
      <4> QED
        BY <1>2, <1>3, <1>4, <2>2, <2>3, <3>1, <4>1, <4>2 DEF ReviewInv, RequestInv, ConsumedEntry, HasReceipt, Partial
    <3>2. CASE x # q
      <4>1. retained'[x] = retained[x] /\ RequestInv(x)
        BY <1>1, <2>4, <3>2 DEF ReviewInv
      <4> QED
        BY <1>3, <1>4, <4>1 DEF RequestInv, ConsumedEntry, HasReceipt, Partial, Acceptable, verify_receipt
    <3> QED
      BY <3>1, <3>2
  <2>9. OneReader'
    BY <1>1, <1>2, <2>1, <2>4 DEF ReviewInv, OneReader, SameReading
  <2> QED
    BY <1>4, <2>5, <2>7, <2>8, <2>9 DEF ReviewInv
<1>7. CASE retained' = [retained EXCEPT ![q] = Partial] /\ Step(v, Idle)
  <2>1. job' = [job EXCEPT ![v] = Idle] /\ retained' = [retained EXCEPT ![q] = Partial]
    BY <1>7 DEF Step
  <2>2. ReviewTypeOK'
    BY <1>1, <1>2, <1>3, <1>4, <2>1, IdleJob DEF ReviewInv, ReviewTypeOK
  <2>3. ASSUME NEW w \in Reviewer PROVE JobInv(w)'
    <3>1. CASE w = v
      <4>1. job'[w].step = "idle" /\ job'[w].run = Unknown
        BY <1>1, <2>1, <3>1, IdleJob
      <4> QED
        BY <4>1, UnknownResult DEF JobInv, Result
    <3>2. CASE w # v
      <4>1. JobInv(w) /\ job'[w] = job[w] /\ UNCHANGED <<rpool, reads, root>>
        BY <1>1, <1>3, <1>4, <2>1, <3>2 DEF ReviewInv
      <4>2. job[w].step # "idle" => job[w].request # q /\ job[w].request \in Review
        BY <1>5, <3>2, <4>1 DEF JobInv, Books
      <4>3. job[w].step # "idle" => retained'[job[w].request] = retained[job[w].request]
        BY <1>1, <2>1, <4>2
      <4> QED
        BY <4>1, <4>3 DEF JobInv, Result, Books, Identities, ConsumedEntry, HasReceipt, SelectedRead, Partial
    <3> QED
      BY <3>1, <3>2
  <2>4. ASSUME NEW x \in Review PROVE RequestInv(x)'
    <3>0. RequestInv(x)
      BY DEF ReviewInv
    <3>1. CASE x = q
      <4>1. ~HasReceipt(x) /\ ~HasReceipt(x)'
        BY <1>1, <1>2, <2>1, <3>1 DEF HasReceipt, Partial
      <4> QED
        BY <1>3, <1>4, <3>0, <4>1 DEF RequestInv, ConsumedEntry
    <3>2. CASE x # q
      <4>1. retained'[x] = retained[x]
        BY <1>1, <2>1, <3>2
      <4> QED
        BY <1>3, <1>4, <3>0, <4>1 DEF RequestInv, ConsumedEntry, HasReceipt, Partial, Acceptable, verify_receipt
    <3> QED
      BY <3>1, <3>2
  <2>5. OneReader'
    BY <1>1, <2>1, IdleJob DEF ReviewInv, OneReader
  <2> QED
    BY <1>4, <2>2, <2>3, <2>4, <2>5 DEF ReviewInv
<1> QED
  BY <1>6, <1>7 DEF retain

\* One entry of the review pool is changed: published, or interrupted.
LEMMA PublishEffect ==
  ASSUME ReviewTypeOK, NEW q \in Review, NEW e \in ReviewEntry, NEW r, r = [rpool EXCEPT !.entries[q] = e],
         PaidReviewPool_publish(r)
  PROVE  /\ rpool' \in RPool
         /\ \A x \in Review \ {q} : rpool'.entries[x] = rpool.entries[x]
         /\ rpool'.entries[q] \in {e, rpool.entries[q]}
         /\ Published => rpool'.entries[q] = e
<1>1. rpool \in RPool
  BY DEF ReviewTypeOK, RPool
<1>2. r \in RPool /\ r.entries = [rpool.entries EXCEPT ![q] = e] /\ rpool.entries \in [Review -> ReviewEntry \union {None}]
  BY <1>1 DEF RPool
<1> DEFINE jam == [rpool EXCEPT !.jammed = TRUE]
<1>3. jam \in RPool /\ jam.entries = rpool.entries /\ jam.jammed
  BY <1>1 DEF RPool
<1>4. rpool' \in {r, jam}
  BY DEF PaidReviewPool_publish
<1> HIDE DEF jam
<1>5. r.entries[q] = e /\ \A x \in Review \ {q} : r.entries[x] = rpool.entries[x]
  BY <1>2
<1> QED
  BY <1>2, <1>3, <1>4, <1>5 DEF Published

\* A change of the pool that loses no entry and no mark leaves the rest as it was.
LEMMA PoolStep ==
  ASSUME ReviewInv, rpool' \in RPool,
         rlive' \in [Reviewer -> SUBSET Review],
         \A w \in Reviewer, x \in Review : x \in rlive'[w] => rpool'.entries[x] # None,
         \A x \in Review : ConsumedEntry(x) => ConsumedEntry(x)',
         \A x \in Review : rpool'.entries[x] # None /\ rpool'.entries[x].receipt => HasReceipt(x),
         job' \in [Reviewer -> JobRecord], \A w \in Reviewer : job'[w] = job[w] \/ JobInv(w)', OneReader',
         ropened' \subseteq Reviewer, UNCHANGED <<vars, readers, retained, reads>>
  PROVE  ReviewInv'
<1>1. IInv' /\ TypeOK' /\ root' = root
  BY NextIInv DEF ReviewInv, IInv, vars
<1>2. ReviewTypeOK'
  BY <1>1 DEF ReviewInv, ReviewTypeOK, RPool
<1>3. ASSUME NEW w \in Reviewer, job'[w] = job[w] PROVE JobInv(w)'
  <2>1. JobInv(w)
    BY DEF ReviewInv
  <2>2. ASSUME job[w].step # "idle" PROVE ConsumedEntry(job[w].request)'
    <3>1. job[w].request \in Review /\ ConsumedEntry(job[w].request)
      BY <2>1, <2>2 DEF JobInv, Books
    <3> QED
      BY <1>3, <3>1 DEF ConsumedEntry
  <2> QED
    BY <1>1, <1>3, <2>1, <2>2 DEF JobInv, Result, Books, Identities, HasReceipt, Partial, ConsumedEntry
<1>4. ASSUME NEW x \in Review PROVE RequestInv(x)'
  BY <1>1 DEF ReviewInv, RequestInv, HasReceipt, Partial, Acceptable, verify_receipt
<1> QED
  BY <1>1, <1>2, <1>3, <1>4 DEF ReviewInv

\* The same where no reading moves.
LEMMA JobsStay ==
  ASSUME ReviewInv, job' = job
  PROVE  job' \in [Reviewer -> JobRecord] /\ (\A w \in Reviewer : job'[w] = job[w]) /\ OneReader'
  BY DEF ReviewInv, ReviewTypeOK, OneReader

LEMMA AttachReviewPoolStep == ASSUME ReviewInv, NEW v \in Reviewer, PaidReviewPool_attach(v) PROVE ReviewInv'
<1> DEFINE r == [rpool EXCEPT !.attached = TRUE, !.reviews = TRUE]
           jam == [rpool EXCEPT !.jammed = TRUE]
           made == [rpool EXCEPT !.reviews = TRUE]
<1>1. rpool \in RPool
  BY DEF ReviewInv, ReviewTypeOK, RPool
<1>2. r \in RPool /\ r.entries = rpool.entries
  BY <1>1 DEF RPool
<1>3. jam \in RPool /\ jam.entries = rpool.entries /\ made \in RPool /\ made.entries = rpool.entries
  BY <1>1 DEF RPool
<1>4. rpool' \in {r, jam, made}
  BY DEF PaidReviewPool_attach, PaidReviewPool_publish
<1>5. rpool' \in RPool /\ rpool'.entries = rpool.entries
  BY <1>2, <1>3, <1>4
<1>6. ropened' \subseteq Reviewer /\ UNCHANGED <<vars, rlive, job, readers, retained, reads>>
  BY DEF PaidReviewPool_attach, ReviewInv, ReviewTypeOK
<1>7. \A x \in Review : ConsumedEntry(x) => ConsumedEntry(x)'
  BY <1>5 DEF ConsumedEntry
<1> QED
  BY <1>5, <1>6, <1>7, PoolStep, JobsStay DEF ReviewInv, ReviewTypeOK, RequestInv

LEMMA ReopenReviewPoolStep == ASSUME ReviewInv, NEW v \in Reviewer, PaidReviewPool_reopen(v) PROVE ReviewInv'
<1>1. ropened' \subseteq Reviewer /\ UNCHANGED <<vars, rpool, rlive, job, readers, retained, reads>>
  BY DEF PaidReviewPool_reopen, ReviewInv, ReviewTypeOK
<1>2. \A x \in Review : ConsumedEntry(x) => ConsumedEntry(x)'
  BY <1>1 DEF ConsumedEntry
<1> QED
  BY <1>1, <1>2, PoolStep, JobsStay DEF ReviewInv, ReviewTypeOK, RPool, RequestInv

\* A reserved request has an entry, and a capability only where it was told.
LEMMA ReserveReviewStep ==
  ASSUME ReviewInv, NEW v \in Reviewer, NEW q \in Review, PaidReviewPool_reserve(v, q) PROVE ReviewInv'
<1> DEFINE e == [consumed |-> FALSE, receipt |-> FALSE]
           r == [rpool EXCEPT !.entries[q] = e]
<1>1. e \in ReviewEntry /\ ~e.receipt
  BY DEF ReviewEntry
<1>2. ReviewTypeOK /\ PaidReviewPool_publish(r) /\ rpool.entries[q] = None
  BY DEF ReviewInv, PaidReviewPool_reserve
<1> HIDE DEF e
<1>10. e # None
  BY <1>1, PaidReviewAssumption
<1>3. /\ rpool' \in RPool
      /\ \A x \in Review \ {q} : rpool'.entries[x] = rpool.entries[x]
      /\ rpool'.entries[q] \in {e, rpool.entries[q]}
      /\ Published => rpool'.entries[q] = e
  BY <1>1, <1>2, PublishEffect
<1>4. PICK told \in BOOLEAN : (told => Published) /\ rlive' = [rlive EXCEPT ![v] = IF told THEN @ \union {q} ELSE @]
  BY DEF PaidReviewPool_reserve
<1>5. UNCHANGED <<vars, ropened, job, readers, retained, reads>>
  BY DEF PaidReviewPool_reserve
<1>6. rlive' \in [Reviewer -> SUBSET Review]
  BY <1>2, <1>4 DEF ReviewTypeOK
<1>7. \A w \in Reviewer, x \in Review : x \in rlive'[w] => rpool'.entries[x] # None
  BY <1>2, <1>3, <1>4, <1>10 DEF ReviewInv, RequestInv, ReviewTypeOK
<1>8. \A x \in Review : ConsumedEntry(x) => ConsumedEntry(x)'
  BY <1>2, <1>3 DEF ConsumedEntry
<1>9. \A x \in Review : rpool'.entries[x] # None /\ rpool'.entries[x].receipt => HasReceipt(x)
  BY <1>1, <1>2, <1>3 DEF ReviewInv, RequestInv
<1> QED
  BY <1>2, <1>3, <1>5, <1>6, <1>7, <1>8, <1>9, PoolStep, JobsStay DEF ReviewTypeOK

\* A reviewer that lets go of its reading leaves the others theirs.
LEMMA JobGone ==
  ASSUME ReviewInv, NEW v \in Reviewer, job' = [job EXCEPT ![v] = Idle]
  PROVE  job' \in [Reviewer -> JobRecord] /\ (\A w \in Reviewer : job'[w] = job[w] \/ JobInv(w)') /\ OneReader'
<1>1. job \in [Reviewer -> JobRecord]
  BY DEF ReviewInv, ReviewTypeOK
<1>2. job' \in [Reviewer -> JobRecord]
  BY <1>1, IdleJob
<1>3. JobInv(v)'
  <2>1. job'[v].step = "idle" /\ job'[v].run = Unknown
    BY <1>1, IdleJob
  <2> QED
    BY <2>1, UnknownResult DEF JobInv, Result
<1>4. OneReader'
  BY <1>1, IdleJob DEF ReviewInv, OneReader
<1> QED
  BY <1>1, <1>2, <1>3, <1>4

\* A consumed request is read for the first time.
LEMMA ConsumeReviewStep ==
  ASSUME ReviewInv, NEW v \in Reviewer, NEW q \in Review, PaidReviewPool_consume(v, q) PROVE ReviewInv'
<1> DEFINE e == [rpool.entries[q] EXCEPT !.consumed = TRUE]
           r == [rpool EXCEPT !.entries[q].consumed = TRUE]
<1>1. /\ ReviewTypeOK /\ PaidReviewPool_publish(r) /\ ~rpool.entries[q].consumed
      /\ q \in rlive[v] /\ rlive' = [rlive EXCEPT ![v] = @ \ {q}]
      /\ UNCHANGED <<vars, ropened, readers, retained, reads>>
  BY DEF ReviewInv, PaidReviewPool_consume
<1>2. rpool.entries[q] \in ReviewEntry
  BY <1>1 DEF ReviewInv, RequestInv, ReviewTypeOK
<1>3. e \in ReviewEntry /\ e.consumed /\ e.receipt = rpool.entries[q].receipt
  BY <1>2 DEF ReviewEntry
<1>4. r = [rpool EXCEPT !.entries[q] = e]
  BY <1>1 DEF ReviewTypeOK
<1>5. e # None /\ rpool.entries[q] # None
  BY <1>2, <1>3, PaidReviewAssumption
<1> HIDE DEF e, r
<1>6. /\ rpool' \in RPool
      /\ \A x \in Review \ {q} : rpool'.entries[x] = rpool.entries[x]
      /\ rpool'.entries[q] \in {e, rpool.entries[q]}
      /\ Published => rpool'.entries[q] = e
  BY <1>1, <1>3, <1>4, PublishEffect
<1>7. PICK told \in BOOLEAN : /\ told => Published
                             /\ job' = [job EXCEPT ![v] = IF told THEN Job("selecting", q) ELSE Idle]
  BY DEF PaidReviewPool_consume
<1>8. rlive' \in [Reviewer -> SUBSET Review] /\ \A w \in Reviewer : rlive'[w] \subseteq rlive[w]
  BY <1>1 DEF ReviewTypeOK
<1>9. \A w \in Reviewer, x \in Review : x \in rlive'[w] => rpool'.entries[x] # None
  BY <1>5, <1>6, <1>8 DEF ReviewInv, RequestInv
<1>10. \A x \in Review : ConsumedEntry(x) => ConsumedEntry(x)'
  BY <1>1, <1>6 DEF ConsumedEntry
<1>11. \A x \in Review : rpool'.entries[x] # None /\ rpool'.entries[x].receipt => HasReceipt(x)
  BY <1>3, <1>5, <1>6 DEF ReviewInv, RequestInv
<1>12. job \in [Reviewer -> JobRecord] /\ reads \in [Review -> Nat]
  BY <1>1 DEF ReviewTypeOK
<1>13. ~ConsumedEntry(q) /\ reads[q] = 0
  <2>1. ~ConsumedEntry(q)
    BY <1>1 DEF ConsumedEntry
  <2>2. ~(reads[q] > 0)
    BY <2>1 DEF ReviewInv, RequestInv
  <2> QED
    BY <1>12, <2>1, <2>2
<1>14. \A w \in Reviewer : job[w].step # "idle" => job[w].request # q
  BY <1>13 DEF ReviewInv, JobInv
<1>15. CASE told
  <2> DEFINE k == Job("selecting", q)
  <2>1. k \in JobRecord
    BY JobFresh DEF JobSteps
  <2>2. /\ k.step = "selecting" /\ k.request = q /\ k.at = 1 /\ k.calls = 0 /\ k.bytes = 0 /\ k.trace = <<>>
        /\ k.failed = FALSE /\ k.reason = None /\ k.run = Unknown /\ k.ids = None
    BY DEF Job
  <2> HIDE DEF k
  <2>3. job' = [job EXCEPT ![v] = k]
    BY <1>7, <1>15 DEF k
  <2>4. Books(k)
    <3>1. Calls[q] \in Nat /\ Bytes[q] \in Nat
      BY PaidReviewAssumption
    <3>2. Len(k.trace) = 0
      BY <2>2
    <3> QED
      BY <2>2, <3>1, <3>2 DEF Books
  <2>5. ConsumedEntry(q)'
    BY <1>3, <1>5, <1>6, <1>7, <1>15 DEF ConsumedEntry
  <2>6. Result(Unknown)'
    BY UnknownResult DEF Result
  <2>7. job' \in [Reviewer -> JobRecord] /\ job'[v] = k
    BY <1>12, <2>1, <2>3
  <2>8. JobInv(v)'
    <3>1. reads'[q] = k.calls
      BY <1>1, <1>13, <2>2
    <3>4. Identities(job[v])'
      BY <2>2, <2>7, PaidReviewAssumption DEF Identities
    <3>2. Books(job'[v]) /\ job'[v].request = q /\ job'[v].step = "selecting" /\ job'[v].run = Unknown
      BY <2>2, <2>4, <2>7
    <3>3. Books(job[v])'
      BY <3>2 DEF Books
    <3> QED
      BY <2>5, <2>6, <2>7, <3>1, <3>2, <3>3, <3>4 DEF JobInv, Result
  <2>9. OneReader'
    BY <1>12, <1>14, <2>2, <2>3 DEF ReviewInv, OneReader
  <2>10. \A w \in Reviewer : job'[w] = job[w] \/ JobInv(w)'
    BY <1>12, <2>3, <2>8
  <2>11. ropened' \subseteq Reviewer
    BY <1>1 DEF ReviewTypeOK
  <2> QED
    BY <1>1, <1>6, <1>8, <1>9, <1>10, <1>11, <2>7, <2>9, <2>10, <2>11, PoolStep
<1>16. CASE ~told
  <2>1. job' = [job EXCEPT ![v] = Idle]
    BY <1>7, <1>16
  <2>2. job' \in [Reviewer -> JobRecord] /\ (\A w \in Reviewer : job'[w] = job[w] \/ JobInv(w)') /\ OneReader'
    BY <2>1, JobGone
  <2>3. ropened' \subseteq Reviewer
    BY <1>1 DEF ReviewTypeOK
  <2> QED
    BY <1>1, <1>6, <1>8, <1>9, <1>10, <1>11, <2>2, <2>3, PoolStep
<1> QED
  BY <1>15, <1>16

\* The receipt that is linked is there.
LEMMA FinishStep == ASSUME ReviewInv, NEW v \in Reviewer, _finish(v) PROVE ReviewInv'
<1> DEFINE q == job[v].request
           e == [rpool.entries[q] EXCEPT !.receipt = TRUE]
           r == [rpool EXCEPT !.entries[q].receipt = TRUE]
<1>1. /\ ReviewTypeOK /\ PaidReviewPool_publish(r) /\ job' = [job EXCEPT ![v] = Idle]
      /\ UNCHANGED <<vars, rlive, ropened, readers, retained, reads>>
  BY DEF ReviewInv, _finish, Step
<1>2. q \in Review /\ ConsumedEntry(q) /\ HasReceipt(q)
  BY DEF ReviewInv, _finish, JobInv, Books
<1>3. rpool.entries[q] \in ReviewEntry
  BY <1>1, <1>2 DEF ReviewTypeOK, ConsumedEntry
<1>4. e \in ReviewEntry /\ e.consumed
  BY <1>2, <1>3 DEF ReviewEntry, ConsumedEntry
<1>5. r = [rpool EXCEPT !.entries[q] = e]
  BY <1>1, <1>2 DEF ReviewTypeOK
<1>6. e # None /\ rpool.entries[q] # None
  BY <1>3, <1>4, PaidReviewAssumption
<1> HIDE DEF e, r, q
<1>7. /\ rpool' \in RPool
      /\ \A x \in Review \ {q} : rpool'.entries[x] = rpool.entries[x]
      /\ rpool'.entries[q] \in {e, rpool.entries[q]}
  BY <1>1, <1>2, <1>4, <1>5, PublishEffect
<1>8. \A w \in Reviewer, x \in Review : x \in rlive'[w] => rpool'.entries[x] # None
  BY <1>1, <1>6, <1>7 DEF ReviewInv, RequestInv
<1>9. \A x \in Review : ConsumedEntry(x) => ConsumedEntry(x)'
  BY <1>4, <1>6, <1>7 DEF ConsumedEntry
<1>10. \A x \in Review : rpool'.entries[x] # None /\ rpool'.entries[x].receipt => HasReceipt(x)
  BY <1>2, <1>7 DEF ReviewInv, RequestInv
<1>11. job' \in [Reviewer -> JobRecord] /\ (\A w \in Reviewer : job'[w] = job[w] \/ JobInv(w)') /\ OneReader'
  BY <1>1, JobGone
<1>12. ropened' \subseteq Reviewer /\ rlive' \in [Reviewer -> SUBSET Review]
  BY <1>1 DEF ReviewTypeOK
<1> QED
  BY <1>1, <1>7, <1>8, <1>9, <1>10, <1>11, <1>12, PoolStep

\* The adopter's side: what was observed stays complete.
LEMMA AdopterStep == ASSUME ReviewInv, AdoptionStep PROVE ReviewInv'
<1>1. [Next]_vars /\ UNCHANGED reviewing
  BY DEF AdoptionStep
<1>2. IInv' /\ TypeOK'
  BY <1>1, NextIInv DEF ReviewInv, IInv
<1>3. root[operation].complete = "whole" => root'[operation].complete = "whole"
  BY <1>1, CompleteStays, PaidReviewAssumption DEF ReviewInv
<1>4. ReviewTypeOK'
  BY <1>1, <1>2 DEF ReviewInv, ReviewTypeOK, reviewing
<1>5. ASSUME NEW w \in Reviewer PROVE JobInv(w)'
  BY <1>1, <1>3 DEF ReviewInv, JobInv, Result, Books, Identities, ConsumedEntry, HasReceipt, Partial, reviewing
<1>6. ASSUME NEW x \in Review PROVE RequestInv(x)'
  BY <1>1, <1>3 DEF ReviewInv, RequestInv, ConsumedEntry, HasReceipt, Partial, Acceptable, verify_receipt, reviewing
<1>7. OneReader'
  BY <1>1 DEF ReviewInv, OneReader, reviewing
<1> QED
  BY <1>2, <1>4, <1>5, <1>6, <1>7 DEF ReviewInv

\* The invariant holds before any review.
LEMMA ReviewInitInv == ReviewInit => ReviewInv
<1> SUFFICES ASSUME ReviewInit PROVE ReviewInv
  OBVIOUS
<1>1. IInv /\ TypeOK
  BY InitIInv DEF ReviewInit, IInv
<1>2. rpool \in RPool
  BY DEF ReviewInit, RPool
<1>3. ReviewTypeOK
  BY <1>1, <1>2, IdleJob DEF ReviewInit, ReviewTypeOK, RPool
<1>4. ASSUME NEW v \in Reviewer PROVE JobInv(v)
  BY IdleJob, UnknownResult DEF ReviewInit, JobInv
<1>5. ASSUME NEW q \in Review PROVE RequestInv(q)
  BY PaidReviewAssumption DEF ReviewInit, RequestInv, HasReceipt
<1>6. OneReader
  BY IdleJob DEF ReviewInit, OneReader
<1> QED
  BY <1>1, <1>3, <1>4, <1>5, <1>6 DEF ReviewInv

\* Every step of a review, and of the adoption beside it, keeps it.
LEMMA ReviewNextInv == ReviewInv /\ [ReviewNext]_reviewVars => ReviewInv'
<1> SUFFICES ASSUME ReviewInv, [ReviewNext]_reviewVars PROVE ReviewInv'
  OBVIOUS
<1>1. CASE UNCHANGED reviewVars
  <2>1. IInv'
    BY <1>1, NextIInv DEF ReviewInv, reviewVars
  <2>2. UNCHANGED <<rpool, rlive, ropened, job, readers, retained, reads, root>>
    BY <1>1 DEF reviewVars, reviewing, vars
  <2>3. TypeOK'
    BY <2>1 DEF IInv
  <2>4. ReviewTypeOK'
    BY <2>2, <2>3 DEF ReviewInv, ReviewTypeOK
  <2>5. ASSUME NEW v \in Reviewer PROVE JobInv(v)'
    <3>1. JobInv(v)
      BY DEF ReviewInv
    <3> QED
      BY <2>2, <3>1 DEF JobInv, Result, Books, Identities, ConsumedEntry, HasReceipt, Partial
  <2>6. ASSUME NEW q \in Review PROVE RequestInv(q)'
    <3>1. RequestInv(q)
      BY DEF ReviewInv
    <3> QED
      BY <2>2, <3>1 DEF RequestInv, ConsumedEntry, HasReceipt, Partial, Acceptable, verify_receipt
  <2>7. OneReader'
    BY <2>2 DEF ReviewInv, OneReader
  <2> QED
    BY <2>1, <2>4, <2>5, <2>6, <2>7 DEF ReviewInv
<1>2. CASE AdoptionStep
  BY <1>2, AdopterStep
<1>3. CASE \E v \in Reviewer : PaidReviewPool_attach(v) \/ PaidReviewPool_reopen(v)
  BY <1>3, AttachReviewPoolStep, ReopenReviewPoolStep
<1>4. CASE \E v \in Reviewer, q \in Review : PaidReviewPool_reserve(v, q) \/ PaidReviewPool_consume(v, q)
  BY <1>4, ReserveReviewStep, ConsumeReviewStep
<1>5. CASE \E v \in Reviewer : read(v) \/ read_fails(v) \/ refuse_selection(v) \/ lock_shared(v)
  BY <1>5, ReadStep, ReadFailsStep, RefuseStep, LockSharedStep
<1>6. CASE \E v \in Reviewer : retain(v) \/ _finish(v) \/ give_up(v) \/ ReviewerCrash(v)
  BY <1>6, RetainStep, FinishStep, GiveUpStep, ReviewerCrashStep
<1> QED
  BY <1>1, <1>2, <1>3, <1>4, <1>5, <1>6 DEF ReviewNext

--------------------------------------------------------------------------------
(* What a paid review guarantees                                                *)

\* The inductive invariant of a paid review and the adoption it reads.
THEOREM ReviewInvariant == ReviewSpec => []ReviewInv
  BY ReviewInitInv, ReviewNextInv, PTL DEF ReviewSpec

\* Every variable of the composition keeps its type.
THEOREM ReviewTypes == ReviewSpec => []ReviewTypeOK
<1>1. ReviewInv => ReviewTypeOK
  BY DEF ReviewInv
<1> QED
  BY ReviewInvariant, <1>1, PTL

\* Every receipt retained verifies from its bytes alone, or copies the identities of an
\* altered plan and says UNKNOWN; only a whole receipt is linked,
\* and no request opens more files than it paid for or any before it is consumed.
THEOREM RetainedReceiptsVerify == ReviewSpec => []RetainedVerifies
<1>1. ReviewInv => RetainedVerifies
  <2> SUFFICES ASSUME ReviewInv, NEW q \in Review
               PROVE  /\ HasReceipt(q) =>
                           \/ verify_receipt(q, retained[q])
                           \/ q \in Altered /\ retained[q].ids = "ill" /\ retained[q].run = Unknown
                      /\ (rpool.entries[q] # None /\ inspect(q) = "RECEIPT_LINKED") => HasReceipt(q)
                      /\ reads[q] <= Calls[q]
                      /\ reads[q] > 0 => rpool.entries[q] # None /\ rpool.entries[q].consumed
    BY DEF RetainedVerifies
  <2>1. RequestInv(q)
    BY DEF ReviewInv
  <2> QED
    BY <2>1 DEF RequestInv, Acceptable, ConsumedEntry, inspect
<1> QED
  BY ReviewInvariant, <1>1, PTL

\* A receipt that says OBSERVED_CANDIDATE is of an adoption that completed and spent
\* its approval, whatever happened between the reads.
THEOREM ReviewedOperationsAreAdopted == ReviewSpec => []ReviewedIsAdopted
<1>1. ReviewInv => ReviewedIsAdopted
  <2> SUFFICES ASSUME ReviewInv, NEW q \in Review, HasReceipt(q), retained[q].run.state = "OBSERVED_CANDIDATE"
               PROVE  /\ root[operation].complete = "whole"
                      /\ pool.entries[operation] # None /\ pool.entries[operation].completed
                      /\ root[operation].authorization \in spent
    BY DEF ReviewedIsAdopted
  <2>1. root[operation].complete = "whole"
    BY DEF ReviewInv, RequestInv
  <2>2. PlanInv(operation)
    BY PaidReviewAssumption DEF ReviewInv, IInv
  <2> QED
    BY <2>1, <2>2 DEF PlanInv
<1> QED
  BY ReviewInvariant, <1>1, PTL

\* The readings leave the adoption what it was: its own guarantees hold beside any
\* number of reviewers.
THEOREM ReviewKeepsTheAdoption ==
  ReviewSpec => [](NothingWrittenUnapproved /\ ObservedIsComplete /\ OneApprovalPerPlan)
<1>1. ReviewInv => NothingWrittenUnapproved /\ ObservedIsComplete /\ OneApprovalPerPlan
  BY WrittenIsApproved, ObservedIsSettled, OnePerPlan DEF ReviewInv
<1> QED
  BY ReviewInvariant, <1>1, PTL
================================================================================

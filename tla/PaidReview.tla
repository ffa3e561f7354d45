------------------------------- MODULE PaidReview -------------------------------
(***************************************************************************)
(* service_review: a reviewer pays, from a pool of its own, for one        *)
(* bounded reading of an adoption's operation root and retains a signed    *)
(* receipt of what it saw; service_review_receipt checks such a receipt    *)
(* later from its bytes alone.  The module composes with Adoption: the     *)
(* adopter's callers go on working on the same root, which reconcile reads *)
(* under its shared lock.  paid_review executes the exact code of          *)
(* service_adoption_v1, so the operation reviewed is one of that version   *)
(* and its accounting root is not the review's.                            *)
(*                                                                         *)
(* A read of one file is a step, with the outcomes of _Reader.read; the    *)
(* frozen records of the plan are read as one.  A file counts one byte.    *)
(* The reservation of the trace is part of Calls, the bound on reads.      *)
(***************************************************************************)
EXTENDS Adoption, Sequences

CONSTANTS
  Reviewer,       \* processes that review
  Review,         \* requests, all of the same operation
  operation,      \* the plan reviewed
  Calls, Bytes,   \* read_calls and read_bytes of each request
  expected,       \* the source each request expects: "base" or "candidate"
  Altered,        \* the requests that select a copy of the plan altered by hand
  ReviewSlots     \* how many reviews the pool's capacities admit

ReviewEntry == [consumed : BOOLEAN, receipt : BOOLEAN]
FileName == {"plan", "trust", "module", "FIXTURE", "frozen", "copy", "INTENT", "COMPLETE"}
Manifest == [Index -> {"base", "candidate", "edited", None}]
Outcome == [state : {"UNKNOWN", "OBSERVED_CANDIDATE"}, content : {"UNKNOWN", "BASE", "CANDIDATE", "MIXED"},
            intent : BOOLEAN \union {None}]
ReceiptRecord ==
  [state : {"REVIEW_RECORDED", "UNKNOWN_HOLD_RETAINED"}, observed : Manifest \union {None},
   relation : {"MATCH", "MISMATCH", "UNKNOWN"}, run : Outcome,
   charged : [read_calls : Nat, read_bytes : Nat], trace : Seq(FileName), reason : {None, "failed", "refused"},
   ids : {None, "typed", "ill"}]
ASSUME PaidReviewAssumption ==
  /\ operation \in Plan
  /\ Calls \in [Review -> Nat \ {0}] /\ Bytes \in [Review -> Nat \ {0}]
  /\ expected \in [Review -> {"base", "candidate"}]
  /\ Altered \subseteq Review
  /\ ReviewSlots \in Nat
  /\ None \notin Reviewer \union Review \union ReviewEntry \union ReceiptRecord \union {"typed", "ill"}

VARIABLES
  rpool,      \* the review pool: attached, interrupted, reviews/ made, its entries
  rlive,      \* _live of each reviewer
  ropened,    \* the reviewers with a PaidReviewPool object
  job,        \* the reading each reviewer is at
  readers,    \* who holds the operation's LOCK shared
  retained,   \* reviews/<key>: TRACE.json and RECEIPT.json
  reads       \* how many files were opened for each request, in all

reviewing == <<rpool, rlive, ropened, job, readers, retained, reads>>
reviewVars == <<vars, reviewing>>

\* What paid_review reads, in order: the selection, then reconcile's files.
Selected == <<"plan", "trust", "module">>
Script == Selected \o <<"FIXTURE", "frozen">> \o [i \in Index |-> "copy"] \o <<"INTENT", "COMPLETE">>
CopyIndex(at) == at - 5     \* which file of the copy is read there

\* task_id, requirements_sha256 and selection_sha256 of the plan a request selects.
\* prepare_adoption writes text and hashes; a copy altered by hand need not hold such.
SelectedIds(q) == IF q \in Altered THEN "ill" ELSE "typed"

Unread == [i \in Index |-> None]
Unknown == [state |-> "UNKNOWN", content |-> "UNKNOWN", intent |-> None]
Job(step, q) ==
  [step |-> step, request |-> q, at |-> 1, calls |-> 0, bytes |-> 0, trace |-> <<>>, failed |-> FALSE,
   seen |-> Unread, run |-> Unknown, reason |-> None, ids |-> None]
Idle == Job("idle", None)

JobRecord ==
  [step : {"idle", "selecting", "reconciling", "read", "retained"}, request : Review \union {None},
   at : Nat, calls : Nat, bytes : Nat, trace : Seq(FileName), failed : BOOLEAN, seen : Manifest,
   run : Outcome, reason : {None, "failed", "refused"}, ids : {None, "typed", "ill"}]
Partial == [state |-> "partial"]    \* a directory without a whole RECEIPT.json

ReviewTypeOK ==
  /\ TypeOK
  /\ rpool \in [attached : BOOLEAN, jammed : BOOLEAN, reviews : BOOLEAN,
                entries : [Review -> ReviewEntry \union {None}]]
  /\ rlive \in [Reviewer -> SUBSET Review]
  /\ ropened \subseteq Reviewer /\ readers \subseteq Reviewer
  /\ job \in [Reviewer -> JobRecord]
  /\ retained \in [Review -> ReceiptRecord \union {None, Partial}]
  /\ reads \in [Review -> Nat]

ReviewInit ==
  /\ Init
  /\ rpool = [attached |-> FALSE, jammed |-> FALSE, reviews |-> FALSE,
              entries |-> [q \in Review |-> None]]
  /\ rlive = [v \in Reviewer |-> {}]
  /\ ropened = {}
  /\ job = [v \in Reviewer |-> Idle]
  /\ readers = {}
  /\ retained = [q \in Review |-> None]
  /\ reads = [q \in Review |-> 0]

--------------------------------------------------------------------------------
(* The review pool                                                              *)

Charged(r) == {q \in Review : r.entries[q] # None}
PaidReviewPool_validate(r) ==
  /\ \A q \in Charged(r) : r.entries[q].receipt => r.entries[q].consumed
  /\ Cardinality(Charged(r)) <= ReviewSlots
\* _publish under the lock: published, or interrupted.
PaidReviewPool_publish(r) ==
  /\ ~rpool.jammed /\ PaidReviewPool_validate(r)
  /\ rpool' \in {r, [rpool EXCEPT !.jammed = TRUE]}
Published == ~rpool'.jammed

\* attach makes reviews/ before it publishes: what fails in between is never retried.
PaidReviewPool_attach(v) ==
  /\ v \notin ropened /\ ~rpool.attached /\ ~rpool.reviews /\ ~rpool.jammed
  /\ \/ PaidReviewPool_publish([rpool EXCEPT !.attached = TRUE, !.reviews = TRUE])
     \/ rpool' = [rpool EXCEPT !.reviews = TRUE]
  /\ \E told \in BOOLEAN :
       /\ told => Published /\ rpool'.attached
       /\ ropened' = IF told THEN ropened \union {v} ELSE ropened
  /\ UNCHANGED <<vars, rlive, job, readers, retained, reads>>
PaidReviewPool_reopen(v) ==
  /\ v \notin ropened /\ rpool.attached
  /\ ropened' = ropened \union {v}
  /\ UNCHANGED <<vars, rpool, rlive, job, readers, retained, reads>>

PaidReviewPool_reserve(v, q) ==
  /\ v \in ropened /\ job[v].step = "idle"
  /\ rpool.attached /\ rpool.entries[q] = None
  /\ PaidReviewPool_publish([rpool EXCEPT !.entries[q] = [consumed |-> FALSE, receipt |-> FALSE]])
  /\ \E told \in BOOLEAN :
       /\ told => Published
       /\ rlive' = [rlive EXCEPT ![v] = IF told THEN @ \union {q} ELSE @]
  /\ UNCHANGED <<vars, ropened, job, readers, retained, reads>>

\* _consume: the capability is burnt, then the entry is marked.
PaidReviewPool_consume(v, q) ==
  /\ job[v].step = "idle" /\ q \in rlive[v]
  /\ rlive' = [rlive EXCEPT ![v] = @ \ {q}]
  /\ ~rpool.entries[q].consumed
  /\ PaidReviewPool_publish([rpool EXCEPT !.entries[q].consumed = TRUE])
  /\ \E told \in BOOLEAN :
       /\ told => Published
       /\ job' = [job EXCEPT ![v] = IF told THEN Job("selecting", q) ELSE Idle]
  /\ UNCHANGED <<vars, ropened, readers, retained, reads>>

\* inspect, of a request whose entry is still in the pool.
inspect(q) == IF rpool.entries[q].receipt THEN "RECEIPT_LINKED" ELSE "UNKNOWN_HOLD_RETAINED"

--------------------------------------------------------------------------------
(* The bounded reading                                                          *)

Exists(name) ==
  LET r == root[operation] IN
  CASE name = "FIXTURE" -> r.stage # "absent"
    [] name = "frozen" -> r.stage = "planned"
    [] name = "INTENT" -> r.intent # "absent"
    [] name = "COMPLETE" -> r.complete # "absent"
    [] OTHER -> TRUE

Step(v, j) == job' = [job EXCEPT ![v] = j]
Name(j) == Script[j.at]
Reads(v) == job[v].step = "selecting" \/ (job[v].step = "reconciling" /\ (v \in readers \/ Name(job[v]) = "FIXTURE"))
Ended(j, reason) == [j EXCEPT !.step = "read", !.reason = reason]

\* _Reader.read raises: the calls are used up, the file cannot be opened, the bytes
\* would exceed the limit, or the read itself fails, with its length charged.  Within
\* reconcile the exception is swallowed and only the reader's flag remembers it.
read_fails(v) ==
  LET j == job[v]
      opened_it == [j EXCEPT !.calls = @ + 1, !.failed = TRUE] IN
  /\ Reads(v)
  /\ \/ j.calls >= Calls[j.request] /\ Step(v, Ended([j EXCEPT !.failed = TRUE], "failed"))
     \/ j.calls < Calls[j.request] /\ Step(v, Ended(opened_it, "failed"))
     \/ /\ j.calls < Calls[j.request] /\ j.bytes < Bytes[j.request]
        /\ Step(v, Ended([opened_it EXCEPT !.bytes = @ + 1], "failed"))
  /\ reads' = [reads EXCEPT ![j.request] = @ + (job'[v].calls - j.calls)]
  /\ readers' = readers \ {v}
  /\ UNCHANGED <<vars, rpool, rlive, ropened, retained>>

\* What reconcile makes of the manifest: its state, and INTENT.json's presence.
Reconciled(j) ==
  LET r == root[operation]
      content == CASE j.seen = All("base") -> "BASE"
                   [] j.seen = All("candidate") -> "CANDIDATE"
                   [] \E i \in Index : j.seen[i] = "edited" -> "UNKNOWN"
                   [] OTHER -> "MIXED" IN
  [j EXCEPT !.run = [state |-> "UNKNOWN", content |-> content, intent |-> r.intent # "absent"]]

\* The next file is read within the limits and entered in the trace.  With the third
\* the plan is loaded.  A record that does not parse, and a PLAN.json that is not the
\* plan selected, end reconcile without a mark on the reader.
read(v) ==
  LET j == job[v]
      name == Name(j)
      i == CopyIndex(j.at)
      next == [j EXCEPT !.calls = @ + 1, !.bytes = @ + 1, !.trace = Append(@, name), !.at = @ + 1]
      r == root[operation] IN
  /\ Reads(v) /\ Exists(name)
  /\ j.calls < Calls[j.request] /\ j.bytes < Bytes[j.request]
  /\ reads' = [reads EXCEPT ![j.request] = @ + 1]
  /\ Step(v,
       CASE name = "module" -> [next EXCEPT !.step = "reconciling", !.ids = SelectedIds(j.request)]
         [] name = "frozen" /\ j.request \in Altered -> Ended(next, None)
         [] name = "copy" /\ i < Files -> [next EXCEPT !.seen[i] = r.copy[i]]
         [] name = "copy" /\ i = Files -> Reconciled([next EXCEPT !.seen[i] = r.copy[i]])
         [] name = "INTENT" /\ r.intent = "partial" -> Ended(next, None)
         [] name = "COMPLETE" /\ (r.complete = "partial" \/ j.run.content # "CANDIDATE") -> Ended(next, None)
         [] name = "COMPLETE" /\ r.complete = "whole" /\ j.run.content = "CANDIDATE" ->
              Ended([next EXCEPT !.at = j.at, !.run.state = "OBSERVED_CANDIDATE"], None)
         [] OTHER -> next)
  /\ readers' = IF job'[v].step = "read" THEN readers \ {v} ELSE readers
  /\ UNCHANGED <<vars, rpool, rlive, ropened, retained>>

\* Roots that are not disjoint, before any read; selected bytes that changed; and, with
\* all three read, a plan or trust that does not load, a plan of another operation or
\* version, a module that does not execute.  The plan is known once it has loaded.
refuse_selection(v) ==
  LET j == job[v] IN
  /\ \/ j.step = "selecting" /\ Step(v, Ended(j, "refused"))
     \/ /\ j.step = "reconciling" /\ j.at = Len(Selected) + 1
        /\ \E known \in {None, j.ids} : Step(v, Ended([j EXCEPT !.ids = known], "refused"))
  /\ UNCHANGED <<vars, rpool, rlive, ropened, readers, retained, reads>>

\* reconcile takes the lock shared or, with an adopter at work, gives up unmarked.
lock_shared(v) ==
  /\ job[v].step = "reconciling" /\ Name(job[v]) = "frozen" /\ v \notin readers
  /\ IF flock[operation] = None
     THEN readers' = readers \union {v} /\ UNCHANGED job
     ELSE Step(v, Ended(job[v], None)) /\ UNCHANGED readers
  /\ UNCHANGED <<vars, rpool, rlive, ropened, retained, reads>>

--------------------------------------------------------------------------------
(* The receipt                                                                  *)

observed(j) == IF \E i \in Index : j.seen[i] = None THEN None ELSE j.seen
source_relation(q, manifest) ==
  CASE manifest = None -> "UNKNOWN"
    [] manifest = All(expected[q]) -> "MATCH"
    [] OTHER -> "MISMATCH"

ReceiptOfWhatWasSeen(j) ==
  LET state == IF j.reason = "refused" THEN "UNKNOWN_HOLD_RETAINED" ELSE "REVIEW_RECORDED" IN
  [state |-> state, observed |-> observed(j), relation |-> source_relation(j.request, observed(j)),
   run |-> j.run, charged |-> [read_calls |-> j.calls, read_bytes |-> j.bytes], trace |-> j.trace,
   reason |-> IF state = "REVIEW_RECORDED" THEN None ELSE j.reason, ids |-> j.ids]
\* A failed or refused reading, and any source but the expected one, say nothing.
Receipt(j) ==
  LET state == IF j.failed \/ j.reason = "refused" THEN "UNKNOWN_HOLD_RETAINED" ELSE "REVIEW_RECORDED"
      relation == source_relation(j.request, observed(j)) IN
  [state |-> state, observed |-> observed(j), relation |-> relation,
   run |-> IF state # "REVIEW_RECORDED" \/ relation # "MATCH" THEN Unknown ELSE j.run,
   charged |-> [read_calls |-> j.calls, read_bytes |-> j.bytes], trace |-> j.trace, reason |-> j.reason,
   ids |-> j.ids]

\* service_review_receipt.verify_receipt, over the request's own bytes.
verify_receipt(q, b) ==
  /\ b.relation = source_relation(q, b.observed)
  /\ b.run.state = "OBSERVED_CANDIDATE" =>
       b.state = "REVIEW_RECORDED" /\ b.relation = "MATCH" /\ b.run.content = "CANDIDATE" /\ b.run.intent = TRUE
  /\ (b.state = "UNKNOWN_HOLD_RETAINED" \/ b.relation # "MATCH") => b.run.state = "UNKNOWN"
  /\ b.state = "REVIEW_RECORDED" => b.reason = None
  /\ b.ids \in {None, "typed"}
  /\ b.charged.read_calls <= Calls[q] /\ b.charged.read_bytes <= Bytes[q]
  /\ b.charged.read_bytes >= Len(b.trace) /\ b.charged.read_calls >= Len(b.trace)
  /\ b.state = "REVIEW_RECORDED" =>
       /\ b.charged = [read_bytes |-> Len(b.trace), read_calls |-> Len(b.trace)]
       /\ Len(b.trace) >= 3 /\ SubSeq(b.trace, 1, 3) = Selected

HasReceipt(q) == retained[q] # None /\ retained[q] # Partial

\* TRACE.json and RECEIPT.json; a directory that exists is refused.
retain(v) ==
  LET q == job[v].request IN
  /\ job[v].step = "read" /\ retained[q] = None
  /\ \/ retained' = [retained EXCEPT ![q] = Receipt(job[v])] /\ Step(v, [job[v] EXCEPT !.step = "retained"])
     \/ retained' = [retained EXCEPT ![q] = Partial] /\ Step(v, Idle)
  /\ UNCHANGED <<vars, rpool, rlive, ropened, readers, reads>>

_finish(v) ==
  LET q == job[v].request IN
  /\ job[v].step = "retained"
  /\ rpool.entries[q].consumed /\ ~rpool.entries[q].receipt
  /\ PaidReviewPool_publish([rpool EXCEPT !.entries[q].receipt = TRUE])
  /\ Step(v, Idle)
  /\ UNCHANGED <<vars, rlive, ropened, readers, retained, reads>>

\* paid_review raises (its receipt is too long, its pool refuses).
give_up(v) ==
  /\ job[v].step \in {"read", "retained"}
  /\ Step(v, Idle)
  /\ UNCHANGED <<vars, rpool, rlive, ropened, readers, retained, reads>>

ReviewerCrash(v) ==
  /\ v \in ropened
  /\ ropened' = ropened \ {v}
  /\ rlive' = [rlive EXCEPT ![v] = {}]
  /\ readers' = readers \ {v}
  /\ Step(v, Idle)
  /\ UNCHANGED <<vars, rpool, retained, reads>>

\* The adopter's side goes on; nobody gets the lock alone while it is held shared.
AdoptionStep ==
  /\ Next
  /\ (readers # {}) => flock'[operation] = flock[operation] \/ flock'[operation] = None
  /\ (readers # {}) => root'[operation].stage = root[operation].stage
  /\ UNCHANGED reviewing

ReviewNext ==
  \/ AdoptionStep
  \/ \E v \in Reviewer :
       \/ PaidReviewPool_attach(v) \/ PaidReviewPool_reopen(v)
       \/ \E q \in Review : PaidReviewPool_reserve(v, q) \/ PaidReviewPool_consume(v, q)
       \/ read(v) \/ read_fails(v) \/ refuse_selection(v) \/ lock_shared(v)
       \/ retain(v) \/ _finish(v) \/ give_up(v) \/ ReviewerCrash(v)

ReviewSpec == ReviewInit /\ [][ReviewNext]_reviewVars

--------------------------------------------------------------------------------
(* Properties                                                                   *)

\* Every receipt that paid_review retains is one verify_receipt accepts, unless it
\* copies identities of the wrong type out of an altered plan, and such a receipt says
\* UNKNOWN: the writer's bookkeeping of charges, trace, relation and result and the
\* verifier's independent rules agree after every way a reading can end.  Only a whole
\* receipt is linked in the pool.  Over all tries, crashes and reopened pools a request
\* opens no more files than it paid for, and none before its entry is consumed.
RetainedVerifies ==
  \A q \in Review :
    /\ HasReceipt(q) =>
         \/ verify_receipt(q, retained[q])
         \/ q \in Altered /\ retained[q].ids = "ill" /\ retained[q].run = Unknown
    /\ (rpool.entries[q] # None /\ inspect(q) = "RECEIPT_LINKED") => HasReceipt(q)
    /\ reads[q] <= Calls[q]
    /\ reads[q] > 0 => rpool.entries[q] # None /\ rpool.entries[q].consumed

\* A receipt that says OBSERVED_CANDIDATE was made of an adoption that is complete in
\* its own accounting and spent its approval, whatever adopters, edits and other
\* readers did between the reads.
ReviewedIsAdopted ==
  \A q \in Review : (HasReceipt(q) /\ retained[q].run.state = "OBSERVED_CANDIDATE") =>
    /\ root[operation].complete = "whole"
    /\ pool.entries[operation] # None /\ pool.entries[operation].completed
    /\ root[operation].authorization \in spent
================================================================================

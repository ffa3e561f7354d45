----------------------------- MODULE WorkflowProofs -----------------------------
(***************************************************************************)
(* What is proved of the ledger of a paid attempt, for every set of roots, *)
(* profiles, reports and cases.                                            *)
(*                                                                         *)
(* No property is inductive: each depends on how what a holder has in      *)
(* memory relates to the disk.  Apart from a handler, the body is the head *)
(* on disk; a handler has a body of the same revision as the head it knew, *)
(* and what is on disk by then is that head or a newer one nobody was told *)
(* of.  All changes of the disk are publications, so one lemma,            *)
(* PublishStep, does the work for every action that publishes.             *)
(***************************************************************************)
EXTENDS Workflow, TLAPS

Handling == {"free", "failing", "marking"}
Preparing == {"preparing", "checked", "copied", "refreshing", "reviewed"}
Early == {"starting", "session", "marking", "failing"} \union Preparing
Compared == Preparing \ {"preparing"}
Planned == {"PREPARED", "ADOPTING", "COMPLETE"}

\* The head, the memory and what was told.
Chain(w) ==
  /\ told[w] = disk[w] \/ told[w].revision < disk[w].revision
  /\ mem[w].step # "free" =>
       /\ mem[w].body.revision = mem[w].current.revision
       /\ told[w].revision <= mem[w].current.revision
       /\ disk[w] = mem[w].current \/ mem[w].current.revision < disk[w].revision
  /\ mem[w].step \notin Handling => mem[w].body = disk[w] /\ mem[w].current = disk[w]
  /\ mem[w].step = "starting" => disk[w] = Legacy

\* The recovery allowance.
Recovery(w) ==
  /\ mem[w].step # "free" => mem[w].body.recovery_used = disk[w].recovery_used
  /\ marker[w] => pending[w] # None
  /\ recovered[w] <= 1
  /\ recovered[w] = 1 => marker[w] \/ disk[w].recovery_used
  /\ mem[w].step = "recovering" => recovered[w] = 0

\* The one adoption.
Adoption(w) ==
  /\ adopted[w] <= 1
  /\ adopted[w] = 1 => disk[w].phase \in {"ADOPTING", "COMPLETE"}
  /\ mem[w].step = "adopt" => disk[w].phase = "PREPARED"
  /\ mem[w].step = "adopting" => disk[w].phase = "ADOPTING" /\ adopted[w] = 0
  /\ mem[w].step = "written" => disk[w].phase = "ADOPTING"
  /\ mem[w].step \in Early => adopted[w] = 0

\* A record's entry is as its phase says, and its result is of an execution.
Entered(w, b) ==
  /\ b.phase \in {"OBSERVATION_ADMITTED", "OBSERVATION_CONSUMED"} => b.nested \in Nested
  /\ b.nested \in Nested /\ b.nested.result => execution[w].runs = 1

\* The baseline's one execution showed a failure.
Failed(w) ==
  execution[w].runs = 1 /\ \E c \in Case : execution[w].report.events[c] = "failure"

\* What a workflow's plan has to rest on.
Earned(w, b) ==
  (b.profile = "workflow" /\ b.phase \in Planned) =>
    /\ execution[w].runs = 1 /\ \A c \in Case : execution[w].report.events[c] = "success"
    /\ b.nested \in Nested /\ b.nested.result /\ ~ b.nested.unknown
    /\ baseline[w] # None => Failed(baseline[w])

Bound(w, b) == (b.profile = "workflow" /\ baseline[w] # None) => Failed(baseline[w])

Observation(w) ==
  /\ execution[w].runs \in {0, 1}
  /\ Entered(w, disk[w]) /\ Entered(w, mem[w].body)
  /\ mem[w].step = "marking" => mem[w].body.nested \in Nested
  /\ mem[w].step \in Compared => Bound(w, disk[w])
  /\ Earned(w, disk[w])

\* The review of a plan's obligation verified until the head before the plan's.
Reviewed(w, b, revision) ==
  (b.profile = "workflow" /\ b.phase = "PREPARED" /\ ~b.recovery_used /\ baseline[w] # None) =>
    withdrawn[w] = None \/ withdrawn[w] + 1 >= revision

Review(w) ==
  /\ mem[w].step \in Preparing => disk[w].phase = "PREPARING"
  /\ mem[w].step = "reviewed" => withdrawn[w] = None \/ withdrawn[w] >= disk[w].revision
  /\ Reviewed(w, disk[w], disk[w].revision)

RootInv(w) == Chain(w) /\ Recovery(w) /\ Adoption(w) /\ Observation(w) /\ Review(w)
IInv == TypeOK /\ \A w \in Root : RootInv(w)

--------------------------------------------------------------------------------
(* Publications                                                                 *)

Record(w, b) == [b EXCEPT !.revision = @ + 1, !.previous = Id(mem[w].current)]

\* What a published record has of the body it is made from.
LEMMA RecordFields ==
  ASSUME TypeOK, NEW w \in Root, NEW b \in Body
  PROVE  /\ Record(w, b) \in Body
         /\ Record(w, b).revision = b.revision + 1
         /\ Record(w, b).previous = Id(mem[w].current)
         /\ Record(w, b).phase = b.phase /\ Record(w, b).profile = b.profile
         /\ Record(w, b).nested = b.nested /\ Record(w, b).recovery_used = b.recovery_used
<1> DEFINE i == Id(mem[w].current)
<1>1. i \in Phases \X Nat
  BY DEF TypeOK, Id, Body, Memory
<1> HIDE DEF i
<1>2. [b EXCEPT !.revision = @ + 1, !.previous = i] \in Body
  <2>1. [b EXCEPT !.revision = @ + 1] \in Body
    BY DEF Body
  <2>2. [[b EXCEPT !.revision = @ + 1] EXCEPT !.previous = i] \in Body
    BY <1>1, <2>1 DEF Body
  <2> QED
    BY <2>2 DEF Body
<1>3. Record(w, b) = [b EXCEPT !.revision = @ + 1, !.previous = i]
  BY DEF Record, i
<1> QED
  BY <1>2, <1>3 DEF Body, i

LEMMA LegacyBody == Legacy \in Body
  BY WorkflowAssumption DEF Legacy, Body, Phases, ReadCounts

\* The three ends of a publication, root by root.
LEMMA PublishEffect ==
  ASSUME TypeOK, NEW w \in Root, NEW b \in Body, NEW ok \in Steps, NEW failed \in Steps,
         publish(w, b, ok, failed)
  PROVE  /\ disk' \in [Root -> Body] /\ pending' \in [Root -> Body \union {None}]
         /\ mem' \in [Root -> Memory]
         /\ \A v \in Root \ {w} : disk'[v] = disk[v] /\ pending'[v] = pending[v] /\ mem'[v] = mem[v]
         /\ disk'[w] \in {disk[w], Record(w, b)}
         /\ pending'[w] = pending[w] \/ pending[w] = None
         /\ \/ mem'[w] = Holder(failed, b, mem[w].current)
            \/ mem'[w] = Holder(ok, Record(w, b), Record(w, b)) /\ disk'[w] = Record(w, b)
<1> DEFINE r == Record(w, b)
<1>1. r \in Body
  BY RecordFields
<1>2. /\ \A step \in Steps, x, y \in Body : Holder(step, x, y) \in Memory
      /\ mem[w].current \in Body
  BY LegacyBody DEF Holder, Free, Steps, TypeOK, Memory
<1>3. /\ disk' = disk \/ disk' = [disk EXCEPT ![w] = r]
      /\ pending' = pending \/ (pending[w] = None /\ pending' = [pending EXCEPT ![w] = r])
      /\ \/ mem' = [mem EXCEPT ![w] = Holder(failed, b, mem[w].current)]
         \/ mem' = [mem EXCEPT ![w] = Holder(ok, r, r)] /\ disk' = [disk EXCEPT ![w] = r]
  BY DEF publish, Record, Holder
<1>4. disk' \in [Root -> Body] /\ pending' \in [Root -> Body \union {None}]
  BY <1>1, <1>3, ZenonT(120) DEF TypeOK
<1>5. mem' \in [Root -> Memory]
  BY <1>1, <1>2, <1>3 DEF TypeOK
<1> QED
  BY <1>3, <1>4, <1>5 DEF TypeOK

\* A head is told of only once it is the memory's own, or the command has ended.
Tells(w) ==
  \/ told' = told
  \/ /\ told' = [told EXCEPT ![w] = disk'[w]]
     /\ disk'[w] # disk[w]
     /\ mem'[w].step = "free" \/ mem'[w].current = disk'[w]

LEMMA HolderFields ==
  ASSUME NEW step, NEW x, NEW y
  PROVE  /\ Holder(step, x, y).step = step
         /\ step # "free" => Holder(step, x, y).body = x /\ Holder(step, x, y).current = y
         /\ step = "free" => Holder(step, x, y).body = Legacy
  BY DEF Holder, Free

LEMMA TellEffect ==
  ASSUME TypeOK, NEW w \in Root, NEW b \in Body, NEW ok \in Steps, NEW failed \in Steps,
         publish(w, b, ok, failed), NEW t, t = "free" \/ failed # t, Tell(w, t)
  PROVE  Tells(w)
<1>1. \/ mem'[w] = Holder(failed, b, mem[w].current)
      \/ mem'[w] = Holder(ok, Record(w, b), Record(w, b)) /\ disk'[w] = Record(w, b)
  BY PublishEffect
<1>2. \/ mem'[w].step = failed
      \/ mem'[w].step = "free" \/ mem'[w].current = disk'[w]
  BY <1>1, HolderFields
<1>3. CASE mem'[w].step = t /\ disk'[w] # disk[w]
  BY <1>2, <1>3 DEF Tell, Tells
<1>4. CASE ~ (mem'[w].step = t /\ disk'[w] # disk[w])
  BY <1>4 DEF Tell, Tells, TypeOK
<1> QED
  BY <1>3, <1>4

\* What another root's step leaves of a root's part of the invariant: everything the
\* part reads of the root itself, and executions only happen once.
Same(v) ==
  /\ disk'[v] = disk[v] /\ pending'[v] = pending[v] /\ mem'[v] = mem[v] /\ told'[v] = told[v]
  /\ marker'[v] = marker[v] /\ adopted'[v] = adopted[v] /\ recovered'[v] = recovered[v]
  /\ withdrawn'[v] = withdrawn[v]
Executed ==
  \A v \in Root : execution[v].runs = 1 => execution'[v] = execution[v]

LEMMA Lasting == ASSUME Executed, NEW v \in Root, Failed(v) PROVE Failed(v)'
  BY DEF Executed, Failed

LEMMA Framed ==
  ASSUME IInv, NEW v \in Root, Same(v), Executed, execution'[v] = execution[v]
  PROVE  RootInv(v)'
<1>1. Chain(v)' /\ Recovery(v)' /\ Adoption(v)' /\ Review(v)'
  BY DEF IInv, RootInv, Same, Chain, Recovery, Adoption, Review, Reviewed
<1>2. ASSUME baseline[v] # None, Failed(baseline[v]) PROVE Failed(baseline[v])'
  BY <1>2, Lasting, WorkflowAssumption
<1>3. Observation(v)'
  <2>1. Observation(v)
    BY DEF IInv, RootInv
  <2>2. Entered(v, disk[v])' /\ Entered(v, mem[v].body)'
    BY <2>1 DEF Observation, Entered, Same
  <2>3. (mem[v].step \in Compared => Bound(v, disk[v]))'
    BY <2>1, <1>2 DEF Observation, Bound, Same
  <2>4. Earned(v, disk[v])'
    BY <2>1, <1>2 DEF Observation, Earned, Same
  <2> QED
    BY <2>1, <2>2, <2>3, <2>4 DEF Observation, Same
<1> QED
  BY <1>1, <1>3 DEF RootInv

\* A publication preserves the invariant when the body it publishes is of the
\* memory's revision and fits the adoption and the observation of its root.
Fits(w, b, ok, failed) ==
  /\ mem[w].step # "free"
  /\ b \in Body /\ b.revision = mem[w].body.revision
  /\ ok \in Steps \ {"starting", "adopt", "written", "recovering", "marking", "reviewed"}
  /\ failed \in Handling
  /\ Entered(w, b) /\ Earned(w, b)
  /\ failed = "marking" => b.nested \in Nested
  /\ ok \in Compared => Bound(w, b)
  /\ ok \in Preparing => b.phase = "PREPARING"
  /\ Reviewed(w, b, b.revision + 1)
  /\ adopted[w] = 1 => b.phase \in {"ADOPTING", "COMPLETE"}
  /\ ok \in Early \/ failed # "free" => adopted[w] = 0
  /\ ok = "adopting" => b.phase = "ADOPTING" /\ adopted[w] = 0

LEMMA PublishChain ==
  ASSUME IInv, NEW w \in Root, NEW b, NEW ok, NEW failed,
         Fits(w, b, ok, failed), publish(w, b, ok, failed), Tells(w)
  PROVE  Chain(w)'
<1> DEFINE r == Record(w, b)
<1>1. b \in Body /\ ok \in Steps /\ failed \in Steps /\ TypeOK
  BY DEF Fits, IInv, Handling, Steps
<1>2. /\ r \in Body /\ r.revision = b.revision + 1
  BY <1>1, RecordFields
<1>3. /\ disk'[w] \in {disk[w], r}
      /\ \/ mem'[w] = Holder(failed, b, mem[w].current)
         \/ mem'[w] = Holder(ok, r, r) /\ disk'[w] = r
  BY <1>1, PublishEffect
<1>4. /\ disk[w] \in Body /\ told[w] \in Body /\ mem[w].current \in Body
      /\ \A x \in Body : x.revision \in Nat
  BY <1>1 DEF TypeOK, Body, Memory
<1>5. /\ b.revision = mem[w].current.revision /\ told[w].revision <= mem[w].current.revision
      /\ disk[w] = mem[w].current \/ mem[w].current.revision < disk[w].revision
      /\ told[w] = disk[w] \/ told[w].revision < disk[w].revision
  BY DEF IInv, RootInv, Chain, Fits
<1>6. told'[w] = told[w] \/ (told'[w] = disk'[w] /\ disk'[w] = r
                              /\ (mem'[w].step = "free" \/ mem'[w].current = r))
  BY <1>1, <1>3 DEF Tells, TypeOK
<1> HIDE DEF r
<1>7. CASE mem'[w] = Holder(failed, b, mem[w].current)
  <2>1. /\ mem'[w].step = failed
        /\ failed # "free" => mem'[w].body = b /\ mem'[w].current = mem[w].current
    BY <1>7, HolderFields
  <2>2. told'[w] = disk'[w] \/ told'[w].revision < disk'[w].revision
    BY <1>2, <1>3, <1>4, <1>5, <1>6
  <2>3. failed # "free" => told'[w].revision <= mem'[w].current.revision
    BY <1>2, <1>3, <1>4, <1>5, <1>6, <2>1
  <2>4. failed # "free" => disk'[w] = mem'[w].current \/ mem'[w].current.revision < disk'[w].revision
    BY <1>2, <1>3, <1>4, <1>5, <2>1
  <2> QED
    BY <1>5, <2>1, <2>2, <2>3, <2>4 DEF Chain, Fits, Handling
<1>8. CASE mem'[w] = Holder(ok, r, r) /\ disk'[w] = r
  <2>1. /\ mem'[w].step = ok
        /\ ok # "free" => mem'[w].body = r /\ mem'[w].current = r
    BY <1>8, HolderFields
  <2>2. told'[w] = disk'[w] \/ told'[w].revision < disk'[w].revision
    BY <1>2, <1>3, <1>4, <1>5, <1>6
  <2>3. told'[w].revision <= r.revision
    BY <1>2, <1>4, <1>5, <1>6, <1>8
  <2> QED
    BY <1>8, <2>1, <2>2, <2>3 DEF Chain, Handling, Fits
<1> QED
  BY <1>3, <1>7, <1>8

LEMMA PublishAdoption ==
  ASSUME IInv, NEW w \in Root, NEW b, NEW ok, NEW failed,
         Fits(w, b, ok, failed), publish(w, b, ok, failed), adopted' = adopted
  PROVE  Adoption(w)'
<1> DEFINE r == Record(w, b)
<1>1. b \in Body /\ ok \in Steps /\ failed \in Steps /\ TypeOK
  BY DEF Fits, IInv, Handling, Steps
<1>2. r.phase = b.phase
  BY <1>1, RecordFields
<1>3. /\ disk'[w] \in {disk[w], r}
      /\ \/ mem'[w].step = failed
         \/ mem'[w].step = ok /\ disk'[w] = r
  BY <1>1, PublishEffect, HolderFields
<1> HIDE DEF r
<1>4. adopted'[w] <= 1 /\ (adopted'[w] = 1 => disk'[w].phase \in {"ADOPTING", "COMPLETE"})
  BY <1>2, <1>3 DEF IInv, RootInv, Adoption, Fits
<1>5. CASE mem'[w].step = failed
  BY <1>4, <1>5 DEF Adoption, Fits, Handling, Early, Preparing
<1>6. CASE mem'[w].step = ok /\ disk'[w] = r
  BY <1>2, <1>4, <1>6 DEF Adoption, Fits
<1> QED
  BY <1>3, <1>5, <1>6

LEMMA PublishObservation ==
  ASSUME IInv, NEW w \in Root, NEW b, NEW ok, NEW failed,
         Fits(w, b, ok, failed), publish(w, b, ok, failed), execution' = execution
  PROVE  Observation(w)'
<1> DEFINE r == Record(w, b)
<1>1. b \in Body /\ ok \in Steps /\ failed \in Steps /\ TypeOK
  BY DEF Fits, IInv, Handling, Steps
<1>2. r.phase = b.phase /\ r.profile = b.profile /\ r.nested = b.nested
  BY <1>1, RecordFields
<1>3. /\ disk'[w] \in {disk[w], r}
      /\ \/ mem'[w] = Holder(failed, b, mem[w].current)
         \/ mem'[w] = Holder(ok, r, r) /\ disk'[w] = r
  BY <1>1, PublishEffect
<1>4. Entered(w, b) /\ Earned(w, b) /\ Observation(w)
  BY DEF Fits, IInv, RootInv
<1> HIDE DEF r
<1>5. Entered(w, Legacy)
  BY WorkflowAssumption DEF Entered, Legacy
<1>6. Entered(w, r) /\ Earned(w, r)
  BY <1>2, <1>4 DEF Entered, Earned
<1>8. Entered(w, disk[w])' /\ Earned(w, disk[w])'
  BY <1>3, <1>4, <1>6 DEF Observation, Entered, Earned, Failed
<1>9. CASE mem'[w] = Holder(failed, b, mem[w].current)
  <2>1. mem'[w].step = failed /\ (failed # "free" => mem'[w].body = b)
        /\ (failed = "free" => mem'[w].body = Legacy)
    BY <1>9, HolderFields
  <2>2. Entered(w, mem[w].body)'
    BY <1>4, <1>5, <2>1 DEF Entered
  <2> QED
    BY <1>4, <1>8, <2>1, <2>2 DEF Observation, Fits, Handling, Compared, Preparing
<1>10. CASE mem'[w] = Holder(ok, r, r) /\ disk'[w] = r
  <2>1. mem'[w].step = ok /\ (ok # "free" => mem'[w].body = r)
        /\ (ok = "free" => mem'[w].body = Legacy)
    BY <1>10, HolderFields
  <2>2. Entered(w, mem[w].body)'
    BY <1>5, <1>6, <2>1 DEF Entered
  <2>3. ok \in Compared => Bound(w, disk[w])'
    BY <1>2, <1>10 DEF Fits, Bound, Failed
  <2> QED
    BY <1>4, <1>8, <2>1, <2>2, <2>3 DEF Observation, Fits
<1> QED
  BY <1>3, <1>9, <1>10

LEMMA PublishReview ==
  ASSUME IInv, NEW w \in Root, NEW b, NEW ok, NEW failed,
         Fits(w, b, ok, failed), publish(w, b, ok, failed), withdrawn' = withdrawn
  PROVE  Review(w)'
<1> DEFINE r == Record(w, b)
<1>1. b \in Body /\ ok \in Steps /\ failed \in Steps /\ TypeOK
  BY DEF Fits, IInv, Handling, Steps
<1>2. /\ r.phase = b.phase /\ r.profile = b.profile /\ r.recovery_used = b.recovery_used
      /\ r.revision = b.revision + 1
  BY <1>1, RecordFields
<1>3. /\ disk'[w] \in {disk[w], r}
      /\ \/ mem'[w].step = failed
         \/ mem'[w].step = ok /\ disk'[w] = r
  BY <1>1, PublishEffect, HolderFields
<1> HIDE DEF r
<1>4. Reviewed(w, disk[w], disk[w].revision)'
  BY <1>2, <1>3 DEF IInv, RootInv, Review, Reviewed, Fits
<1> QED
  BY <1>2, <1>3, <1>4 DEF Review, Fits, Handling, Preparing

LEMMA PublishRecovery ==
  ASSUME IInv, NEW w \in Root, NEW b, NEW ok, NEW failed,
         Fits(w, b, ok, failed), publish(w, b, ok, failed),
         b.recovery_used = mem[w].body.recovery_used,
         marker' = marker, recovered' = recovered
  PROVE  Recovery(w)'
<1> DEFINE r == Record(w, b)
<1>1. b \in Body /\ ok \in Steps /\ failed \in Steps /\ TypeOK
  BY DEF Fits, IInv, Handling, Steps
<1>2. r.recovery_used = b.recovery_used
  BY <1>1, RecordFields
<1>3. /\ disk'[w] \in {disk[w], r}
      /\ pending'[w] = pending[w] \/ pending[w] = None
      /\ \/ mem'[w] = Holder(failed, b, mem[w].current)
         \/ mem'[w] = Holder(ok, r, r) /\ disk'[w] = r
  BY <1>1, PublishEffect
<1> HIDE DEF r
<1>4. disk'[w].recovery_used = disk[w].recovery_used /\ b.recovery_used = disk[w].recovery_used
  BY <1>2, <1>3 DEF IInv, RootInv, Recovery, Fits
<1>5. \/ mem'[w].step = failed /\ (failed # "free" => mem'[w].body = b)
      \/ mem'[w].step = ok /\ (ok # "free" => mem'[w].body = r)
  BY <1>3, HolderFields
<1> QED
  BY <1>2, <1>3, <1>4, <1>5 DEF IInv, RootInv, Recovery, Fits, Handling

\* Over a head the client knows, only its holder's current can be that head.
Chained == \A w \in Root : (disk[w] = told[w] /\ disk'[w] # disk[w]) => disk'[w].previous = Id(disk[w])

LEMMA PublishChained ==
  ASSUME IInv, NEW w \in Root, NEW b \in Body, NEW ok \in Steps, NEW failed \in Steps,
         mem[w].step # "free", publish(w, b, ok, failed)
  PROVE  Chained
<1>1. /\ \A v \in Root \ {w} : disk'[v] = disk[v]
      /\ disk'[w] \in {disk[w], Record(w, b)}
      /\ Record(w, b).previous = Id(mem[w].current)
  BY PublishEffect, RecordFields DEF IInv
<1>2. /\ told[w].revision <= mem[w].current.revision
      /\ disk[w] = mem[w].current \/ mem[w].current.revision < disk[w].revision
  BY DEF IInv, RootInv, Chain
<1>3. disk[w].revision \in Nat /\ mem[w].current.revision \in Nat
  BY DEF IInv, TypeOK, Memory, Body
<1>4. disk[w] = told[w] => disk[w] = mem[w].current
  BY <1>2, <1>3
<1> QED
  BY <1>1, <1>4 DEF Chained

LEMMA PublishStep ==
  ASSUME IInv, NEW w \in Root, NEW b, NEW ok, NEW failed,
         Fits(w, b, ok, failed), publish(w, b, ok, failed), Tells(w), UNCHANGED Rest,
         b.recovery_used = mem[w].body.recovery_used
  PROVE  IInv' /\ Chained
<1>1. b \in Body /\ ok \in Steps /\ failed \in Steps /\ TypeOK
  BY DEF Fits, IInv, Handling, Steps
<1>2. UNCHANGED <<marker, execution, adopted, withdrawn, recovered>>
  BY DEF Rest
<1>3. /\ disk' \in [Root -> Body] /\ pending' \in [Root -> Body \union {None}] /\ mem' \in [Root -> Memory]
      /\ \A v \in Root \ {w} : disk'[v] = disk[v] /\ pending'[v] = pending[v] /\ mem'[v] = mem[v]
  BY <1>1, PublishEffect
<1>4. told' \in [Root -> Body] /\ \A v \in Root \ {w} : told'[v] = told[v]
  BY <1>1, <1>3 DEF Tells, TypeOK
<1>5. TypeOK'
  BY <1>1, <1>2, <1>3, <1>4 DEF TypeOK
<1>6. ASSUME NEW v \in Root \ {w} PROVE RootInv(v)'
  <2>1. Same(v) /\ Executed /\ execution'[v] = execution[v]
    BY <1>2, <1>3, <1>4 DEF Same, Executed
  <2> QED
    BY <2>1, Framed
<1>7. RootInv(w)'
  BY <1>2, PublishChain, PublishRecovery, PublishAdoption, PublishObservation, PublishReview DEF RootInv
<1>8. IInv'
  BY <1>5, <1>6, <1>7 DEF IInv
<1>9. Chained
  BY <1>1, PublishChained DEF Fits
<1> QED
  BY <1>8, <1>9

--------------------------------------------------------------------------------
(* The initial state and the steps                                              *)

LEMMA InitInv == Init => IInv
<1> SUFFICES ASSUME Init PROVE IInv
  OBVIOUS
<1>1. Free \in Memory /\ Free.step = "free" /\ Free.body = Legacy
  BY LegacyBody DEF Free, Memory, Steps
<1>2. TypeOK
  BY <1>1, LegacyBody DEF Init, TypeOK
<1>3. ASSUME NEW w \in Root PROVE RootInv(w)
  <2>1. /\ disk[w] = Legacy /\ told[w] = Legacy /\ mem[w] = Free /\ marker[w] = FALSE
        /\ adopted[w] = 0 /\ recovered[w] = 0 /\ execution[w].runs = 0 /\ withdrawn[w] = None
    BY DEF Init
  <2>2. Chain(w) /\ Recovery(w)
    BY <1>1, <2>1 DEF Chain, Recovery, Handling
  <2>3. Adoption(w) /\ Review(w)
    BY <1>1, <2>1 DEF Adoption, Early, Preparing, Review, Reviewed
  <2>4. Observation(w)
    BY <1>1, <2>1, WorkflowAssumption DEF Observation, Entered, Earned, Legacy, Planned, Compared, Preparing
  <2> QED
    BY <2>2, <2>3, <2>4 DEF RootInv
<1> QED
  BY <1>2, <1>3 DEF IInv

\* The bodies that are published, made from the one in memory.
LEMMA WithPhase ==
  ASSUME NEW x \in Body, NEW p \in Phases
  PROVE  LET b == [x EXCEPT !.phase = p] IN
         /\ b \in Body /\ b.phase = p /\ b.revision = x.revision /\ b.profile = x.profile
         /\ b.nested = x.nested /\ b.recovery_used = x.recovery_used
  BY DEF Body

LEMMA WithUsed ==
  ASSUME NEW x \in Body, NEW u \in ReadCounts
  PROVE  LET b == [x EXCEPT !.used = u] IN
         /\ b \in Body /\ b.phase = x.phase /\ b.revision = x.revision /\ b.profile = x.profile
         /\ b.nested = x.nested /\ b.recovery_used = x.recovery_used
  BY DEF Body

LEMMA WithRecovery ==
  ASSUME NEW x \in Body
  PROVE  LET b == [x EXCEPT !.recovery_used = TRUE] IN
         /\ b \in Body /\ b.phase = x.phase /\ b.revision = x.revision /\ b.profile = x.profile
         /\ b.nested = x.nested /\ b.recovery_used = TRUE
  BY DEF Body

LEMMA WithEntry ==
  ASSUME NEW x \in Body, NEW e \in Nested
  PROVE  LET b == [x EXCEPT !.nested = e] IN
         /\ b \in Body /\ b.revision = x.revision /\ b.profile = x.profile
         /\ b.nested = e /\ b.recovery_used = x.recovery_used
  BY DEF Body

\* What every holder can rely on while its body is the head.
LEMMA AtHead ==
  ASSUME IInv, NEW w \in Root, mem[w].step \notin Handling
  PROVE  /\ mem[w].body = disk[w] /\ mem[w].body \in Body /\ mem[w].step # "free"
         /\ Entered(w, mem[w].body) /\ Earned(w, mem[w].body)
         /\ mem[w].step \in Early => adopted[w] = 0
         /\ mem[w].step \in Preparing => mem[w].body.phase = "PREPARING"
<1>1. Chain(w) /\ Observation(w) /\ Adoption(w) /\ Review(w) /\ TypeOK
  BY DEF IInv, RootInv
<1>2. mem[w].body = disk[w] /\ disk[w] \in Body /\ mem[w].step # "free"
  BY <1>1 DEF Chain, Handling, TypeOK
<1> QED
  BY <1>1, <1>2 DEF Observation, Adoption, Review

\* An observation is never published in a phase of the plan.
LEMMA SessionFits ==
  ASSUME IInv, NEW w \in Root, mem[w].step = "session", NEW b \in Body,
         b.revision = mem[w].body.revision, Entered(w, b), b.phase \notin Planned,
         NEW ok \in {"session", "free"}, NEW failed \in Handling,
         failed = "marking" => b.nested \in Nested
  PROVE  Fits(w, b, ok, failed)
<1>1. adopted[w] = 0
  BY AtHead DEF Handling, Early
<1> QED
  BY <1>1 DEF Fits, Steps, Earned, Handling, Planned, Reviewed, Compared, Preparing

LEMMA ReserveStep == ASSUME IInv, NEW w \in Root, reserve(w) PROVE IInv' /\ Chained
<1>1. /\ mem[w].step = "starting" /\ mem[w].body = Legacy /\ adopted[w] = 0
  BY AtHead DEF reserve, At, IInv, RootInv, Chain, Handling, Early
<1>2. ASSUME NEW p \in {"workflow", "lifecycle"}, NEW ph \in {"WORKFLOW_RESERVED", "PREPARING"},
             NEW ok \in {"session", "preparing"}, ok = "preparing" => ph = "PREPARING",
             publish(w, [Legacy EXCEPT !.phase = ph, !.profile = p], ok, "free"), Tells(w)
      PROVE  IInv' /\ Chained
  <2> DEFINE b == [Legacy EXCEPT !.phase = ph, !.profile = p]
  <2>1. /\ b \in Body /\ b.phase = ph /\ b.revision = Legacy.revision /\ b.nested = None
        /\ b.recovery_used = Legacy.recovery_used
    <3>1. [Legacy EXCEPT !.phase = ph] \in Body
      BY LegacyBody DEF Body, Phases
    <3>2. [[Legacy EXCEPT !.phase = ph] EXCEPT !.profile = p] \in Body
      BY <3>1 DEF Body
    <3> QED
      BY <3>2 DEF Body, Legacy
  <2> HIDE DEF b
  <2>2. Fits(w, b, ok, "free")
    BY <1>1, <1>2, <2>1, WorkflowAssumption
       DEF Fits, Steps, Handling, Entered, Earned, Planned, Reviewed, Compared, Preparing
  <2>3. UNCHANGED Rest
    BY DEF reserve
  <2> QED
    BY <1>1, <1>2, <2>1, <2>2, <2>3, PublishStep DEF b
<1>3. CASE publish(w, [Legacy EXCEPT !.phase = "WORKFLOW_RESERVED", !.profile = "workflow"], "session", "free")
           /\ Tell(w, "session")
  <2>1. [Legacy EXCEPT !.phase = "WORKFLOW_RESERVED", !.profile = "workflow"] \in Body
    BY LegacyBody DEF Body, Phases, Legacy
  <2>2. Tells(w)
    BY <1>3, <2>1, TellEffect DEF IInv, Steps
  <2> QED
    BY <1>2, <1>3, <2>2
<1>4. CASE publish(w, [Legacy EXCEPT !.phase = "PREPARING", !.profile = "lifecycle"], "preparing", "free")
           /\ UNCHANGED told
  BY <1>2, <1>4 DEF Tells
<1> QED
  BY <1>3, <1>4 DEF reserve

\* A session step that publishes and tells.
LEMMA SessionStep ==
  ASSUME IInv, NEW w \in Root, mem[w].step = "session", NEW b \in Body,
         b.revision = mem[w].body.revision, b.recovery_used = mem[w].body.recovery_used,
         Entered(w, b), b.phase \notin Planned,
         NEW ok \in {"session", "free"}, NEW failed \in {"failing", "marking"},
         failed = "marking" => b.nested \in Nested,
         publish(w, b, ok, failed), NEW t \in {"session", "free"}, Tell(w, t), UNCHANGED Rest
  PROVE  IInv' /\ Chained
<1>1. Fits(w, b, ok, failed)
  BY SessionFits DEF Handling
<1>2. Tells(w)
  BY TellEffect DEF IInv, Steps
<1> QED
  BY <1>1, <1>2, PublishStep

LEMMA AcquiredStep == ASSUME IInv, NEW w \in Root, acquired(w) PROVE IInv' /\ Chained
<1>1. PICK u \in mem[w].body.used..ReadFiles[w] :
        /\ InPhase(w, "WORKFLOW_RESERVED")
        /\ publish(w, [mem[w].body EXCEPT !.phase = "OBSERVATION_PREPARED", !.used = u], "session", "failing")
        /\ Tell(w, "session")
        /\ UNCHANGED Rest
  BY DEF acquired
<1> DEFINE b == [mem[w].body EXCEPT !.phase = "OBSERVATION_PREPARED", !.used = u]
<1>2. mem[w].step = "session" /\ mem[w].body \in Body /\ Entered(w, mem[w].body)
  BY <1>1, AtHead DEF InPhase, At, Handling
<1>3. u \in ReadCounts
  BY <1>1, <1>2, WorkflowAssumption DEF Body, ReadCounts
<1>4. /\ b \in Body /\ b.phase = "OBSERVATION_PREPARED" /\ b.revision = mem[w].body.revision
      /\ b.nested = mem[w].body.nested /\ b.recovery_used = mem[w].body.recovery_used
  <2> DEFINE x == [mem[w].body EXCEPT !.phase = "OBSERVATION_PREPARED"]
  <2>1. /\ x \in Body /\ x.phase = "OBSERVATION_PREPARED" /\ x.revision = mem[w].body.revision
        /\ x.nested = mem[w].body.nested /\ x.recovery_used = mem[w].body.recovery_used
    BY <1>2, WithPhase, ZenonT(120) DEF Phases
  <2>2. b = [x EXCEPT !.used = u]
    BY <1>2 DEF Body
  <2> HIDE DEF x, b
  <2> QED
    BY <1>3, <2>1, <2>2, WithUsed
<1> HIDE DEF b
<1>5. Entered(w, b) /\ b.phase \notin Planned
  BY <1>2, <1>4 DEF Entered, Planned
<1>6. publish(w, b, "session", "failing")
  BY <1>1 DEF b
<1> QED
  BY <1>1, <1>2, <1>4, <1>5, <1>6, SessionStep

\* NestedServicePool._change.
LEMMA ChangeStep ==
  ASSUME IInv, NEW w \in Root, mem[w].step = "session",
         NEW e \in Nested, e.result => execution[w].runs = 1,
         NEW ok \in {"session", "free"}, NEW failed \in {"failing", "marking"},
         _change(w, e, ok, failed)
  PROVE  IInv' /\ Chained
<1> DEFINE p == PhaseOf(e)
           b == [mem[w].body EXCEPT !.nested = e, !.phase = p]
<1>1. p \in Phases \ Planned
  BY DEF PhaseOf, Nested, Phases, Planned
<1>2. mem[w].body \in Body
  BY AtHead DEF Handling
<1>3. publish(w, b, ok, failed) /\ Tell(w, "session") /\ UNCHANGED Rest
  BY DEF _change
<1> HIDE DEF p, b
<1>4. /\ b \in Body /\ b.phase = p /\ b.revision = mem[w].body.revision
      /\ b.nested = e /\ b.recovery_used = mem[w].body.recovery_used
  <2> DEFINE y == [mem[w].body EXCEPT !.nested = e]
  <2>1. /\ y \in Body /\ y.revision = mem[w].body.revision
        /\ y.nested = e /\ y.recovery_used = mem[w].body.recovery_used
    BY <1>2, WithEntry
  <2>2. b = [y EXCEPT !.phase = p]
    BY <1>2 DEF b, Body
  <2> HIDE DEF y
  <2> QED
    BY <2>1, <2>2, <1>1, WithPhase
<1>5. Entered(w, b) /\ b.phase \notin Planned
  BY <1>1, <1>4 DEF Entered
<1> QED
  BY <1>3, <1>4, <1>5, SessionStep

LEMMA AdmitStep == ASSUME IInv, NEW w \in Root, admit(w) PROVE IInv' /\ Chained
<1> DEFINE e == [start |-> FALSE, result |-> FALSE, unknown |-> FALSE]
<1>1. e \in Nested /\ ~ e.result
  BY DEF Nested
<1>2. mem[w].step = "session" /\ _change(w, e, "session", "failing")
  BY DEF admit, InPhase, At
<1> HIDE DEF e
<1> QED
  BY <1>1, <1>2, ChangeStep

\* The entry in memory, in the phases that have one.
LEMMA EntryInMemory ==
  ASSUME IInv, NEW w \in Root, mem[w].step = "session",
         mem[w].body.phase \in {"OBSERVATION_ADMITTED", "OBSERVATION_CONSUMED"}
  PROVE  mem[w].body.nested \in Nested /\ (mem[w].body.nested.result => execution[w].runs = 1)
  BY AtHead DEF Handling, Entered

LEMMA ConsumeStep == ASSUME IInv, NEW w \in Root, consume(w) PROVE IInv' /\ Chained
<1> DEFINE e == [mem[w].body.nested EXCEPT !.start = TRUE]
<1>1. mem[w].step = "session" /\ _change(w, e, "session", "marking")
  BY DEF consume, InPhase, At
<1>2. mem[w].body.nested \in Nested /\ (mem[w].body.nested.result => execution[w].runs = 1)
  BY EntryInMemory DEF consume, InPhase, At
<1>3. e \in Nested /\ e.result = mem[w].body.nested.result
  BY <1>2 DEF Nested
<1> HIDE DEF e
<1> QED
  BY <1>1, <1>2, <1>3, ChangeStep

LEMMA SettleStep == ASSUME IInv, NEW w \in Root, settle(w) PROVE IInv' /\ Chained
<1> DEFINE e == [mem[w].body.nested EXCEPT !.result = TRUE]
<1>1. mem[w].step = "session" /\ _change(w, e, "session", "failing") /\ execution[w].runs > 0
  BY DEF settle, InPhase, At
<1>2. mem[w].body.nested \in Nested
  BY EntryInMemory DEF settle, InPhase, At
<1>3. e \in Nested
  BY <1>2 DEF Nested
<1>4. execution[w].runs = 1
  BY <1>1 DEF IInv, RootInv, Observation
<1> HIDE DEF e
<1> QED
  BY <1>1, <1>3, <1>4, ChangeStep

LEMMA MarkUnknownStep == ASSUME IInv, NEW w \in Root, mark_unknown(w) PROVE IInv' /\ Chained
<1> DEFINE e == [mem[w].body.nested EXCEPT !.unknown = TRUE]
           ok == IF At(w, "marking") THEN "failing" ELSE "free"
<1>1. CASE mem[w].step = "session"
  <2>1. _change(w, e, "free", "failing")
    BY <1>1 DEF mark_unknown, At
  <2>2. mem[w].body.nested \in Nested /\ (mem[w].body.nested.result => execution[w].runs = 1)
    BY <1>1, EntryInMemory DEF mark_unknown, At
  <2>3. e \in Nested /\ e.result = mem[w].body.nested.result
    BY <2>2 DEF Nested
  <2> HIDE DEF e
  <2> QED
    BY <1>1, <2>1, <2>2, <2>3, ChangeStep
<1>2. CASE mem[w].step = "marking"
  <2> DEFINE p == PhaseOf(e)
             b == [mem[w].body EXCEPT !.nested = e, !.phase = p]
  <2>1. /\ publish(w, b, "failing", "failing") /\ Tell(w, "session") /\ UNCHANGED Rest
    BY <1>2 DEF mark_unknown, At, _change
  <2>2. /\ mem[w].body \in Body /\ mem[w].body.nested \in Nested /\ adopted[w] = 0
        /\ (mem[w].body.nested.result => execution[w].runs = 1)
    BY <1>2 DEF IInv, RootInv, Observation, Adoption, Early, Entered, TypeOK, Memory
  <2>3. e \in Nested /\ e.result = mem[w].body.nested.result
    BY <2>2 DEF Nested
  <2> HIDE DEF e
  <2>4. p \in Phases \ Planned
    BY <2>3 DEF PhaseOf, Nested, Phases, Planned
  <2> HIDE DEF p, b
  <2>5. /\ b \in Body /\ b.phase = p /\ b.revision = mem[w].body.revision
        /\ b.nested = e /\ b.recovery_used = mem[w].body.recovery_used
    <3> DEFINE y == [mem[w].body EXCEPT !.nested = e]
    <3>1. /\ y \in Body /\ y.revision = mem[w].body.revision
          /\ y.nested = e /\ y.recovery_used = mem[w].body.recovery_used
      BY <2>2, <2>3, WithEntry
    <3>2. b = [y EXCEPT !.phase = p]
      BY <2>2, <2>3 DEF b, Body
    <3> HIDE DEF y
    <3> QED
      BY <3>1, <3>2, <2>4, WithPhase
  <2>6. Fits(w, b, "failing", "failing")
    BY <1>2, <2>2, <2>3, <2>4, <2>5
       DEF Fits, Entered, Earned, Steps, Handling, Planned, Reviewed, Compared, Preparing
  <2>7. Tells(w)
    BY <2>1, <2>5, TellEffect DEF IInv, Steps
  <2> QED
    BY <2>1, <2>5, <2>6, <2>7, PublishStep
<1> QED
  BY <1>1, <1>2 DEF mark_unknown, At

LEMMA MeterStep == ASSUME IInv, NEW w \in Root, meter(w) PROVE IInv' /\ Chained
<1>1. PICK u \in mem[w].body.used..ReadFiles[w] :
        /\ InPhase(w, "OBSERVATION_SETTLED")
        /\ publish(w, [mem[w].body EXCEPT !.used = u], "session", "failing")
        /\ Tell(w, "session")
        /\ UNCHANGED Rest
  BY DEF meter
<1> DEFINE b == [mem[w].body EXCEPT !.used = u]
<1>2. mem[w].step = "session" /\ mem[w].body \in Body /\ Entered(w, mem[w].body)
      /\ mem[w].body.phase \notin Planned
  BY <1>1, AtHead DEF InPhase, At, Handling, Planned
<1>3. u \in ReadCounts
  BY <1>1, <1>2, WorkflowAssumption DEF Body, ReadCounts
<1>4. /\ b \in Body /\ b.phase = mem[w].body.phase /\ b.revision = mem[w].body.revision
      /\ b.nested = mem[w].body.nested /\ b.recovery_used = mem[w].body.recovery_used
  BY <1>2, <1>3, WithUsed
<1>5. publish(w, b, "session", "failing")
  BY <1>1
<1> HIDE DEF b
<1>6. Entered(w, b)
  BY <1>2, <1>4 DEF Entered
<1> QED
  BY <1>1, <1>2, <1>4, <1>5, <1>6, SessionStep

LEMMA RetainStep == ASSUME IInv, NEW w \in Root, retain(w) PROVE IInv' /\ Chained
<1> DEFINE b == [mem[w].body EXCEPT !.phase = "OBSERVATION_RETAINED"]
<1>1. /\ mem[w].step = "session" /\ publish(w, b, "free", "failing") /\ Tell(w, "free") /\ UNCHANGED Rest
  BY DEF retain, InPhase, At
<1>2. mem[w].body \in Body /\ Entered(w, mem[w].body)
  BY <1>1, AtHead DEF Handling
<1>3. /\ b \in Body /\ b.phase = "OBSERVATION_RETAINED" /\ b.revision = mem[w].body.revision
      /\ b.nested = mem[w].body.nested /\ b.recovery_used = mem[w].body.recovery_used
  BY <1>2, WithPhase DEF Phases
<1> HIDE DEF b
<1>4. Entered(w, b) /\ b.phase \notin Planned
  BY <1>2, <1>3 DEF Entered, Planned
<1> QED
  BY <1>1, <1>3, <1>4, SessionStep

\* A failed command publishes UNKNOWN, a preparation goes on: nothing of the adoption
\* has begun.
LEMMA EarlyStep ==
  ASSUME IInv, NEW w \in Root, mem[w].step \in Early, NEW b \in Body,
         b.revision = mem[w].body.revision, b.recovery_used = mem[w].body.recovery_used,
         Entered(w, b), Earned(w, b), Reviewed(w, b, b.revision + 1),
         NEW ok \in {"free", "preparing", "copied", "refreshing"},
         ok \in Preparing => b.phase = "PREPARING", ok \in {"copied", "refreshing"} => Bound(w, b),
         NEW failed \in {"free", "failing"},
         publish(w, b, ok, failed), Tells(w), UNCHANGED Rest
  PROVE  IInv' /\ Chained
<1>1. adopted[w] = 0
  BY DEF IInv, RootInv, Adoption
<1>2. Fits(w, b, ok, failed)
  BY <1>1 DEF Fits, Early, Steps, Handling, Compared, Preparing
<1> QED
  BY <1>2, PublishStep

LEMMA AbandonPublishes ==
  ASSUME IInv, NEW w \in Root, mem[w].step = "failing",
         publish(w, [mem[w].body EXCEPT !.phase = "UNKNOWN"], "free", "free"), UNCHANGED <<told, Rest>>
  PROVE  IInv' /\ Chained
<1> DEFINE b == [mem[w].body EXCEPT !.phase = "UNKNOWN"]
<1>1. mem[w].body \in Body /\ Entered(w, mem[w].body)
  BY DEF IInv, RootInv, Observation, TypeOK, Memory
<1>2. /\ b \in Body /\ b.phase = "UNKNOWN" /\ b.revision = mem[w].body.revision
      /\ b.nested = mem[w].body.nested /\ b.recovery_used = mem[w].body.recovery_used
  BY <1>1, WithPhase DEF Phases
<1>3. publish(w, b, "free", "free")
  OBVIOUS
<1> HIDE DEF b
<1>4. Entered(w, b) /\ Earned(w, b) /\ Reviewed(w, b, b.revision + 1)
  BY <1>1, <1>2 DEF Entered, Earned, Planned, Reviewed
<1> QED
  BY <1>2, <1>3, <1>4, EarlyStep DEF Early, Preparing, Tells

LEMMA PrepareStep == ASSUME IInv, NEW w \in Root, prepare(w) PROVE IInv' /\ Chained
<1> DEFINE y == [mem[w].body EXCEPT !.phase = "PREPARING"]
           b == [mem[w].body EXCEPT !.phase = "PREPARING", !.transferred = TRUE]
<1>1. /\ mem[w].step = "session" /\ publish(w, b, "preparing", "failing") /\ UNCHANGED <<told, Rest>>
  BY DEF prepare, InPhase, At
<1>2. mem[w].body \in Body /\ Entered(w, mem[w].body)
  BY <1>1, AtHead DEF Handling
<1>3. /\ y \in Body /\ y.phase = "PREPARING" /\ y.revision = mem[w].body.revision
      /\ y.nested = mem[w].body.nested /\ y.recovery_used = mem[w].body.recovery_used
  BY <1>2, WithPhase DEF Phases
<1>4. b = [y EXCEPT !.transferred = TRUE]
  BY <1>2 DEF Body
<1> HIDE DEF y, b
<1>5. /\ b \in Body /\ b.phase = "PREPARING" /\ b.revision = mem[w].body.revision
      /\ b.nested = mem[w].body.nested /\ b.recovery_used = mem[w].body.recovery_used
  BY <1>3, <1>4 DEF Body
<1>6. Entered(w, b) /\ Earned(w, b) /\ Reviewed(w, b, b.revision + 1)
  BY <1>2, <1>5 DEF Entered, Earned, Planned, Reviewed
<1> QED
  BY <1>1, <1>5, <1>6, EarlyStep DEF Early, Tells

LEMMA ReadStep == ASSUME IInv, NEW w \in Root, read(w) PROVE IInv' /\ Chained
<1> DEFINE u == mem[w].body.used + 1
           b == [mem[w].body EXCEPT !.used = u]
           ok == IF At(w, "preparing") THEN "preparing" ELSE "refreshing"
<1>1. /\ mem[w].step \in {"preparing", "copied", "refreshing"}
      /\ UNCHANGED <<told, Rest>> /\ mem[w].body.used < ReadFiles[w]
  BY DEF read, At
<1>2. /\ mem[w].body = disk[w] /\ mem[w].body \in Body /\ mem[w].body.phase = "PREPARING"
      /\ Entered(w, mem[w].body) /\ Earned(w, mem[w].body)
  BY <1>1, AtHead DEF Handling, Preparing
<1>3. u \in ReadCounts
  BY <1>1, <1>2, WorkflowAssumption DEF Body, ReadCounts
<1>4. publish(w, b, ok, "failing")
  BY <1>2 DEF read, Body
<1>5. ok \in {"preparing", "refreshing"} /\ (ok = "refreshing" => Bound(w, mem[w].body))
  BY <1>1, <1>2 DEF At, IInv, RootInv, Observation, Compared, Preparing
<1> HIDE DEF u, ok
<1>6. /\ b \in Body /\ b.phase = mem[w].body.phase /\ b.revision = mem[w].body.revision
      /\ b.profile = mem[w].body.profile
      /\ b.nested = mem[w].body.nested /\ b.recovery_used = mem[w].body.recovery_used
  BY <1>2, <1>3, WithUsed
<1> HIDE DEF b
<1>7. /\ Entered(w, b) /\ Earned(w, b) /\ Reviewed(w, b, b.revision + 1)
      /\ ok = "refreshing" => Bound(w, b)
  BY <1>2, <1>5, <1>6 DEF Entered, Earned, Reviewed, Bound
<1> QED
  BY <1>1, <1>2, <1>4, <1>5, <1>6, <1>7, EarlyStep DEF Early, Preparing, Tells

LEMMA CopyStep == ASSUME IInv, NEW w \in Root, copy(w) PROVE IInv' /\ Chained
<1>1. mem[w].step = "checked" /\ UNCHANGED <<told, Rest>> /\ publish(w, mem[w].body, "copied", "failing")
  BY DEF copy, At
<1>2. /\ mem[w].body = disk[w] /\ mem[w].body \in Body /\ mem[w].body.phase = "PREPARING"
      /\ Entered(w, mem[w].body) /\ Earned(w, mem[w].body)
  BY <1>1, AtHead DEF Handling, Preparing
<1>3. Bound(w, mem[w].body) /\ Reviewed(w, mem[w].body, mem[w].body.revision + 1)
  BY <1>1, <1>2 DEF IInv, RootInv, Observation, Compared, Preparing, Reviewed
<1> QED
  BY <1>1, <1>2, <1>3, EarlyStep DEF Early, Preparing, Tells

\* What a check of the selected cases shows.
LEMMA Checked ==
  ASSUME IInv, NEW w \in Root,
         SelectedCases(w) \in {"OBSERVED_SELECTED_CASES_SUCCESS", "OBSERVED_SELECTED_CASES_NON_SUCCESS"}
  PROVE  /\ disk[w].nested \in Nested /\ disk[w].nested.result /\ ~ disk[w].nested.unknown
         /\ execution[w].runs = 1
         /\ SelectedCases(w) = "OBSERVED_SELECTED_CASES_SUCCESS" =>
              \A c \in Case : execution[w].report.events[c] = "success"
<1>1. /\ disk[w].nested # None /\ disk[w].nested.result /\ ~ disk[w].nested.unknown
      /\ SelectedCases(w) = "OBSERVED_SELECTED_CASES_SUCCESS" =>
              \A c \in Case : execution[w].report.events[c] = "success"
  BY DEF SelectedCases
<1>2. disk[w].nested \in Nested
  BY <1>1 DEF IInv, TypeOK, Body
<1> QED
  BY <1>1, <1>2 DEF IInv, RootInv, Observation, Entered

LEMMA PreparedStep == ASSUME IInv, NEW w \in Root, prepared(w) PROVE IInv' /\ Chained
<1> DEFINE b == [mem[w].body EXCEPT !.phase = "PREPARED"]
<1>1. /\ mem[w].step \in {"copied", "reviewed"}
      /\ (mem[w].body.profile = "workflow" /\ baseline[w] # None) => mem[w].step = "reviewed"
      /\ publish(w, b, "free", "failing") /\ Tell(w, "free") /\ UNCHANGED Rest
      /\ mem[w].body.profile = "workflow" => SelectedCases(w) = "OBSERVED_SELECTED_CASES_SUCCESS"
  BY DEF prepared, At, Obliged, Observes
<1>2. /\ mem[w].body = disk[w] /\ mem[w].body \in Body /\ Entered(w, mem[w].body)
  BY <1>1, AtHead DEF Handling
<1>3. Bound(w, mem[w].body)
  BY <1>1, <1>2 DEF IInv, RootInv, Observation, Compared, Preparing
<1>4. /\ b \in Body /\ b.phase = "PREPARED" /\ b.revision = mem[w].body.revision
      /\ b.profile = mem[w].body.profile
      /\ b.nested = mem[w].body.nested /\ b.recovery_used = mem[w].body.recovery_used
  BY <1>2, WithPhase DEF Phases
<1> HIDE DEF b
<1>5. Entered(w, b)
  BY <1>2, <1>4 DEF Entered
<1>6. Earned(w, b)
  <2>1. SUFFICES ASSUME b.profile = "workflow" PROVE Earned(w, b)
    BY DEF Earned
  <2>2. SelectedCases(w) = "OBSERVED_SELECTED_CASES_SUCCESS"
    BY <1>1, <1>4, <2>1
  <2>3. /\ disk[w].nested \in Nested /\ disk[w].nested.result /\ ~ disk[w].nested.unknown
        /\ execution[w].runs = 1 /\ \A c \in Case : execution[w].report.events[c] = "success"
    BY <2>2, Checked
  <2> QED
    BY <1>2, <1>3, <1>4, <2>1, <2>3 DEF Earned, Bound
<1>7. Tells(w)
  BY <1>1, <1>4, TellEffect DEF IInv, Steps
<1>8. Reviewed(w, b, b.revision + 1)
  <2>1. SUFFICES ASSUME b.profile = "workflow", baseline[w] # None, withdrawn[w] # None
                 PROVE  withdrawn[w] + 1 >= b.revision + 1
    BY DEF Reviewed
  <2>2. withdrawn[w] \in Nat /\ b.revision \in Nat
    BY <1>4, <2>1 DEF IInv, TypeOK, Body
  <2>3. withdrawn[w] >= b.revision
    BY <1>1, <1>2, <1>4, <2>1 DEF IInv, RootInv, Review
  <2> QED
    BY <2>2, <2>3
<1> QED
  BY <1>1, <1>4, <1>5, <1>6, <1>7, <1>8, EarlyStep DEF Early, Preparing

LEMMA ConsumePlanStep == ASSUME IInv, NEW w \in Root, _consume(w) PROVE IInv' /\ Chained
<1> DEFINE b == [mem[w].body EXCEPT !.phase = "ADOPTING"]
<1>1. mem[w].step = "adopt" /\ publish(w, b, "adopting", "free") /\ UNCHANGED <<told, Rest>>
  BY DEF _consume, At
<1>2. /\ mem[w].body = disk[w] /\ mem[w].body \in Body
      /\ Entered(w, mem[w].body) /\ Earned(w, mem[w].body)
  BY <1>1, AtHead DEF Handling
<1>3. mem[w].body.phase = "PREPARED" /\ adopted[w] = 0
  <2>1. Adoption(w) /\ adopted[w] \in Nat
    BY DEF IInv, RootInv, TypeOK
  <2>2. mem[w].body.phase = "PREPARED" /\ adopted[w] # 1
    BY <1>1, <1>2, <2>1 DEF Adoption
  <2>3. adopted[w] <= 1
    BY <2>1 DEF Adoption
  <2> QED
    BY <2>1, <2>2, <2>3
<1>4. /\ b \in Body /\ b.phase = "ADOPTING" /\ b.revision = mem[w].body.revision
      /\ b.profile = mem[w].body.profile
      /\ b.nested = mem[w].body.nested /\ b.recovery_used = mem[w].body.recovery_used
  BY <1>2, WithPhase DEF Phases
<1> HIDE DEF b
<1>5. Entered(w, b) /\ Earned(w, b)
  BY <1>2, <1>3, <1>4 DEF Entered, Earned, Planned
<1>6. Fits(w, b, "adopting", "free")
  BY <1>1, <1>3, <1>4, <1>5 DEF Fits, Steps, Handling, Early, Compared, Preparing, Reviewed
<1> QED
  BY <1>1, <1>4, <1>6, PublishStep DEF Tells

LEMMA CompleteStep == ASSUME IInv, NEW w \in Root, _complete(w) PROVE IInv' /\ Chained
<1> DEFINE b == [mem[w].body EXCEPT !.phase = "COMPLETE"]
<1>1. /\ mem[w].step = "written" /\ mem[w].body.phase = "ADOPTING"
      /\ publish(w, b, "free", "free") /\ Tell(w, "free") /\ UNCHANGED Rest
  BY DEF _complete, At
<1>2. /\ mem[w].body = disk[w] /\ mem[w].body \in Body
      /\ Entered(w, mem[w].body) /\ Earned(w, mem[w].body)
  BY <1>1, AtHead DEF Handling
<1>3. /\ b \in Body /\ b.phase = "COMPLETE" /\ b.revision = mem[w].body.revision
      /\ b.profile = mem[w].body.profile
      /\ b.nested = mem[w].body.nested /\ b.recovery_used = mem[w].body.recovery_used
  BY <1>2, WithPhase DEF Phases
<1> HIDE DEF b
<1>4. Entered(w, b) /\ Earned(w, b)
  BY <1>1, <1>2, <1>3 DEF Entered, Earned, Planned
<1>5. Fits(w, b, "free", "free")
  BY <1>1, <1>3, <1>4 DEF Fits, Steps, Handling, Early, Compared, Preparing, Reviewed
<1>6. Tells(w)
  BY <1>1, <1>3, TellEffect DEF IInv, Steps
<1> QED
  BY <1>1, <1>3, <1>5, <1>6, PublishStep

LEMMA RecoveringStep == ASSUME IInv, NEW w \in Root, recovering(w) PROVE IInv' /\ Chained
<1> DEFINE b == [mem[w].body EXCEPT !.recovery_used = TRUE]
           r == Record(w, b)
<1>1. /\ mem[w].step = "recovering" /\ publish(w, b, "recovered", "free") /\ Tell(w, "recovered")
      /\ recovered' = [recovered EXCEPT ![w] = IF mem'[w].step = "recovered" THEN @ + 1 ELSE @]
      /\ UNCHANGED <<marker, execution, adopted, withdrawn>>
  BY DEF recovering, At
<1>2. /\ mem[w].body = disk[w] /\ mem[w].body \in Body
      /\ Entered(w, mem[w].body) /\ Earned(w, mem[w].body)
  BY <1>1, AtHead DEF Handling
<1>3. /\ b \in Body /\ b.phase = mem[w].body.phase /\ b.revision = mem[w].body.revision
      /\ b.profile = mem[w].body.profile /\ b.nested = mem[w].body.nested /\ b.recovery_used = TRUE
  BY <1>2, WithRecovery
<1> HIDE DEF b
<1>4. Fits(w, b, "recovered", "free")
  <2>1. Entered(w, b) /\ Earned(w, b)
    BY <1>2, <1>3 DEF Entered, Earned
  <2>2. adopted[w] = 1 => b.phase \in {"ADOPTING", "COMPLETE"}
    BY <1>2, <1>3 DEF IInv, RootInv, Adoption
  <2> QED
    BY <1>1, <1>3, <2>1, <2>2 DEF Fits, Steps, Handling, Early, Compared, Preparing, Reviewed
<1>5. Tells(w)
  BY <1>1, <1>3, TellEffect DEF IInv, Steps
<1>6. "recovered" \in Steps /\ "free" \in Steps /\ TypeOK
  BY DEF Steps, IInv
<1>7. /\ disk' \in [Root -> Body] /\ pending' \in [Root -> Body \union {None}] /\ mem' \in [Root -> Memory]
      /\ \A v \in Root \ {w} : disk'[v] = disk[v] /\ pending'[v] = pending[v] /\ mem'[v] = mem[v]
      /\ disk'[w] \in {disk[w], r} /\ (pending'[w] = pending[w] \/ pending[w] = None)
      /\ \/ mem'[w].step = "free"
         \/ mem'[w].step = "recovered" /\ mem'[w].body = r /\ disk'[w] = r
      /\ r.recovery_used
  <2>1. r.recovery_used = TRUE
    BY <1>3, <1>6, RecordFields
  <2>2. \/ mem'[w] = Holder("free", b, mem[w].current)
        \/ mem'[w] = Holder("recovered", r, r) /\ disk'[w] = r
    BY <1>1, <1>3, <1>6, PublishEffect
  <2>3. \/ mem'[w].step = "free"
        \/ mem'[w].step = "recovered" /\ mem'[w].body = r /\ disk'[w] = r
    BY <2>2, HolderFields
  <2> QED
    BY <1>1, <1>3, <1>6, <2>1, <2>3, PublishEffect
<1> HIDE DEF r
<1>8. told' \in [Root -> Body] /\ \A v \in Root \ {w} : told'[v] = told[v]
  BY <1>5, <1>6, <1>7 DEF Tells, TypeOK
<1>9. /\ recovered' \in [Root -> Nat] /\ \A v \in Root \ {w} : recovered'[v] = recovered[v]
      /\ recovered[w] = 0
      /\ recovered'[w] = IF mem'[w].step = "recovered" THEN 1 ELSE 0
  <2>1. recovered[w] = 0
    BY <1>1 DEF IInv, RootInv, Recovery
  <2> QED
    BY <1>1, <1>6, <2>1 DEF TypeOK
<1>10. TypeOK'
  BY <1>1, <1>6, <1>7, <1>8, <1>9 DEF TypeOK
<1>11. ASSUME NEW v \in Root \ {w} PROVE RootInv(v)'
  <2>1. Same(v) /\ Executed /\ execution'[v] = execution[v]
    BY <1>1, <1>7, <1>8, <1>9 DEF Same, Executed
  <2> QED
    BY <2>1, Framed
<1>12. Recovery(w)'
  <2>1. marker[w] => pending[w] # None
    BY DEF IInv, RootInv, Recovery
  <2>2. mem'[w].step # "free" => mem'[w].body.recovery_used = disk'[w].recovery_used
    BY <1>7
  <2>3. (recovered'[w] = 1 => disk'[w].recovery_used) /\ recovered'[w] <= 1
    BY <1>7, <1>9
  <2>4. mem'[w].step # "recovering"
    BY <1>7
  <2> QED
    BY <1>1, <1>7, <2>1, <2>2, <2>3, <2>4 DEF Recovery
<1>13. RootInv(w)'
  BY <1>1, <1>4, <1>5, <1>12, PublishChain, PublishAdoption, PublishObservation, PublishReview DEF RootInv
<1>14. Chained
  BY <1>1, <1>3, <1>6, PublishChained
<1> QED
  BY <1>10, <1>11, <1>13, <1>14 DEF IInv

\* A step that only changes what a holder has in memory.
Sits(w, m) ==
  /\ m \in Memory
  /\ m.step # "free" =>
       /\ m.body.revision = m.current.revision /\ told[w].revision <= m.current.revision
       /\ disk[w] = m.current \/ m.current.revision < disk[w].revision
       /\ m.body.recovery_used = disk[w].recovery_used
  /\ m.step \notin Handling => m.body = disk[w] /\ m.current = disk[w]
  /\ m.step = "starting" => disk[w] = Legacy
  /\ m.step = "recovering" => recovered[w] = 0
  /\ m.step = "adopt" => disk[w].phase = "PREPARED"
  /\ m.step \notin {"adopting", "written", "marking"}
  /\ m.step \in Early => adopted[w] = 0
  /\ Entered(w, m.body)
  /\ m.step \in Compared => Bound(w, disk[w])
  /\ m.step \in Preparing => disk[w].phase = "PREPARING"
  /\ m.step = "reviewed" => withdrawn[w] = None

LEMMA MemoryStep ==
  ASSUME IInv, NEW w \in Root, NEW m, Sits(w, m), mem' = [mem EXCEPT ![w] = m],
         UNCHANGED <<disk, pending, told, Rest>>
  PROVE  IInv' /\ Chained
<1>1. UNCHANGED <<disk, pending, told, marker, execution, adopted, withdrawn, recovered>>
  BY DEF Rest
<1>2. TypeOK /\ RootInv(w)
  BY DEF IInv
<1>3. mem'[w] = m /\ (\A v \in Root \ {w} : mem'[v] = mem[v]) /\ mem' \in [Root -> Memory]
  BY <1>2 DEF TypeOK, Sits
<1>4. TypeOK'
  BY <1>1, <1>2, <1>3 DEF TypeOK
<1>5. ASSUME NEW v \in Root \ {w} PROVE RootInv(v)'
  <2>1. Same(v) /\ Executed /\ execution'[v] = execution[v]
    BY <1>1, <1>3 DEF Same, Executed
  <2> QED
    BY <2>1, Framed
<1>6. Chain(w)'
  BY <1>1, <1>2, <1>3 DEF RootInv, Chain, Sits
<1>7. Recovery(w)'
  BY <1>1, <1>2, <1>3 DEF RootInv, Recovery, Sits
<1>8. Adoption(w)'
  BY <1>1, <1>2, <1>3 DEF RootInv, Adoption, Sits
<1>9. Observation(w)'
  <2>1. Entered(w, disk[w])' /\ Entered(w, mem[w].body)' /\ Earned(w, disk[w])'
    BY <1>1, <1>2, <1>3 DEF RootInv, Observation, Sits, Entered, Earned, Failed
  <2>2. (mem[w].step \in Compared => Bound(w, disk[w]))'
    BY <1>1, <1>3 DEF Sits, Bound, Failed
  <2> QED
    BY <1>1, <1>2, <1>3, <2>1, <2>2 DEF RootInv, Observation, Sits
<1>10. Review(w)'
  BY <1>1, <1>2, <1>3 DEF RootInv, Review, Reviewed, Sits
<1> QED
  BY <1>1, <1>4, <1>5, <1>6, <1>7, <1>8, <1>9, <1>10 DEF IInv, RootInv, Chained

\* The memory is dropped.
LEMMA FreeSits == ASSUME IInv, NEW w \in Root PROVE Sits(w, Free)
<1>1. Free \in Memory /\ Free.step = "free" /\ Free.body = Legacy
  BY LegacyBody DEF Free, Memory, Steps
<1>2. Entered(w, Legacy)
  BY WorkflowAssumption DEF Entered, Legacy
<1> QED
  BY <1>1, <1>2 DEF Sits, Handling, Early, Compared, Preparing

\* The memory is loaded from the disk.
LEMMA LoadedSits ==
  ASSUME IInv, NEW w \in Root, NEW step \in {"starting", "adopt", "recovering"},
         step = "starting" => disk[w] = Legacy,
         step = "adopt" => disk[w].phase = "PREPARED",
         step = "recovering" => recovered[w] = 0
  PROVE  Sits(w, [step |-> step, body |-> disk[w], current |-> disk[w]])
<1> DEFINE m == [step |-> step, body |-> disk[w], current |-> disk[w]]
<1>1. disk[w] \in Body /\ told[w] \in Body /\ \A x \in Body : x.revision \in Nat
  BY DEF IInv, TypeOK, Body
<1>2. m \in Memory /\ m.step = step /\ m.body = disk[w] /\ m.current = disk[w]
  BY <1>1 DEF Memory, Steps
<1>3. told[w].revision <= disk[w].revision
  BY <1>1 DEF IInv, RootInv, Chain
<1>4. Entered(w, disk[w])
  BY DEF IInv, RootInv, Observation
<1>5. step = "starting" => adopted[w] = 0
  <2>1. Adoption(w) /\ adopted[w] \in Nat
    BY DEF IInv, RootInv, TypeOK
  <2>2. step = "starting" => adopted[w] # 1
    BY <2>1 DEF Adoption, Legacy
  <2>3. adopted[w] <= 1
    BY <2>1 DEF Adoption
  <2> QED
    BY <2>1, <2>2, <2>3
<1> HIDE DEF m
<1>6. Sits(w, m)
  BY <1>2, <1>3, <1>4, <1>5 DEF Sits, Handling, Early, Compared, Preparing
<1> QED
  BY <1>6 DEF m

\* The memory goes on to another step with the body it has.
LEMMA OnwardSits ==
  ASSUME IInv, NEW w \in Root, mem[w].step \in Preparing \union {"session"},
         NEW step \in {"failing", "checked", "reviewed"},
         step # "failing" => Bound(w, disk[w]) /\ mem[w].step \in Preparing,
         step = "reviewed" => withdrawn[w] = None
  PROVE  Sits(w, [mem[w] EXCEPT !.step = step])
<1> DEFINE m == [mem[w] EXCEPT !.step = step]
<1>1. mem[w] \in Memory
  BY DEF IInv, TypeOK
<1>2. m \in Memory /\ m.step = step /\ m.body = mem[w].body /\ m.current = mem[w].current
  BY <1>1 DEF Memory, Steps
<1> HIDE DEF m
<1>3. Chain(w) /\ Recovery(w) /\ Adoption(w) /\ Observation(w) /\ Review(w)
  BY DEF IInv, RootInv
<1>4. /\ adopted[w] = 0 /\ Entered(w, mem[w].body)
      /\ mem[w].step \in Preparing => disk[w].phase = "PREPARING"
  BY <1>3 DEF Adoption, Early, Observation, Review
<1>5. /\ mem[w].body.revision = mem[w].current.revision /\ told[w].revision <= mem[w].current.revision
      /\ mem[w].body = disk[w] /\ mem[w].current = disk[w]
      /\ mem[w].body.recovery_used = disk[w].recovery_used
  BY <1>3 DEF Chain, Recovery, Handling, Preparing
<1>6. Sits(w, m)
  BY <1>2, <1>4, <1>5 DEF Sits, Handling, Compared, Preparing, Early
<1> QED
  BY <1>6 DEF m

LEMMA CheckObligationStep == ASSUME IInv, NEW w \in Root, check_obligation(w) PROVE IInv' /\ Chained
<1> DEFINE m == [mem[w] EXCEPT !.step = "checked"]
<1>1. /\ mem[w].step = "preparing" /\ UNCHANGED <<disk, pending, told, Rest>>
      /\ (mem[w].body.profile = "workflow" /\ baseline[w] # None) => compare(baseline[w], w)
  BY DEF check_obligation, At, Obliged, Observes
<1>2. mem[w].body = disk[w]
  BY <1>1, AtHead DEF Handling
<1>3. Bound(w, disk[w])
  <2> SUFFICES ASSUME disk[w].profile = "workflow", baseline[w] # None PROVE Failed(baseline[w])
    BY DEF Bound
  <2>1. compare(baseline[w], w) /\ baseline[w] \in Root
    BY <1>1, <1>2, WorkflowAssumption
  <2>2. execution[baseline[w]].runs = 1
    BY <2>1, Checked DEF compare
  <2>3. \E c \in Case : execution[baseline[w]].report.events[c] = "failure"
    BY <2>1, WorkflowAssumption DEF compare
  <2> QED
    BY <2>2, <2>3 DEF Failed
<1>4. Sits(w, m)
  BY <1>1, <1>3, OnwardSits DEF Preparing
<1>5. mem' = [mem EXCEPT ![w] = m]
  BY DEF check_obligation
<1> HIDE DEF m
<1> QED
  BY <1>1, <1>4, <1>5, MemoryStep

LEMMA RefreshStep == ASSUME IInv, NEW w \in Root, refresh_obligation_review(w) PROVE IInv' /\ Chained
<1> DEFINE m == [mem[w] EXCEPT !.step = "reviewed"]
<1>1. /\ mem[w].step = "refreshing" /\ withdrawn[w] = None
      /\ mem' = [mem EXCEPT ![w] = m] /\ UNCHANGED <<disk, pending, told, Rest>>
  BY DEF refresh_obligation_review, At
<1>2. Bound(w, disk[w])
  BY <1>1 DEF IInv, RootInv, Observation, Compared, Preparing
<1>3. Sits(w, m)
  BY <1>1, <1>2, OnwardSits DEF Preparing
<1> HIDE DEF m
<1> QED
  BY <1>1, <1>3, MemoryStep

LEMMA FailStep == ASSUME IInv, NEW w \in Root, fail(w) PROVE IInv' /\ Chained
<1> DEFINE m == [mem[w] EXCEPT !.step = "failing"]
<1>1. Sits(w, m)
  BY OnwardSits DEF fail, Preparing
<1>2. mem' = [mem EXCEPT ![w] = m] /\ UNCHANGED <<disk, pending, told, Rest>>
  BY DEF fail
<1> HIDE DEF m
<1> QED
  BY <1>1, <1>2, MemoryStep

LEMMA AbandonStep == ASSUME IInv, NEW w \in Root, abandon(w) PROVE IInv' /\ Chained
<1>1. CASE mem' = [mem EXCEPT ![w] = Free] /\ UNCHANGED <<disk, pending>>
  BY <1>1, FreeSits, MemoryStep DEF abandon
<1>2. CASE publish(w, [mem[w].body EXCEPT !.phase = "UNKNOWN"], "free", "free")
  BY <1>2, AbandonPublishes DEF abandon, At
<1> QED
  BY <1>1, <1>2 DEF abandon

LEMMA GoneStep == ASSUME IInv, NEW w \in Root, Gone(w) PROVE IInv' /\ Chained
  BY FreeSits, MemoryStep DEF Gone

LEMMA StartStep == ASSUME IInv, NEW w \in Root, start(w) PROVE IInv' /\ Chained
<1> DEFINE m == [step |-> "starting", body |-> disk[w], current |-> disk[w]]
<1>1. disk[w] = Legacy /\ mem' = [mem EXCEPT ![w] = m] /\ UNCHANGED <<disk, pending, told, Rest>>
  BY DEF start
<1>2. Sits(w, m)
  BY <1>1, LoadedSits
<1> HIDE DEF m
<1> QED
  BY <1>1, <1>2, MemoryStep

LEMMA AdoptStep == ASSUME IInv, NEW w \in Root, adopt(w) PROVE IInv' /\ Chained
<1> DEFINE m == [step |-> "adopt", body |-> disk[w], current |-> disk[w]]
<1>1. disk[w].phase = "PREPARED" /\ mem' = [mem EXCEPT ![w] = m] /\ UNCHANGED <<disk, pending, told, Rest>>
  BY DEF adopt, Load
<1>2. Sits(w, m)
  BY <1>1, LoadedSits
<1> HIDE DEF m
<1> QED
  BY <1>1, <1>2, MemoryStep

\* Steps that change neither the disk nor a memory's record.
LEMMA KeptStep ==
  ASSUME IInv, NEW w \in Root, TypeOK', disk' = disk, Executed,
         \A v \in Root \ {w} : Same(v) /\ execution'[v] = execution[v],
         RootInv(w)'
  PROVE  IInv' /\ Chained
  BY Framed DEF IInv, Chained

LEMMA RecoverStep == ASSUME IInv, NEW w \in Root, recover(w) PROVE IInv' /\ Chained
<1>1. mem[w].step = "free" /\ UNCHANGED <<execution, adopted, withdrawn>>
  BY DEF recover, At
<1>2. recovered[w] \in Nat /\ Recovery(w) /\ TypeOK
  BY DEF IInv, RootInv, TypeOK
<1>3. CASE /\ pending[w] = None /\ ~ disk[w].recovery_used
           /\ Load(w, "recovering") /\ UNCHANGED <<disk, pending, marker, recovered, told>>
  <2> DEFINE m == [step |-> "recovering", body |-> disk[w], current |-> disk[w]]
  <2>1. recovered[w] # 1 /\ recovered[w] <= 1
    BY <1>2, <1>3 DEF Recovery
  <2>2. recovered[w] = 0
    BY <1>2, <2>1
  <2>3. Sits(w, m)
    BY <2>2, LoadedSits
  <2>4. mem' = [mem EXCEPT ![w] = m] /\ UNCHANGED <<disk, pending, told, Rest>>
    BY <1>1, <1>3 DEF Load, Rest
  <2> HIDE DEF m
  <2> QED
    BY <2>3, <2>4, MemoryStep
<1>4. CASE /\ pending[w] # None /\ ~ marker[w] /\ ~ disk[w].recovery_used
           /\ marker' = [marker EXCEPT ![w] = TRUE]
           /\ recovered' \in {recovered, [recovered EXCEPT ![w] = @ + 1]}
           /\ UNCHANGED <<disk, pending, mem, told>>
  <2>1. recovered[w] # 1 /\ recovered[w] <= 1
    BY <1>2, <1>4 DEF Recovery
  <2>2. recovered[w] = 0
    BY <1>2, <2>1
  <2>3. /\ recovered' \in [Root -> Nat] /\ marker' \in [Root -> BOOLEAN]
        /\ recovered'[w] \in {0, 1} /\ marker'[w]
        /\ \A v \in Root \ {w} : recovered'[v] = recovered[v] /\ marker'[v] = marker[v]
    BY <1>2, <1>4, <2>2 DEF TypeOK
  <2>4. TypeOK'
    BY <1>1, <1>2, <1>4, <2>3 DEF TypeOK
  <2>5. Executed /\ \A v \in Root \ {w} : Same(v) /\ execution'[v] = execution[v]
    BY <1>1, <1>4, <2>3 DEF Executed, Same
  <2>6. Recovery(w)'
    BY <1>1, <1>4, <2>3 DEF Recovery
  <2>7. Chain(w)' /\ Adoption(w)' /\ Observation(w)' /\ Review(w)'
    BY <1>1, <1>4, SMTT(30)
       DEF IInv, RootInv, Chain, Adoption, Observation, Entered, Earned, Bound, Failed, Review, Reviewed
  <2> QED
    BY <1>4, <2>4, <2>5, <2>6, <2>7, KeptStep DEF RootInv
<1> QED
  BY <1>3, <1>4 DEF recover

LEMMA ExecuteStep == ASSUME IInv, NEW w \in Root, Execute(w) PROVE IInv' /\ Chained
<1>1. PICK report \in Reports[w] :
        /\ execution[w].runs = 0
        /\ execution' = [execution EXCEPT ![w] = [runs |-> 1, report |-> report]]
        /\ UNCHANGED <<disk, pending, mem, told, marker, adopted, withdrawn, recovered>>
  BY DEF Execute
<1>2. TypeOK /\ RootInv(w)
  BY DEF IInv
<1>3. /\ execution'[w].runs = 1 /\ \A v \in Root \ {w} : execution'[v] = execution[v]
      /\ execution' \in [Root -> [runs : Nat, report : (UNION {Reports[v] : v \in Root}) \union {None}]]
  <2>1. report \in UNION {Reports[v] : v \in Root}
    OBVIOUS
  <2> DEFINE R == UNION {Reports[v] : v \in Root}
  <2>2. execution \in [Root -> [runs : Nat, report : R \union {None}]]
    BY <1>2 DEF TypeOK
  <2> HIDE DEF R
  <2>3. report \in R
    BY <2>1 DEF R
  <2>4. [runs |-> 1, report |-> report] \in [runs : Nat, report : R \union {None}]
    BY <2>3
  <2>5. execution' \in [Root -> [runs : Nat, report : R \union {None}]]
    BY <1>1, <2>2, <2>4
  <2> QED
    BY <1>1, <2>2, <2>5 DEF R
<1>4. TypeOK'
  BY <1>1, <1>2, <1>3 DEF TypeOK
<1>5. Executed /\ \A v \in Root \ {w} : Same(v) /\ execution'[v] = execution[v]
  BY <1>1, <1>3 DEF Executed, Same
<1>6. Chain(w)' /\ Recovery(w)' /\ Adoption(w)' /\ Review(w)'
  BY <1>1, <1>2 DEF RootInv, Chain, Recovery, Adoption, Review, Reviewed
<1>7. Observation(w)'
  <2>1. Entered(w, disk[w])' /\ Entered(w, mem[w].body)'
    BY <1>1, <1>2, <1>3 DEF RootInv, Observation, Entered
  <2>2. Earned(w, disk[w])'
    BY <1>1, <1>2 DEF RootInv, Observation, Earned
  <2>3. ASSUME baseline[w] # None, Failed(baseline[w]) PROVE Failed(baseline[w])'
    BY <1>5, <2>3, Lasting, WorkflowAssumption
  <2>4. (mem[w].step \in Compared => Bound(w, disk[w]))'
    BY <1>1, <1>2, <2>3 DEF RootInv, Observation, Bound
  <2> QED
    BY <1>1, <1>2, <1>3, <2>1, <2>2, <2>4 DEF RootInv, Observation
<1> QED
  BY <1>1, <1>4, <1>5, <1>6, <1>7, KeptStep DEF RootInv

LEMMA WithdrawStep == ASSUME IInv, NEW w \in Root, Withdraw(w) PROVE IInv' /\ Chained
<1>1. /\ UNCHANGED <<disk, pending, marker, mem, execution, adopted, recovered, told>>
      /\ withdrawn' = [withdrawn EXCEPT ![w] = disk[w].revision]
  BY DEF Withdraw
<1>2. TypeOK /\ RootInv(w) /\ disk[w].revision \in Nat
  BY DEF IInv, TypeOK, Body
<1>3. /\ withdrawn' \in [Root -> Nat \union {None}] /\ withdrawn'[w] = disk[w].revision
      /\ \A v \in Root \ {w} : withdrawn'[v] = withdrawn[v]
  BY <1>1, <1>2 DEF TypeOK
<1>4. TypeOK'
  BY <1>1, <1>2, <1>3 DEF TypeOK
<1>5. Executed /\ \A v \in Root \ {w} : Same(v) /\ execution'[v] = execution[v]
  BY <1>1, <1>3 DEF Executed, Same
<1>6. Chain(w)' /\ Recovery(w)' /\ Adoption(w)' /\ Observation(w)'
  BY <1>1, <1>2 DEF RootInv, Chain, Recovery, Adoption, Observation, Entered, Earned, Bound, Failed
<1>7. Review(w)'
  BY <1>1, <1>2, <1>3 DEF RootInv, Review, Reviewed
<1> QED
  BY <1>1, <1>4, <1>5, <1>6, <1>7, KeptStep DEF RootInv

LEMMA WriteStep == ASSUME IInv, NEW w \in Root, Write(w) PROVE IInv' /\ Chained
<1>1. /\ mem[w].step = "adopting" /\ adopted' = [adopted EXCEPT ![w] = @ + 1]
      /\ mem' = [mem EXCEPT ![w].step = "written"]
      /\ UNCHANGED <<disk, pending, told, marker, execution, withdrawn, recovered>>
  BY DEF Write, At
<1>2. TypeOK /\ RootInv(w) /\ mem[w] \in Memory
  BY DEF IInv, TypeOK
<1>3. adopted[w] = 0 /\ disk[w].phase = "ADOPTING" /\ mem[w].body = disk[w] /\ mem[w].current = disk[w]
  BY <1>1, <1>2 DEF RootInv, Adoption, Chain, Handling
<1>4. /\ mem' \in [Root -> Memory] /\ mem'[w].step = "written" /\ mem'[w].body = mem[w].body
      /\ mem'[w].current = mem[w].current /\ \A v \in Root \ {w} : mem'[v] = mem[v]
  <2> DEFINE m == [mem[w] EXCEPT !.step = "written"]
  <2>1. m \in Memory /\ m.step = "written" /\ m.body = mem[w].body /\ m.current = mem[w].current
    BY <1>2 DEF Memory, Steps
  <2>2. mem' = [mem EXCEPT ![w] = m]
    BY <1>1
  <2> HIDE DEF m
  <2> QED
    BY <1>2, <2>1, <2>2 DEF TypeOK
<1>5. /\ adopted' \in [Root -> Nat] /\ adopted'[w] = 1 /\ \A v \in Root \ {w} : adopted'[v] = adopted[v]
  BY <1>1, <1>2, <1>3 DEF TypeOK
<1>6. TypeOK'
  BY <1>1, <1>2, <1>4, <1>5 DEF TypeOK
<1>7. Executed /\ \A v \in Root \ {w} : Same(v) /\ execution'[v] = execution[v]
  BY <1>1, <1>4, <1>5 DEF Executed, Same
<1>8. Chain(w)' /\ Recovery(w)'
  BY <1>1, <1>2, <1>3, <1>4 DEF RootInv, Chain, Recovery, Handling
<1>9. Adoption(w)'
  BY <1>1, <1>3, <1>4, <1>5 DEF Adoption, Early, Preparing
<1>10. Observation(w)' /\ Review(w)'
  BY <1>1, <1>2, <1>3, <1>4
     DEF RootInv, Observation, Entered, Earned, Failed, Review, Reviewed, Compared, Preparing
<1> QED
  BY <1>1, <1>6, <1>7, <1>8, <1>9, <1>10, KeptStep DEF RootInv

--------------------------------------------------------------------------------
(* The theorems                                                                 *)

LEMMA Stutter == ASSUME IInv, UNCHANGED vars PROVE IInv' /\ Chained
<1>1. UNCHANGED <<disk, pending, marker, mem, execution, adopted, withdrawn, recovered, told>>
  BY DEF vars
<1>2. TypeOK'
  BY <1>1 DEF IInv, TypeOK
<1>3. ASSUME NEW v \in Root PROVE RootInv(v)'
  <2>1. Same(v) /\ Executed /\ execution'[v] = execution[v]
    BY <1>1 DEF Same, Executed
  <2> QED
    BY <2>1, Framed
<1> QED
  BY <1>1, <1>2, <1>3 DEF IInv, Chained

\* The invariant is inductive, and every step chains the head a client knows.
LEMMA Inductive == IInv /\ [Next]_vars => IInv' /\ Chained
<1> SUFFICES ASSUME IInv, [Next]_vars PROVE IInv' /\ Chained
  OBVIOUS
<1>1. CASE UNCHANGED vars
  BY <1>1, Stutter
<1>2. CASE Next
  <2>1. PICK w \in Root :
          \/ start(w) \/ reserve(w) \/ Session(w) \/ Execute(w) \/ fail(w) \/ abandon(w)
          \/ Withdraw(w) \/ Prepare(w) \/ Adopt(w) \/ recover(w) \/ recovering(w) \/ Gone(w)
    BY <1>2 DEF Next
  <2>2. CASE start(w) \/ reserve(w) \/ Gone(w)
    BY <2>2, StartStep, ReserveStep, GoneStep
  <2>3. CASE Session(w)
    BY <2>3, AcquiredStep, AdmitStep, ConsumeStep, SettleStep, MarkUnknownStep, MeterStep, RetainStep DEF Session
  <2>4. CASE Execute(w) \/ fail(w) \/ abandon(w) \/ Withdraw(w)
    BY <2>4, ExecuteStep, FailStep, AbandonStep, WithdrawStep
  <2>5. CASE Prepare(w)
    BY <2>5, PrepareStep, ReadStep, CheckObligationStep, CopyStep, RefreshStep, PreparedStep DEF Prepare
  <2>6. CASE Adopt(w)
    BY <2>6, AdoptStep, ConsumePlanStep, WriteStep, CompleteStep DEF Adopt
  <2>7. CASE recover(w) \/ recovering(w)
    BY <2>7, RecoverStep, RecoveringStep
  <2> QED
    BY <2>1, <2>2, <2>3, <2>4, <2>5, <2>6, <2>7
<1> QED
  BY <1>1, <1>2

LEMMA Invariant == Spec => []IInv
<1>1. IInv /\ [Next]_vars => IInv'
  BY Inductive
<1> QED
  BY InitInv, <1>1, PTL DEF Spec

\* The state of every root has its type: records, memories and what was executed.
THEOREM TypeCorrect == Spec => []TypeOK
<1>1. IInv => TypeOK
  BY DEF IInv
<1> QED
  BY Invariant, <1>1, PTL

\* A workflow's plan rests on its own execution's success, on its baseline's failure and
\* on a review that verified until the head before the plan's, whatever publications
\* failed and whoever published again.
THEOREM PlanIsEarned == Spec => []PreparedIsEarned
<1>1. IInv => PreparedIsEarned
  BY DEF IInv, RootInv, Observation, Earned, Failed, Planned, Review, Reviewed, PreparedIsEarned
<1> QED
  BY Invariant, <1>1, PTL

\* The adoption of a root's plan begins to write at most once, and its head never forgets.
THEOREM AdoptsOnce == Spec => []AdoptedOnce
<1>1. IInv => AdoptedOnce
  BY DEF IInv, RootInv, Adoption, AdoptedOnce
<1> QED
  BY Invariant, <1>1, PTL

\* At most one recovery is ever reported for a root.
THEOREM RecoversOnce == Spec => []RecoveredOnce
<1>1. IInv => RecoveredOnce
  BY DEF IInv, RootInv, Recovery, RecoveredOnce
<1> QED
  BY Invariant, <1>1, PTL

\* The record that follows a head a client was told of names that head.
THEOREM HeadsAreChained == Spec => ToldHeadIsChained
<1>1. IInv /\ [Next]_vars => [\A w \in Root : (disk[w] = told[w] /\ disk'[w] # disk[w]) => disk'[w].previous = Id(disk[w])]_vars
  BY Inductive DEF Chained
<1> QED
  BY Invariant, <1>1, PTL DEF Spec, ToldHeadIsChained
================================================================================

----------------------------- MODULE StagingProofs -----------------------------
(***************************************************************************)
(* The two places where vfy/store.py publishes through a staging slot that *)
(* it finds by exclusive creation, for any number of processes and slots:  *)
(* LocalStore.consume_once, which links the staged file and unlinks the    *)
(* slot, and _write_index, which renames it.                               *)
(*                                                                         *)
(* OneConsumerPerNonce alone is not inductive: a caller that unlinks or    *)
(* overwrites somebody else's slot could publish a foreign file.  The      *)
(* invariant adds who holds which slot, that a file is written before it   *)
(* is linked, and that the file in consumed/ belongs to a caller that is   *)
(* past its link.                                                          *)
(*                                                                         *)
(* The index is proved as long as no interrupt arrives between the rename  *)
(* and the end of the try block.  IndexSlotHeldAlone is inductive once a   *)
(* holder's slot is known to be a slot.  IndexIsWhole is not: that the     *)
(* published file stays whole needs that it was created exclusively by a   *)
(* writer that has renamed it and will not write again, so that no open of *)
(* a slot name can reach it.                                               *)
(***************************************************************************)
EXTENDS Consumption, IndexCache, TLAPS

--------------------------------------------------------------------------------
(* consume_once: the invariant                                                  *)

\* An attempt that was called knows its authorization, one that was not has done nothing.
Requested ==
  \A c \in Attempt :
    IF pc[c] = "idle" THEN request[c] = None ELSE request[c] \in Authorization

\* Nobody has a verdict before its link, and a holder's slot exists.
Unjudged ==
  \A c \in Attempt :
    /\ pc[c] \in {"idle", "probe", "write", "link", "compare"} => verdict[c] = "none"
    /\ pc[c] \in Holding => slot[c] \in Slots

\* The record is in the file before the file can be linked.
WrittenFirst ==
  \A c \in Attempt : pc[c] \in {"link", "compare", "unlink"} => data[c] = request[c]

\* The file in consumed/ is complete, named by its nonce, and its owner is past the link.
Published ==
  \A n \in Nonce : consumed[n] # None =>
    /\ data[consumed[n]] = request[consumed[n]]
    /\ nonce(consumed[n]) = n
    /\ pc[consumed[n]] \in {"unlink", "done"}

\* A caller about to unlink knows what it will report.
Judged ==
  \A c \in Attempt : pc[c] = "unlink" => verdict[c] \in Verdicts \ {"none", "unreadable"}

\* A caller compares only with an entry that is there.
ComparesAnEntry ==
  \A c \in Attempt : pc[c] = "compare" => consumed[nonce(c)] # None

IInv ==
  /\ TypeOK
  /\ Requested
  /\ Unjudged
  /\ Judged
  /\ WrittenFirst
  /\ Published
  /\ ComparesAnEntry
  /\ SlotHeldAlone
  /\ OneConsumerPerNonce
  /\ NeverPartial
  /\ LoserIsToldWhy

\* The nonce of a called attempt is a nonce.
LEMMA NonceOfRequest ==
  ASSUME TypeOK, Requested, NEW c \in Attempt, pc[c] # "idle"
  PROVE  nonce(c) \in Nonce /\ request[c] \in Authorization
  BY ConsumptionAssumption DEF TypeOK, Requested, nonce

\* The invariant holds of an empty store with no call under way.
LEMMA InitIInv == Init => IInv
  BY ConsumptionAssumption
  DEF Init, IInv, TypeOK, Requested, Unjudged, Judged, WrittenFirst, Published, ComparesAnEntry,
      SlotHeldAlone, OneConsumerPerNonce, NeverPartial, LoserIsToldWhy,
      Running, Holding, Verdicts, Slots, is_consumed

USE DEF Goto, Report

\* Every step keeps the state well typed.
LEMMA TypeStep == IInv /\ [Next]_vars => TypeOK'
<1> SUFFICES ASSUME IInv, [Next]_vars PROVE TypeOK'
  OBVIOUS
<1> USE ConsumptionAssumption DEF TypeOK, Running, Verdicts, IInv
<1>1. ASSUME NEW c \in Attempt, Call(c) PROVE TypeOK'
  BY <1>1 DEF Call
<1>2. ASSUME NEW c \in Attempt, StageOpen(c) PROVE TypeOK'
  <2>1. nonce(c) \in Nonce
    BY <1>2, NonceOfRequest DEF StageOpen
  <2>2. QED BY <1>2, <2>1 DEF StageOpen, SlotFree
<1>3. ASSUME NEW c \in Attempt, StageBusy(c) PROVE TypeOK'
  BY <1>3 DEF StageBusy, Slots
<1>4. ASSUME NEW c \in Attempt, StageExhausted(c) \/ StageOpenFails(c) PROVE TypeOK'
  BY <1>4 DEF StageExhausted, StageOpenFails
<1>5. ASSUME NEW c \in Attempt, StageWrite(c) PROVE TypeOK'
  <2>1. request[c] \in Authorization
    BY <1>5, NonceOfRequest DEF StageWrite
  <2>2. QED BY <1>5, <2>1 DEF StageWrite
<1>6. ASSUME NEW c \in Attempt, StageWriteFails(c) PROVE TypeOK'
  BY <1>6 DEF StageWriteFails
<1>7. ASSUME NEW c \in Attempt, Link(c) PROVE TypeOK'
  BY <1>7 DEF Link
<1>8. ASSUME NEW c \in Attempt, LinkExists(c) \/ LinkFails(c) \/ CompareFails(c) PROVE TypeOK'
  BY <1>8 DEF LinkExists, LinkFails, CompareFails
<1>9. ASSUME NEW c \in Attempt, Compare(c) PROVE TypeOK'
  BY <1>9 DEF Compare, Judge
<1>10. ASSUME NEW c \in Attempt, Unlink(c) PROVE TypeOK'
  BY <1>10 DEF Unlink
<1>11. ASSUME NEW c \in Attempt, UnlinkFails(c) \/ Interrupt(c) \/ Crash(c) PROVE TypeOK'
  BY <1>11 DEF UnlinkFails, Interrupt, Crash
<1>12. CASE UNCHANGED vars
  BY <1>12 DEF vars
<1>13. QED
  BY <1>1, <1>2, <1>3, <1>4, <1>5, <1>6, <1>7, <1>8, <1>9, <1>10, <1>11, <1>12
  DEF Next, consume_once, stage_consumption

\* Every step keeps the rest of the invariant.
LEMMA IInvStep == IInv /\ [Next]_vars => IInv'
<1> SUFFICES ASSUME IInv, [Next]_vars PROVE IInv'
  OBVIOUS
<1>0. TypeOK'
  BY TypeStep
<1> USE <1>0 DEF IInv, Requested, Unjudged, Judged, WrittenFirst, Published, ComparesAnEntry,
      SlotHeldAlone, OneConsumerPerNonce, NeverPartial, LoserIsToldWhy,
      Holding, Verdicts, is_consumed, nonce
<1>1. ASSUME NEW c \in Attempt, Call(c) PROVE IInv'
  <2>1. /\ pc[c] = "idle" /\ pc' = [pc EXCEPT ![c] = "probe"]
        /\ UNCHANGED <<slot, verdict, data, staged, consumed>>
    BY <1>1 DEF Call, TypeOK
  <2>2. /\ pc'[c] = "probe" /\ request'[c] \in Authorization
        /\ \A d \in Attempt : d # c => pc'[d] = pc[d] /\ request'[d] = request[d]
    BY <1>1, <2>1 DEF Call, TypeOK
  <2>3. \A n \in Nonce : consumed[n] # None => consumed[n] \in Attempt /\ consumed[n] # c
    BY <2>1 DEF TypeOK
  <2>4. verdict[c] = "none"
    BY <2>1
  <2>5. \A d \in Attempt : pc[d] # "idle" => nonce(d) \in Nonce
    BY ConsumptionAssumption
  <2>6. Requested' /\ Unjudged' /\ Judged' /\ WrittenFirst'
    BY <2>1, <2>2, <2>4
  <2>7. Published' /\ NeverPartial'
    BY <2>1, <2>2, <2>3
  <2>8. ComparesAnEntry' /\ SlotHeldAlone' /\ OneConsumerPerNonce'
    BY <2>1, <2>2, <2>4
  <2>9. LoserIsToldWhy'
    BY <2>1, <2>2, <2>3, <2>4, <2>5, ConsumptionAssumption DEF TypeOK
  <2> QED
    BY <2>6, <2>7, <2>8, <2>9
<1>2. ASSUME NEW c \in Attempt, StageOpen(c) PROVE IInv'
  <2>1. SlotHeldAlone'
    BY <1>2, ConsumptionAssumption, NonceOfRequest DEF StageOpen, SlotFree, TypeOK
  <2>2. QED BY <1>2, <2>1, ConsumptionAssumption, SMTT(30) DEF StageOpen, SlotFree, TypeOK
<1>3. ASSUME NEW c \in Attempt, StageBusy(c) PROVE IInv'
  BY <1>3 DEF StageBusy, TypeOK
<1>4. ASSUME NEW c \in Attempt, StageExhausted(c) \/ StageOpenFails(c) PROVE IInv'
  BY <1>4, SMTT(30) DEF StageExhausted, StageOpenFails, TypeOK
<1>5. ASSUME NEW c \in Attempt, StageWrite(c) PROVE IInv'
  BY <1>5 DEF StageWrite, TypeOK
<1>6. ASSUME NEW c \in Attempt, StageWriteFails(c) PROVE IInv'
  BY <1>6 DEF StageWriteFails, TypeOK
<1>7. ASSUME NEW c \in Attempt, Link(c) PROVE IInv'
  <2>1. /\ pc[c] = "link" /\ pc' = [pc EXCEPT ![c] = "unlink"] /\ verdict' = [verdict EXCEPT ![c] = "consumed"]
        /\ consumed[nonce(c)] = None /\ consumed' = [consumed EXCEPT ![nonce(c)] = c]
        /\ UNCHANGED <<request, slot, data, staged>>
    BY <1>7 DEF Link
  <2>2. \A d \in Attempt : pc[d] # "idle" => nonce(d) \in Nonce
    BY ConsumptionAssumption
  <2>3. \A n \in Nonce : consumed'[n] = IF n = nonce(c) THEN c ELSE consumed[n]
    BY <2>1, <2>2 DEF TypeOK
  <2>4. /\ pc'[c] = "unlink" /\ verdict'[c] = "consumed" /\ c # None
        /\ \A d \in Attempt : d # c => pc'[d] = pc[d] /\ verdict'[d] = verdict[d]
    BY <2>1, ConsumptionAssumption DEF TypeOK
  <2>5. Requested' /\ Unjudged' /\ Judged' /\ WrittenFirst'
    BY <2>1, <2>4
  <2>6. Published' /\ NeverPartial'
    BY <2>1, <2>2, <2>3, <2>4
  <2>7. ComparesAnEntry'
    BY <2>1, <2>2, <2>3, <2>4
  <2>8. OneConsumerPerNonce'
    BY <2>1, <2>2, <2>3, <2>4, ConsumptionAssumption
  <2>9. LoserIsToldWhy'
    BY <2>1, <2>2, <2>3, <2>4, ConsumptionAssumption
  <2>10. SlotHeldAlone'
    BY <2>1, <2>4
  <2> QED
    BY <2>5, <2>6, <2>7, <2>8, <2>9, <2>10
<1>8. ASSUME NEW c \in Attempt, LinkExists(c) \/ LinkFails(c) \/ CompareFails(c) PROVE IInv'
  <2>1. CASE LinkExists(c)
    BY <2>1 DEF LinkExists, TypeOK
  <2>2. CASE LinkFails(c)
    BY <2>2 DEF LinkFails, TypeOK
  <2>3. CASE CompareFails(c)
    BY <2>3 DEF CompareFails, TypeOK
  <2>4. QED BY <1>8, <2>1, <2>2, <2>3
<1>9. ASSUME NEW c \in Attempt, Compare(c) PROVE IInv'
  <2>1. Judge(c) \in {"nonce_reused", "consumption_conflict"}
    BY <1>9, ConsumptionAssumption DEF Compare, Judge, TypeOK
  <2>2. Judged'
    BY <1>9, <2>1 DEF Compare, TypeOK
  <2>3. LoserIsToldWhy'
    BY <1>9, ConsumptionAssumption DEF Compare, Judge, TypeOK
  <2>4. QED BY <1>9, <2>1, <2>2, <2>3 DEF Compare, TypeOK
<1>10. ASSUME NEW c \in Attempt, Unlink(c) PROVE IInv'
  <2>1. SlotHeldAlone'
    BY <1>10, ConsumptionAssumption DEF Unlink, TypeOK
  <2>2. Requested' /\ Unjudged' /\ Judged' /\ WrittenFirst' /\ Published' /\ ComparesAnEntry'
    BY <1>10 DEF Unlink, TypeOK
  <2>3. NeverPartial' /\ LoserIsToldWhy' /\ OneConsumerPerNonce'
    BY <1>10 DEF Unlink, TypeOK
  <2> QED
    BY <2>1, <2>2, <2>3
<1>11. ASSUME NEW c \in Attempt, UnlinkFails(c) \/ Interrupt(c) \/ Crash(c) PROVE IInv'
  <2>1. CASE UnlinkFails(c)
    BY <2>1 DEF UnlinkFails, TypeOK
  <2>2. CASE Interrupt(c)
    BY <2>2 DEF Interrupt, TypeOK
  <2>3. CASE Crash(c)
    BY <2>3 DEF Crash, Running, TypeOK
  <2>4. QED BY <1>11, <2>1, <2>2, <2>3
<1>12. CASE UNCHANGED vars
  BY <1>12 DEF vars, TypeOK
<1>13. QED
  BY <1>1, <1>2, <1>3, <1>4, <1>5, <1>6, <1>7, <1>8, <1>9, <1>10, <1>11, <1>12
  DEF Next, consume_once, stage_consumption

\* The invariant holds in every reachable state.
THEOREM Invariance == Spec => []IInv
  BY InitIInv, IInvStep, PTL DEF Spec

\* consume_once keeps its state well typed.
THEOREM TypeCorrect == Spec => []TypeOK
<1>1. IInv => TypeOK
  BY DEF IInv
<1>2. QED BY <1>1, Invariance, PTL

\* At most one attempt per nonce is told that it consumed it, whatever fails,
\* is interrupted or dies around the os.link of consume_once.
THEOREM SingleConsumer == Spec => []OneConsumerPerNonce
<1>1. IInv => OneConsumerPerNonce
  BY DEF IInv
<1>2. QED BY <1>1, Invariance, PTL

\* consumed/<digest>.json is absent or complete, for any number of racing callers.
THEOREM PublishedComplete == Spec => []NeverPartial
<1>1. IInv => NeverPartial
  BY DEF IInv
<1>2. QED BY <1>1, Invariance, PTL

\* consume_once's loser can always tell a repeated spend from a conflicting one.
THEOREM RefusalIsTruthful == Spec => []LoserIsToldWhy
<1>1. IInv => LoserIsToldWhy
  BY DEF IInv
<1>2. QED BY <1>1, Invariance, PTL

\* The finally clause of consume_once only ever unlinks the caller's own slot.
THEOREM SlotExclusive == Spec => []SlotHeldAlone
<1>1. IInv => SlotHeldAlone
  BY DEF IInv
<1>2. QED BY <1>1, Invariance, PTL

\* No step of consume_once withdraws or rewrites a published consumption.
THEOREM Permanence == Spec => ConsumptionIsPermanent
<1>1. IInv /\ [Next]_vars =>
        [\A n \in Nonce : is_consumed(n) =>
           consumed'[n] = consumed[n] /\ data'[consumed[n]] = data[consumed[n]]]_vars
  <2> SUFFICES ASSUME IInv, Next, NEW n \in Nonce, is_consumed(n)
               PROVE  consumed'[n] = consumed[n] /\ data'[consumed[n]] = data[consumed[n]]
    OBVIOUS
  <2> PICK c \in Attempt : Call(c) \/ consume_once(c) \/ Interrupt(c) \/ Crash(c)
    BY DEF Next
  <2>1. CASE Link(c)
    <3>1. nonce(c) \in Nonce /\ nonce(c) # n
      BY <2>1, NonceOfRequest DEF Link, IInv, is_consumed
    <3>2. QED BY <2>1, <3>1 DEF Link, IInv, TypeOK
  <2>2. CASE StageWrite(c)
    <3>1. consumed[n] # c
      BY <2>2 DEF StageWrite, IInv, Published, is_consumed
    <3>2. QED BY <2>2, <3>1 DEF StageWrite, IInv, TypeOK, is_consumed
  <2>3. CASE UNCHANGED <<data, consumed>>
    BY <2>3
  <2>4. QED
    BY <2>1, <2>2, <2>3
    DEF consume_once, stage_consumption, Call, StageOpen, StageBusy, StageExhausted,
        StageOpenFails, StageWriteFails, LinkExists, LinkFails, Compare, CompareFails, Unlink,
        UnlinkFails, Interrupt, Crash
<1>2. QED BY <1>1, Invariance, PTL DEF Spec, ConsumptionIsPermanent

\* A slot left behind by a caller that is gone is never reused nor removed.
THEOREM AbandonedKept == Spec => AbandonedSlotIsKept
<1>1. IInv /\ [Next]_vars =>
        [\A n \in Nonce, s \in Slots :
           (\E c \in Attempt : staged[n][s] = c /\ pc[c] = "done")
             => staged'[n][s] = staged[n][s]]_vars
  <2> SUFFICES ASSUME IInv, Next, NEW n \in Nonce, NEW s \in Slots,
                      NEW d \in Attempt, staged[n][s] = d, pc[d] = "done"
               PROVE  staged'[n][s] = staged[n][s]
    OBVIOUS
  <2> PICK c \in Attempt : Call(c) \/ consume_once(c) \/ Interrupt(c) \/ Crash(c)
    BY DEF Next
  <2>1. CASE StageOpen(c)
    BY <2>1, NonceOfRequest, ConsumptionAssumption DEF StageOpen, SlotFree, IInv, TypeOK
  <2>2. CASE Unlink(c)
    <3>1. nonce(c) \in Nonce /\ staged[nonce(c)][slot[c]] = c /\ slot[c] \in Slots
      BY <2>2, NonceOfRequest DEF Unlink, IInv, SlotHeldAlone, Unjudged, Holding
    <3>2. ~ (nonce(c) = n /\ slot[c] = s)
      BY <2>2, <3>1 DEF Unlink
    <3>3. QED BY <2>2, <3>1, <3>2 DEF Unlink, IInv, TypeOK
  <2>3. CASE UNCHANGED staged
    BY <2>3
  <2>4. QED
    BY <2>1, <2>2, <2>3
    DEF consume_once, stage_consumption, Call, StageBusy, StageExhausted, StageOpenFails,
        StageWrite, StageWriteFails, Link, LinkExists, LinkFails, Compare, CompareFails, UnlinkFails,
        Interrupt, Crash
<1>2. QED BY <1>1, Invariance, PTL DEF Spec, AbandonedSlotIsKept

\* consume_once implements the single-use specification: the os.link spends the
\* nonce, the end of the call answers, and every other step is invisible.
THEOREM ImplementsSingleUse == Spec => SingleUseSpec
<1>1. Init => Abstract!Init
  BY DEF Init, Abstract!Init, Reply
<1>2. IInv /\ IInv' /\ [Next]_vars => [Abstract!Next]_(Abstract!vars)
  <2> SUFFICES ASSUME IInv, IInv', [Next]_vars
               PROVE  [Abstract!Next]_(Abstract!vars)
    OBVIOUS
  <2> USE DEF IInv
  <2>1. ASSUME NEW c \in Attempt, Call(c) PROVE Abstract!Ask(c)
    <3>1. Reply' = Reply
      BY <2>1 DEF Call, Reply, TypeOK
    <3>2. Reply[c] = "pending" /\ request[c] = None
      BY <2>1 DEF Call, Reply, Requested
    <3>3. QED BY <2>1, <3>1, <3>2 DEF Call, Abstract!Ask
  <2>2. ASSUME NEW c \in Attempt, pc[c] \in Running
        PROVE  nonce(c) \in Nonce /\ Abstract!Pending(c, nonce(c))
    BY <2>2, ConsumptionAssumption, NonceOfRequest DEF Abstract!Pending, Reply, Running, nonce
  <2>3. ASSUME NEW c \in Attempt, Link(c) PROVE Abstract!Spend(c)
    <3>1. Reply' = Reply
      BY <2>3 DEF Link, Reply, TypeOK
    <3>2. nonce(c) \in Nonce /\ Abstract!Pending(c, nonce(c))
      BY <2>2, <2>3 DEF Link, Running
    <3>3. QED BY <2>3, <3>1, <3>2 DEF Link, Abstract!Spend, is_consumed
  <2>4. ASSUME NEW c \in Attempt, pc[c] \in Running, pc' = [pc EXCEPT ![c] = "done"],
               UNCHANGED <<request, consumed>>, NEW v,
               verdict' = [verdict EXCEPT ![c] = v],
               v \in {"consumed", "nonce_reused", "consumption_conflict"}
                       \union Abstract!Failures,
               Abstract!Honest(c, nonce(c), v)
        PROVE  Abstract!Answer(c)
    <3>1. Reply' = [Reply EXCEPT ![c] = v]
      BY <2>4 DEF Reply, TypeOK
    <3>2. nonce(c) \in Nonce /\ Abstract!Pending(c, nonce(c))
      BY <2>2, <2>4
    <3>3. QED BY <2>4, <3>1, <3>2 DEF Abstract!Answer
  <2>5. ASSUME NEW c \in Attempt,
               \/ StageExhausted(c) \/ StageOpenFails(c) \/ StageWriteFails(c)
               \/ UnlinkFails(c) \/ Crash(c)
               \/ Interrupt(c) /\ pc'[c] = "done"
        PROVE  Abstract!Answer(c)
    <3>1. PICK v \in {"commit_conflict", "os_error", "crashed", "interrupted"} :
             verdict' = [verdict EXCEPT ![c] = v]
      BY <2>5 DEF StageExhausted, StageOpenFails, StageWriteFails, UnlinkFails, Crash, Interrupt
    <3>2. /\ pc[c] \in Running
          /\ pc' = [pc EXCEPT ![c] = "done"]
          /\ UNCHANGED <<request, consumed>>
      BY <2>5 DEF StageExhausted, StageOpenFails, StageWriteFails, UnlinkFails, Crash,
                  Interrupt, Running, TypeOK
    <3>3. QED BY <2>4, <3>1, <3>2 DEF Abstract!Honest, Abstract!Failures
  <2>6. ASSUME NEW c \in Attempt, Unlink(c) PROVE Abstract!Answer(c)
    <3>1. verdict' = [verdict EXCEPT ![c] = verdict[c]] /\ pc[c] = "unlink"
      BY <2>6 DEF Unlink, TypeOK
    <3>2. /\ verdict[c] \in {"consumed", "nonce_reused", "consumption_conflict"}
                              \union Abstract!Failures
          /\ Abstract!Honest(c, nonce(c), verdict[c])
      BY <3>1 DEF Judged, Verdicts, OneConsumerPerNonce, LoserIsToldWhy, Abstract!Honest, Abstract!Failures
    <3>3. QED BY <2>4, <2>6, <3>1, <3>2 DEF Unlink, Running
  <2>7. ASSUME NEW c \in Attempt,
               \/ StageOpen(c) \/ StageBusy(c) \/ StageWrite(c)
               \/ LinkExists(c) \/ LinkFails(c) \/ Compare(c) \/ CompareFails(c)
               \/ Interrupt(c) /\ pc'[c] # "done"
        PROVE  UNCHANGED Abstract!vars
    <3>1. Reply' = Reply
      BY <2>7 DEF StageOpen, StageBusy, StageWrite, LinkExists, LinkFails, Compare, CompareFails, Interrupt,
                  Reply, TypeOK
    <3>2. QED BY <2>7, <3>1 DEF StageOpen, StageBusy, StageWrite, LinkExists, LinkFails,
                                Compare, CompareFails, Interrupt, Abstract!vars
  <2>8. CASE UNCHANGED vars
    BY <2>8 DEF vars, Abstract!vars, Reply
  <2>9. QED
    BY <2>1, <2>3, <2>5, <2>6, <2>7, <2>8
    DEF Next, consume_once, stage_consumption, Abstract!Next
<1>3. QED BY <1>1, <1>2, Invariance, PTL DEF Spec, SingleUseSpec, Abstract!Spec

--------------------------------------------------------------------------------
(* _write_index: the invariant                                                  *)

\* What a writer between the exclusive creation and the rename can rely on.
WriterInv(w) ==
  /\ at[w] \in Staging => indexSlot[w] \in IndexSlots /\ stagedIndex[indexSlot[w]] = <<w, "exclusive">>
  /\ at[w] = "write" => /\ handle[w] = <<w, "exclusive">>
                        /\ content[<<w, "exclusive">>] = EmptyFile
  /\ at[w] = "replace" => content[<<w, "exclusive">>] = Document(summaries[w])

\* The published file is complete and out of every writer's reach.
IndexPublished ==
  index # Absent =>
    \E v \in Writer : /\ index = <<v, "exclusive">>
                      /\ at[v] \in {"replaced", "done"}
                      /\ content[index].form = "whole"

IndexIInv ==
  /\ IndexTypeOK
  /\ \A w \in Writer : WriterInv(w)
  /\ IndexPublished
  /\ ~ answer.refused

LEMMA Exclusive == \A w \in Writer : <<w, "exclusive">> \in File
  BY DEF File

LEMMA DistinctFiles == \A v, w \in Writer : v # w => <<v, "exclusive">> # <<w, "exclusive">>
  OBVIOUS

LEMMA InitIndexIInv == IndexInit => IndexIInv
<1> SUFFICES ASSUME IndexInit PROVE IndexIInv
  OBVIOUS
<1>1. EmptyFile \in Content
  BY DEF EmptyFile, Content
<1>2. 0 \in 0 .. _MAX_INDEX_SLOTS
  BY IndexAssumption
<1>3. IndexTypeOK
  BY <1>1, <1>2 DEF IndexInit, IndexTypeOK
<1>4. (\A w \in Writer : WriterInv(w)) /\ IndexPublished /\ ~ answer.refused
  BY DEF IndexInit, WriterInv, IndexPublished, Staging
<1> QED
  BY <1>3, <1>4 DEF IndexIInv

\* No step before the exclusive creation, and none that ends a call without touching
\* the slot, disturbs anything.
LEMMA QuietStep ==
  ASSUME IndexIInv, NEW w \in Writer, NEW to \in {"scan", "probe", "done"},
         at' = [at EXCEPT ![w] = to], at[w] # "done", at[w] = "replaced" => to = "done",
         UNCHANGED <<handle, stagedIndex, index, content, answer>>,
         caller' \in [Writer -> {"none", "put_record", "rebuild_index"}],
         \/ UNCHANGED summaries
         \/ at[w] = "scan" /\ summaries' = [summaries EXCEPT ![w] = committed],
         committed' \in SUBSET Id,
         UNCHANGED indexSlot
  PROVE  IndexIInv'
<1>1. IndexTypeOK'
  BY DEF IndexIInv, IndexTypeOK, Steps
<1>2. ASSUME NEW v \in Writer PROVE WriterInv(v)'
  <2>1. CASE v = w
    BY <2>1 DEF IndexIInv, IndexTypeOK, WriterInv, Staging
  <2>2. CASE v # w
    BY <2>2 DEF IndexIInv, IndexTypeOK, WriterInv, Staging
  <2> QED
    BY <2>1, <2>2
<1>3. IndexPublished'
  BY DEF IndexIInv, IndexTypeOK, IndexPublished
<1> QED
  BY <1>1, <1>2, <1>3 DEF IndexIInv

LEMMA SlotOpenStep == ASSUME IndexIInv, NEW w \in Writer, SlotOpen(w) PROVE IndexIInv'
<1> USE DEF SlotOpen, Advance
<1>1. IndexTypeOK'
  BY Exclusive DEF IndexIInv, IndexTypeOK, Steps, InTry, Staging
<1>2. ASSUME NEW v \in Writer PROVE WriterInv(v)'
  <2>1. CASE v = w
    BY <2>1 DEF IndexIInv, IndexTypeOK, WriterInv, Staging, IndexSlotFree
  <2>2. CASE v # w
    <3>1. at[v] \in Staging => indexSlot[v] # indexSlot[w]
      BY IndexAssumption, Exclusive DEF IndexIInv, WriterInv, IndexSlotFree
    <3> QED
      BY <2>2, <3>1 DEF IndexIInv, IndexTypeOK, WriterInv, Staging
  <2> QED
    BY <2>1, <2>2
<1>3. IndexPublished'
  BY DEF IndexIInv, IndexTypeOK, IndexPublished
<1> QED
  BY <1>1, <1>2, <1>3 DEF IndexIInv

LEMMA SlotBusyStep == ASSUME IndexIInv, NEW w \in Writer, SlotBusy(w) PROVE IndexIInv'
<1> USE DEF SlotBusy
<1>1. IndexTypeOK'
  <2>1. indexSlot[w] + 1 \in 0 .. _MAX_INDEX_SLOTS
    BY IndexAssumption DEF IndexSlots
  <2> QED
    BY <2>1 DEF IndexIInv, IndexTypeOK
<1>2. ASSUME NEW v \in Writer PROVE WriterInv(v)'
  <2>1. CASE v = w
    BY <2>1 DEF IndexIInv, IndexTypeOK, WriterInv, Staging
  <2>2. CASE v # w
    BY <2>2 DEF IndexIInv, IndexTypeOK, WriterInv
  <2> QED
    BY <2>1, <2>2
<1>3. IndexPublished'
  BY DEF IndexIInv, IndexPublished
<1> QED
  BY <1>1, <1>2, <1>3 DEF IndexIInv

\* The second open reaches the writer's own file.
LEMMA ReopenStep == ASSUME IndexIInv, NEW w \in Writer, Reopen(w) PROVE IndexIInv'
<1> DEFINE own == <<w, "exclusive">>
<1>1. /\ indexSlot[w] \in IndexSlots /\ stagedIndex[indexSlot[w]] = own /\ own # Absent /\ own \in File
  BY IndexAssumption, Exclusive DEF IndexIInv, WriterInv, Reopen, Advance, Staging
<1>2. /\ at[w] = "open" /\ at' = [at EXCEPT ![w] = "write"]
      /\ handle' = [handle EXCEPT ![w] = own]
      /\ stagedIndex' = stagedIndex
      /\ content' = [content EXCEPT ![own] = EmptyFile]
      /\ UNCHANGED <<caller, summaries, indexSlot, committed, index, answer>>
  BY <1>1 DEF Reopen, Advance, IndexIInv, IndexTypeOK
<1>3. EmptyFile \in Content
  BY DEF EmptyFile, Content
<1>4. IndexTypeOK'
  BY <1>1, <1>2, <1>3 DEF IndexIInv, IndexTypeOK, Steps, InTry, Staging
<1>5. ASSUME NEW v \in Writer PROVE WriterInv(v)'
  <2>1. CASE v = w
    BY <1>1, <1>2, <2>1 DEF IndexIInv, IndexTypeOK, WriterInv, Staging
  <2>2. CASE v # w
    BY <1>2, <2>2, Exclusive DEF IndexIInv, IndexTypeOK, WriterInv, Staging
  <2> QED
    BY <2>1, <2>2
<1>6. IndexPublished'
  BY <1>2, Exclusive DEF IndexIInv, IndexTypeOK, IndexPublished
<1> QED
  BY <1>2, <1>4, <1>5, <1>6 DEF IndexIInv

LEMMA WriteStep == ASSUME IndexIInv, NEW w \in Writer, Write(w) PROVE IndexIInv'
<1> DEFINE own == <<w, "exclusive">>
<1>1. handle[w] = own /\ content[own] = EmptyFile /\ own \in File
  BY Exclusive DEF IndexIInv, WriterInv, Write, Advance
<1>2. /\ at[w] = "write" /\ at' = [at EXCEPT ![w] = "replace"]
      /\ content' = [content EXCEPT ![own] = Document(summaries[w])]
      /\ UNCHANGED <<caller, summaries, indexSlot, handle, committed, stagedIndex, index, answer>>
  BY <1>1 DEF Write, Advance
<1>3. Document(summaries[w]) \in Content
  BY DEF Document, Content, IndexIInv, IndexTypeOK
<1>4. IndexTypeOK'
  BY <1>1, <1>2, <1>3 DEF IndexIInv, IndexTypeOK, Steps, InTry, Staging
<1>5. ASSUME NEW v \in Writer PROVE WriterInv(v)'
  <2>1. CASE v = w
    BY <1>1, <1>2, <2>1 DEF IndexIInv, IndexTypeOK, WriterInv, Staging
  <2>2. CASE v # w
    BY <1>2, <2>2, Exclusive DEF IndexIInv, IndexTypeOK, WriterInv, Staging
  <2> QED
    BY <2>1, <2>2
<1>6. IndexPublished'
  BY <1>2, Exclusive DEF IndexIInv, IndexTypeOK, IndexPublished
<1> QED
  BY <1>2, <1>4, <1>5, <1>6 DEF IndexIInv

LEMMA ReplaceStep == ASSUME IndexIInv, NEW w \in Writer, Replace(w) PROVE IndexIInv'
<1> DEFINE own == <<w, "exclusive">>
<1>1. /\ indexSlot[w] \in IndexSlots /\ stagedIndex[indexSlot[w]] = own /\ own # Absent /\ own \in File
      /\ content[own] = Document(summaries[w])
  BY IndexAssumption, Exclusive DEF IndexIInv, WriterInv, Replace, Advance, Staging
<1>2. /\ at[w] = "replace" /\ at' = [at EXCEPT ![w] = "replaced"]
      /\ index' = own
      /\ stagedIndex' = [stagedIndex EXCEPT ![indexSlot[w]] = Absent]
      /\ UNCHANGED <<caller, summaries, indexSlot, handle, committed, content, answer>>
  BY <1>1 DEF Replace, Advance
<1>3. IndexTypeOK'
  BY <1>1, <1>2 DEF IndexIInv, IndexTypeOK, Steps, InTry, Staging
<1>4. ASSUME NEW v \in Writer PROVE WriterInv(v)'
  <2>1. CASE v = w
    BY <1>2, <2>1 DEF IndexIInv, IndexTypeOK, WriterInv, Staging
  <2>2. CASE v # w
    <3>1. at[v] \in Staging => indexSlot[v] # indexSlot[w]
      BY <1>1, <2>2, DistinctFiles DEF IndexIInv, WriterInv
    <3> QED
      BY <1>1, <1>2, <2>2, <3>1 DEF IndexIInv, IndexTypeOK, WriterInv, Staging
  <2> QED
    BY <2>1, <2>2
<1>5. IndexPublished'
  BY <1>1, <1>2 DEF IndexIInv, IndexTypeOK, IndexPublished, Document
<1> QED
  BY <1>2, <1>3, <1>4, <1>5 DEF IndexIInv

\* A handler that runs before the rename unlinks the writer's own slot.
LEMMA HandlerStep == ASSUME IndexIInv, NEW w \in Writer, Handler(w, Staging) PROVE IndexIInv'
<1>1. indexSlot[w] \in IndexSlots /\ stagedIndex[indexSlot[w]] = <<w, "exclusive">>
  BY DEF IndexIInv, WriterInv, Handler
<1>2. IndexTypeOK'
  BY <1>1 DEF IndexIInv, IndexTypeOK, Handler
<1>3. ASSUME NEW v \in Writer PROVE WriterInv(v)'
  <2>1. CASE v = w
    BY <2>1 DEF IndexIInv, IndexTypeOK, WriterInv, Staging, Handler
  <2>2. CASE v # w
    <3>1. at[v] \in Staging => indexSlot[v] # indexSlot[w]
      BY <1>1, <2>2, DistinctFiles, ZenonT(120) DEF IndexIInv, WriterInv
    <3> QED
      BY <1>1, <2>2, <3>1 DEF IndexIInv, IndexTypeOK, WriterInv, Staging, Handler
  <2> QED
    BY <2>1, <2>2
<1>4. IndexPublished'
  BY DEF IndexIInv, IndexTypeOK, IndexPublished, Handler
<1> QED
  BY <1>2, <1>3, <1>4 DEF IndexIInv, Handler

LEMMA ListingStep == ASSUME IndexIInv, listing PROVE IndexIInv'
<1>1. Readable
  BY DEF IndexIInv, IndexPublished, Readable
<1>2. IndexTypeOK' /\ ~ answer'.refused
  BY <1>1 DEF IndexIInv, IndexTypeOK, listing
<1>3. (\A v \in Writer : WriterInv(v)') /\ IndexPublished'
  BY DEF IndexIInv, WriterInv, IndexPublished, listing
<1> QED
  BY <1>2, <1>3 DEF IndexIInv

LEMMA IndexIInvStep == ASSUME ~ LateInterrupts, IndexIInv, [IndexNext]_indexVars PROVE IndexIInv'
<1>1. CASE UNCHANGED indexVars
  BY <1>1 DEF indexVars, IndexIInv, IndexTypeOK, WriterInv, IndexPublished
<1>2. CASE listing
  BY <1>2, ListingStep
<1>3. ASSUME NEW w \in Writer, put_record(w) PROVE IndexIInv'
  BY <1>3, QuietStep DEF put_record, Advance, IndexIInv, IndexTypeOK
<1>4. ASSUME NEW w \in Writer, rebuild_index(w) PROVE IndexIInv'
  BY <1>4, QuietStep DEF rebuild_index, Advance, IndexIInv, IndexTypeOK
<1>5. ASSUME NEW w \in Writer, Scan(w) PROVE IndexIInv'
  BY <1>5, QuietStep DEF Scan, Advance, IndexIInv, IndexTypeOK
<1>6. ASSUME NEW w \in Writer, _write_index(w) PROVE IndexIInv'
  <2>1. CASE SlotsExhausted(w)
    BY <2>1, QuietStep DEF SlotsExhausted, Advance, IndexIInv, IndexTypeOK
  <2>2. CASE Return(w)
    BY <2>2, QuietStep DEF Return, Advance, IndexIInv, IndexTypeOK
  <2>3. CASE WriteFails(w)
    BY <2>3, HandlerStep DEF WriteFails
  <2> QED
    BY <1>6, <2>1, <2>2, <2>3, SlotOpenStep, SlotBusyStep, ReopenStep, WriteStep, ReplaceStep
       DEF _write_index
<1>7. ASSUME NEW w \in Writer, InterruptWriter(w) PROVE IndexIInv'
  BY <1>7, HandlerStep DEF InterruptWriter
<1>8. ASSUME NEW w \in Writer, WriterDies(w) PROVE IndexIInv'
  BY <1>8, QuietStep DEF WriterDies, Steps, InTry, Staging, IndexIInv, IndexTypeOK
<1> QED
  BY <1>1, <1>2, <1>3, <1>4, <1>5, <1>6, <1>7, <1>8 DEF IndexNext

LEMMA IndexInvariance == ASSUME ~ LateInterrupts PROVE IndexSpec => []IndexIInv
<1>1. IndexIInv /\ [IndexNext]_indexVars => IndexIInv'
  BY IndexIInvStep
<1> QED
  BY InitIndexIInv, <1>1, PTL DEF IndexSpec

--------------------------------------------------------------------------------
(* Theorems                                                                     *)

\* The variables of _write_index keep their types for every set of writers and ids
\* and every number of slots.
THEOREM IndexTypeCorrect == ASSUME ~ LateInterrupts PROVE IndexSpec => []IndexTypeOK
<1>1. IndexIInv => IndexTypeOK
  BY DEF IndexIInv
<1> QED
  BY <1>1, IndexInvariance, PTL

\* IndexSlotHeldAlone: from the exclusive creation to the rename nobody else takes the
\* slot of a writer, whatever other writers fail, die or are interrupted at.
THEOREM IndexSlotExclusive == ASSUME ~ LateInterrupts PROVE IndexSpec => []IndexSlotHeldAlone
<1>1. IndexIInv => IndexSlotHeldAlone
  BY DEF IndexIInv, WriterInv, IndexSlotHeldAlone
<1> QED
  BY <1>1, IndexInvariance, PTL

\* IndexIsWhole: index.json is absent or a complete document, and no listing
\* refuses it.
THEOREM IndexWhole == ASSUME ~ LateInterrupts PROVE IndexSpec => []IndexIsWhole
<1>1. IndexIInv => IndexIsWhole
  BY DEF IndexIInv, IndexPublished, IndexIsWhole, Readable
<1> QED
  BY <1>1, IndexInvariance, PTL

\* PublishesOwnScan: the rename of _write_index publishes what its own writer scanned.
THEOREM OwnScanPublished == ASSUME ~ LateInterrupts PROVE IndexSpec => PublishesOwnScan
<1> DEFINE Own == \A w \in Writer : at[w] = "replace" /\ at'[w] = "replaced" =>
                    content[index'] = Document(summaries[w])
<1>1. ASSUME IndexIInv, [IndexNext]_indexVars, NEW w \in Writer, at[w] = "replace", at'[w] = "replaced"
      PROVE  content[index'] = Document(summaries[w])
  <2>1. Replace(w)
    <3>1. ASSUME NEW v \in Writer, v # w, at' = at \/ \E to : at' = [at EXCEPT ![v] = to]
          PROVE  FALSE
      BY <1>1, <3>1 DEF IndexIInv, IndexTypeOK
    <3>2. ~ UNCHANGED indexVars /\ ~ listing
      BY <1>1 DEF indexVars, listing
    <3>3. PICK v \in Writer : \/ put_record(v) \/ rebuild_index(v) \/ Scan(v) \/ _write_index(v)
                              \/ InterruptWriter(v) \/ WriterDies(v)
      BY <1>1, <3>2 DEF IndexNext
    <3>4. at' = at \/ \E to : at' = [at EXCEPT ![v] = to]
      BY <3>3 DEF put_record, rebuild_index, Scan, _write_index, SlotOpen, SlotBusy, SlotsExhausted,
                  Reopen, Write, Replace, Return, WriteFails, Handler, InterruptWriter, WriterDies, Advance
    <3>5. v = w
      BY <3>1, <3>4
    <3> QED
      BY <1>1, <3>3, <3>5 DEF put_record, rebuild_index, Scan, _write_index, SlotOpen, SlotBusy,
           SlotsExhausted, Reopen, Write, Replace, Return, WriteFails, Handler, InterruptWriter, WriterDies, Advance,
           IndexIInv, IndexTypeOK
  <2> QED
    BY <1>1, <2>1 DEF Replace, IndexIInv, WriterInv, Staging
<1>2. IndexIInv /\ [IndexNext]_indexVars => [Own]_indexVars
  BY <1>1
<1> QED
  BY <1>2, IndexInvariance, PTL DEF IndexSpec, PublishesOwnScan
================================================================================

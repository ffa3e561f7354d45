---------------------------- MODULE LocalStoreProofs ----------------------------
(***************************************************************************)
(* The commit protocol of LocalStore.put_record for any number of writers, *)
(* ids, contents and records.                                              *)
(*                                                                         *)
(* CommittedIsComplete is not inductive: it does not say that the staged   *)
(* receipt and the inputs directory that a writer is about to put together *)
(* come from the same record.  The invariant says who works in a staging   *)
(* directory, what is in it, and that a writer past its look for an inputs *)
(* directory is the only one that can still place one.                     *)
(*                                                                         *)
(* The second part is about the record that is put: what its files replay  *)
(* to later, for every parser and evaluator of expressions, every corpus,  *)
(* time to live and clock.  The loop of _walk comes to what evaluate       *)
(* comes to, so a replay finds the result again; and a signature is over   *)
(* what was decided, whatever else of the record is altered.               *)
(***************************************************************************)
EXTENDS LocalStore, Receipt, TLAPS

\* A call that has begun knows its record; one that has not has no verdict.
Called ==
  \A w \in Writer :
    IF pc[w] = "idle" THEN rec[w] = None /\ verdict[w] = "none" /\ written[w] = {}
    ELSE rec[w] \in Record

\* A verdict is given once, at the end.
JudgedLast == \A w \in Writer : pc[w] # "done" <=> verdict[w] = "none"

\* One writer at a time works in a staging directory.
StagingOwned ==
  \A w \in Writer : pc[w] \in Staging =>
    /\ staging[id(w)] # None
    /\ \A v \in Writer : pc[v] \in Staging /\ id(v) = id(w) => v = w

\* How far the writes of a call have got.
WrittenSoFar ==
  \A w \in Writer :
    /\ pc[w] \in {"exists", "mkdir"} => written[w] = {}
    /\ pc[w] = "write" => written[w] \subseteq bodies(rec[w])
    /\ pc[w] \in {"readback", "inputs", "lift", "place"} =>
         written[w] = bodies(rec[w]) \union {"receipt"}

\* A staging directory holds what its writer has written, and nothing else.
StagedContent ==
  \A w \in Writer : pc[w] \in Staging =>
    \A f \in FileNames :
      staging[id(w)][f] =
        IF f \in written[w] /\ (pc[w] = "place" => f # "receipt")
          THEN Content(rec[w], f) ELSE None

\* Past the look for an inputs directory there is none until this writer places it.
InputsFree == \A w \in Writer : pc[w] \in {"lift", "place"} => inputs[id(w)] = None

\* The staged receipt a writer will rename is its own.
LiftedOwn == \A w \in Writer : pc[w] \in {"place", "commit"} => lifted[id(w)] = rec[w].receipt

\* At the commit point the bodies are in place, complete, and the id is free.
ReadyToCommit ==
  \A w \in Writer : pc[w] = "commit" =>
    /\ inputs[id(w)] = InputsOf(rec[w])
    /\ receipts[id(w)] = None
    /\ \A v \in Writer : pc[v] = "commit" /\ id(v) = id(w) => v = w

\* Past it the record stands.
StandsAfterCommit ==
  \A w \in Writer : pc[w] \in {"scan", "publish", "reload"} =>
    /\ receipts[id(w)] = rec[w].receipt
    /\ inputs[id(w)] # None
    /\ \A f \in bodies(rec[w]) : inputs[id(w)][f] = Content(rec[w], f)

\* A scan under way has seen committed records only.
ScannedCommitted ==
  \A w \in Writer : pc[w] = "publish" => \A i \in listing[w] : receipts[i] # None

\* What a call has staged is in its staging directory or in an inputs directory.
StagedIsSomewhere ==
  \A w \in Writer : written[w] # {} => staging[id(w)] # None \/ inputs[id(w)] # None

IInv ==
  /\ TypeOK
  /\ Called
  /\ JudgedLast
  /\ StagingOwned
  /\ WrittenSoFar
  /\ StagedContent
  /\ InputsFree
  /\ LiftedOwn
  /\ ReadyToCommit
  /\ StandsAfterCommit
  /\ ScannedCommitted
  /\ StagedIsSomewhere
  /\ CommittedIsComplete
  /\ SuccessIsDurable
  /\ IndexNamesCommitted

\* The parts of a record.
LEMMA RecordParts ==
  ASSUME NEW r \in Record
  PROVE  /\ r.id \in Id /\ r.receipt \in Bytes /\ r.body \in Bytes
         /\ bodies(r) \subseteq BodyNames
         /\ "receipt" \notin bodies(r)
         /\ InputsOf(r) \in Dir
         /\ InputsOf(r) # None
         /\ \A f \in bodies(r) \union {"receipt"} : Content(r, f) \in Bytes /\ Content(r, f) # None
  BY StoreAssumption DEF bodies, AlwaysStored, BodyNames, FileNames, InputsOf, Dir, Content

\* What stands under an id is the receipt and the inputs directory of that id.
LEMMA StoredParts ==
  ASSUME NEW i
  PROVE  /\ Stored(i) \in [FileNames -> {Stored(i)[f] : f \in FileNames}]
         /\ "receipt" \in FileNames /\ BodyNames \subseteq FileNames /\ "receipt" \notin BodyNames
         /\ Stored(i)["receipt"] = receipts[i]
         /\ \A f \in BodyNames : Stored(i)[f] = IF inputs[i] = None THEN None ELSE inputs[i][f]
  BY DEF Stored, FileNames, BodyNames

\* A record whose artifacts stand has its receipt committed.
LEMMA StandsOn ==
  ASSUME NEW r \in Record, Stands(r)
  PROVE  receipts[r.id] = r.receipt /\ receipts[r.id] # None
<1>1. Artifacts(r)["receipt"] = r.receipt /\ r.receipt # None /\ "receipt" \in FileNames
  BY StoreAssumption DEF Artifacts, Content, FileNames
<1>2. QED BY <1>1, StoredParts DEF Stands

\* A called writer has an id, and no content is the absence of one.
LEMMA CalledParts ==
  ASSUME TypeOK, Called, NEW w \in Writer, pc[w] # "idle"
  PROVE  rec[w] \in Record /\ id(w) \in Id
  BY RecordParts DEF Called, id

\* The invariant holds of an empty store with no call under way.
LEMMA InitIInv == Init => IInv
  BY StoreAssumption
  DEF Init, IInv, TypeOK, Called, JudgedLast, StagingOwned, WrittenSoFar, StagedContent, InputsFree,
      LiftedOwn, ReadyToCommit, StandsAfterCommit, ScannedCommitted, StagedIsSomewhere,
      CommittedIsComplete, SuccessIsDurable, IndexNamesCommitted, committed,
      Staging, PutSteps, KeepSteps, Verdicts, FileNames

\* What a reload and a comparison refuse with.
LEMMA Answers ==
  ASSUME NEW i, NEW w
  PROVE  /\ get_record(i) \in {"ok", "missing", "incomplete", "noncanonical", "record_conflict"}
         /\ CompareStored(w) \in {"ok", "incomplete", "noncanonical", "record_conflict"}
<1>1. \A f : /\ Loaded(i, f) \in {"ok", "incomplete", "noncanonical", "record_conflict"}
             /\ Compared(w, f) \in {"ok", "incomplete", "noncanonical", "record_conflict"}
  BY DEF Loaded, Compared
<1>2. /\ FirstRefusal([f \in BodyNames |-> Loaded(i, f)])
           \in {"ok", "incomplete", "noncanonical", "record_conflict"}
      /\ FirstRefusal([f \in BodyNames |-> Compared(w, f)])
           \in {"ok", "incomplete", "noncanonical", "record_conflict"}
  BY <1>1 DEF FirstRefusal, BodyNames
<1>3. QED BY <1>2 DEF get_record, CompareStored

USE DEF Goto, Return, Refuse

\* Every step keeps the state well typed.
LEMMA TypeStep == IInv /\ [Next]_vars => TypeOK'
<1> SUFFICES ASSUME IInv, [Next]_vars PROVE TypeOK'
  OBVIOUS
<1> USE StoreAssumption DEF PutSteps, KeepSteps, Staging, Verdicts, recordVars, keepVars
<1>a. TypeOK /\ Called
  BY DEF IInv
<1>b. ASSUME NEW w \in Writer, pc[w] # "idle" PROVE rec[w] \in Record /\ id(w) \in Id
  BY <1>a, <1>b, CalledParts
<1>1. ASSUME NEW w \in Writer, PutCall(w) PROVE TypeOK'
  BY <1>a, <1>1 DEF TypeOK, PutCall
<1>2. ASSUME NEW w \in Writer, LookForReceipt(w) PROVE TypeOK'
  BY <1>a, <1>2 DEF TypeOK, LookForReceipt
<1>3. ASSUME NEW w \in Writer, Mkdir(w) PROVE TypeOK'
  <2>1. EmptyDir \in Dir
    BY DEF EmptyDir, Dir
  <2>2. QED BY <1>a, <1>b, <1>3, <2>1 DEF TypeOK, Mkdir
<1>4. ASSUME NEW w \in Writer, MkdirExists(w) PROVE TypeOK'
  BY <1>a, <1>4 DEF TypeOK, MkdirExists
<1>5. ASSUME NEW w \in Writer, WriteStaged(w) PROVE TypeOK'
  <2>1. rec[w] \in Record /\ id(w) \in Id /\ staging[id(w)] \in Dir
    BY <1>a, <1>b, <1>5 DEF TypeOK, WriteStaged
  <2>2. PICK f \in FileNames :
          /\ f \in bodies(rec[w]) \union {"receipt"}
          /\ staging' = [staging EXCEPT ![id(w)][f] = Content(rec[w], f)]
          /\ written' = [written EXCEPT ![w] = @ \union {f}]
          /\ pc' = [pc EXCEPT ![w] = IF f = "receipt" THEN "readback" ELSE "write"]
    BY <1>5 DEF WriteStaged
  <2>3. [staging[id(w)] EXCEPT ![f] = Content(rec[w], f)] \in Dir
    BY <2>1, <2>2, RecordParts DEF Dir
  <2>4. QED BY <1>a, <1>5, <2>1, <2>2, <2>3, ZenonT(120) DEF TypeOK, WriteStaged
<1>6. ASSUME NEW w \in Writer, ReadBack(w) PROVE TypeOK'
  BY <1>a, <1>6 DEF TypeOK, ReadBack
<1>7. ASSUME NEW w \in Writer, LookForInputs(w) PROVE TypeOK'
  BY <1>a, <1>7 DEF TypeOK, LookForInputs
<1>8. ASSUME NEW w \in Writer, LiftReceipt(w) PROVE TypeOK'
  <2>1. id(w) \in Id /\ staging[id(w)] \in Dir /\ "receipt" \in FileNames
    BY <1>a, <1>b, <1>8 DEF TypeOK, LiftReceipt, FileNames
  <2>2. [staging[id(w)] EXCEPT !["receipt"] = None] \in Dir /\ staging[id(w)]["receipt"] \in Bytes
    BY <1>8, <2>1 DEF Dir, LiftReceipt
  <2>3. QED BY <1>a, <1>8, <2>1, <2>2 DEF TypeOK, LiftReceipt
<1>9. ASSUME NEW w \in Writer, PlaceInputs(w) PROVE TypeOK'
  BY <1>a, <1>b, <1>9 DEF TypeOK, PlaceInputs
<1>10. ASSUME NEW w \in Writer, Commit(w) PROVE TypeOK'
  BY <1>a, <1>b, <1>10 DEF TypeOK, Commit
<1>11. ASSUME NEW w \in Writer, ScanRecords(w) PROVE TypeOK'
  BY <1>a, <1>11 DEF TypeOK, ScanRecords
<1>12. ASSUME NEW w \in Writer, PublishIndex(w) \/ RefreshFails(w) PROVE TypeOK'
  <2>1. CASE PublishIndex(w)
    BY <1>a, <2>1 DEF TypeOK, PublishIndex
  <2>2. CASE RefreshFails(w)
    BY <1>a, <2>2 DEF TypeOK, RefreshFails
  <2>3. QED BY <1>12, <2>1, <2>2
<1>13. ASSUME NEW w \in Writer, Reload(w) PROVE TypeOK'
  <2>1. PICK v \in Verdicts : Return(w, "reload", v)
    BY <1>13, Answers DEF Reload
  <2>2. QED BY <1>a, <1>13, <2>1 DEF TypeOK, Reload
<1>14. ASSUME NEW w \in Writer, IdempotentOrConflict(w) PROVE TypeOK'
  <2>1. CASE CompareStored(w) = "ok"
    BY <1>a, <1>14, <2>1 DEF TypeOK, IdempotentOrConflict
  <2>2. CASE CompareStored(w) # "ok"
    <3>1. PICK v \in Verdicts : Return(w, "compare", v)
      BY <1>14, <2>2, Answers DEF IdempotentOrConflict
    <3>2. QED BY <1>a, <1>14, <3>1 DEF TypeOK, IdempotentOrConflict
  <2>3. QED BY <2>1, <2>2
<1>15. ASSUME NEW w \in Writer, PutFails(w) PROVE TypeOK'
  BY <1>a, <1>15 DEF TypeOK, PutFails
<1>16. ASSUME NEW w \in Writer, KeepCall(w) PROVE TypeOK'
  BY <1>a, <1>16 DEF TypeOK, KeepCall
<1>17. ASSUME NEW w \in Writer, LookForAccount(w) PROVE TypeOK'
  BY <1>a, <1>17 DEF TypeOK, LookForAccount
<1>18. ASSUME NEW w \in Writer, PartialOpen(w) \/ PartialExists(w) PROVE TypeOK'
  <2>1. CASE PartialOpen(w)
    BY <1>a, <1>b, <2>1 DEF TypeOK, PartialOpen
  <2>2. CASE PartialExists(w)
    BY <1>a, <1>b, <2>2 DEF TypeOK, PartialExists
  <2>3. QED BY <1>18, <2>1, <2>2
<1>19. ASSUME NEW w \in Writer, PartialFill(w) PROVE TypeOK'
  <2>1. rec[w].receipt \in Bytes
    BY <1>b, <1>19, RecordParts DEF PartialFill
  <2>2. QED BY <1>a, <1>19, <2>1 DEF TypeOK, PartialFill
<1>20. ASSUME NEW w \in Writer, PartialReplace(w) PROVE TypeOK'
  BY <1>a, <1>b, <1>20 DEF TypeOK, PartialReplace
<1>21. ASSUME NEW w \in Writer, KeepReturn(w) \/ KeepFails(w) PROVE TypeOK'
  <2>1. CASE KeepReturn(w)
    BY <1>a, <1>b, <2>1 DEF TypeOK, KeepReturn
  <2>2. CASE KeepFails(w)
    BY <1>a, <1>b, <2>2 DEF TypeOK, KeepFails
  <2>3. QED BY <1>21, <2>1, <2>2
<1>22. ASSUME NEW w \in Writer, Interrupt(w) \/ Crash(w) PROVE TypeOK'
  <2>1. CASE Interrupt(w)
    BY <1>a, <1>b, <2>1 DEF TypeOK, Interrupt
  <2>2. CASE Crash(w)
    BY <1>a, <1>b, <2>2 DEF TypeOK, Crash
  <2>3. QED BY <1>22, <2>1, <2>2
<1>23. CASE UNCHANGED vars
  BY <1>a, <1>23 DEF TypeOK, vars
<1>24. QED
  BY <1>1, <1>2, <1>3, <1>4, <1>5, <1>6, <1>7, <1>8, <1>9, <1>10, <1>11, <1>12, <1>13, <1>14,
     <1>15, <1>16, <1>17, <1>18, <1>19, <1>20, <1>21, <1>22, <1>23
  DEF Next, put_record, preserve_unrecorded

\* A call that ends with anything but success, leaving the store as it is, keeps
\* the invariant.
LEMMA Ending ==
  ASSUME IInv, TypeOK', NEW w \in Writer, pc[w] \notin {"idle", "done"},
         NEW v \in Verdicts \ {"none", "stored"},
         pc' = [pc EXCEPT ![w] = "done"],
         verdict' = [verdict EXCEPT ![w] = v],
         UNCHANGED <<rec, written, listing, recordVars, index>>
  PROVE  IInv'
<1> USE DEF IInv, recordVars, id, TypeOK
<1>1. Called' /\ JudgedLast'
  BY DEF Called, JudgedLast
<1>2. StagingOwned' /\ WrittenSoFar' /\ StagedContent' /\ InputsFree' /\ LiftedOwn'
  BY DEF StagingOwned, WrittenSoFar, StagedContent, InputsFree, LiftedOwn, Staging
<1>3. ReadyToCommit' /\ StandsAfterCommit' /\ ScannedCommitted' /\ StagedIsSomewhere'
  BY DEF ReadyToCommit, StandsAfterCommit, ScannedCommitted, StagedIsSomewhere
<1>4. CommittedIsComplete' /\ SuccessIsDurable' /\ IndexNamesCommitted'
  BY DEF CommittedIsComplete, SuccessIsDurable, IndexNamesCommitted, committed, Holds, Stands, Stored
<1>5. QED BY <1>1, <1>2, <1>3, <1>4

\* A call that goes on to another step without a verdict.
LEMMA Moving ==
  ASSUME IInv, NEW w \in Writer, pc[w] \notin {"idle", "done"},
         NEW to \in PutSteps \union KeepSteps,
         pc' = [pc EXCEPT ![w] = to],
         \A v \in Writer : v # w => written'[v] = written[v],
         UNCHANGED <<verdict, rec>>
  PROVE  /\ Called' /\ JudgedLast'
         /\ \A v \in Writer : pc'[v] = IF v = w THEN to ELSE pc[v]
<1> USE DEF IInv
<1>1. to # "idle" /\ to # "done"
  BY DEF PutSteps, KeepSteps, Staging
<1>2. \A v \in Writer : pc'[v] = IF v = w THEN to ELSE pc[v]
  BY DEF TypeOK
<1>3. Called'
  BY <1>1, <1>2 DEF Called
<1>4. JudgedLast'
  BY <1>1, <1>2 DEF JudgedLast
<1>5. QED BY <1>2, <1>3, <1>4

\* What is committed stays so as long as no file of a committed record changes.
LEMMA Standing ==
  ASSUME IInv, rec' = rec, verdict' = verdict,
         \A i \in Id : receipts'[i] = receipts[i],
         \A i \in Id : receipts[i] # None => inputs'[i] = inputs[i]
  PROVE  CommittedIsComplete' /\ SuccessIsDurable'
<1> USE DEF IInv, id, committed, Holds
<1>1. CommittedIsComplete'
  BY DEF CommittedIsComplete
<1>2. ASSUME NEW w \in Writer, verdict[w] = "stored"
      PROVE  Stands(rec[w])' /\ (Stored(id(w)) \in Whole)'
  <2>1. rec[w] \in Record /\ rec[w].id \in Id
    BY <1>2, RecordParts DEF Called, JudgedLast
  <2>2. receipts[rec[w].id] # None
    BY <1>2, <2>1, StandsOn DEF SuccessIsDurable
  <2>3. QED BY <1>2, <2>1, <2>2 DEF SuccessIsDurable, Stands, Stored
<1>3. QED BY <1>1, <1>2 DEF SuccessIsDurable

\* The steps of preserve_unrecorded touch nothing the invariant speaks of.
LEMMA KeepStep ==
  ASSUME IInv, TypeOK', NEW w \in Writer, pc[w] \in KeepSteps,
         NEW to \in KeepSteps, pc' = [pc EXCEPT ![w] = to],
         UNCHANGED <<verdict, rec, written, listing, recordVars, index>>
  PROVE  IInv'
<1> USE DEF IInv, recordVars, id, TypeOK, KeepSteps
<1>1. Called' /\ JudgedLast' /\ CommittedIsComplete' /\ SuccessIsDurable'
  BY Moving, Standing
<1>2. StagingOwned' /\ WrittenSoFar' /\ StagedContent' /\ InputsFree' /\ LiftedOwn'
  BY DEF StagingOwned, WrittenSoFar, StagedContent, InputsFree, LiftedOwn, Staging
<1>3. ReadyToCommit' /\ StandsAfterCommit' /\ ScannedCommitted' /\ StagedIsSomewhere'
  BY DEF ReadyToCommit, StandsAfterCommit, ScannedCommitted, StagedIsSomewhere
<1>4. IndexNamesCommitted'
  BY DEF IndexNamesCommitted, committed
<1>5. QED BY <1>1, <1>2, <1>3, <1>4

\* A call begins, or is refused before it touches the store.
LEMMA BeginStep ==
  ASSUME IInv, TypeOK', NEW w \in Writer, pc[w] = "idle", NEW r \in Record,
         rec' = [rec EXCEPT ![w] = r],
         \/ \E to \in {"exists", "look"} : pc' = [pc EXCEPT ![w] = to] /\ verdict' = verdict
         \/ Refuse(w, "record_conflict"),
         UNCHANGED <<written, listing, recordVars, index>>
  PROVE  IInv'
<1> USE DEF IInv, recordVars
<1>1. /\ \A v \in Writer : v # w => pc'[v] = pc[v] /\ rec'[v] = rec[v] /\ verdict'[v] = verdict[v]
      /\ rec'[w] = r
      /\ \/ pc'[w] \in {"exists", "look"} /\ verdict'[w] = "none"
         \/ pc'[w] = "done" /\ verdict'[w] = "record_conflict"
      /\ rec[w] = None /\ written[w] = {}
  BY DEF TypeOK, Called
<1>2. Called' /\ JudgedLast'
  BY <1>1 DEF Called, JudgedLast
<1>3. StagingOwned' /\ StagedContent'
  BY <1>1 DEF StagingOwned, StagedContent, Staging, id
<1>4. WrittenSoFar'
  BY <1>1 DEF WrittenSoFar
<1>5. InputsFree' /\ LiftedOwn' /\ ScannedCommitted'
  BY <1>1 DEF InputsFree, LiftedOwn, ScannedCommitted, id
<1>10. ReadyToCommit'
  BY <1>1 DEF ReadyToCommit, id
<1>11. StandsAfterCommit'
  BY <1>1 DEF StandsAfterCommit, id
<1>6. StagedIsSomewhere' /\ IndexNamesCommitted'
  BY <1>1 DEF StagedIsSomewhere, IndexNamesCommitted, committed, id
<1>7. CommittedIsComplete'
  BY <1>1 DEF CommittedIsComplete, committed, Holds, id
<1>8. SuccessIsDurable'
  BY <1>1 DEF SuccessIsDurable, Stands, Stored, id
<1>9. QED BY <1>2, <1>3, <1>4, <1>5, <1>6, <1>7, <1>8, <1>10, <1>11

\* A step that changes no file of a record: what is left to show is what the
\* invariant says of the step it enters.
LEMMA LookStep ==
  ASSUME IInv, NEW w \in Writer, pc[w] \notin {"idle", "done"},
         NEW to \in PutSteps \ {"write", "place", "commit"},
         pc' = [pc EXCEPT ![w] = to],
         UNCHANGED <<verdict, rec, written, recordVars>>,
         to \in {"exists", "mkdir"} => written[w] = {},
         to \in Staging => pc[w] \in {"readback", "inputs", "lift"},
         to = "lift" => inputs[id(w)] = None,
         to \in {"scan", "publish", "reload"} =>
            /\ receipts[id(w)] = rec[w].receipt
            /\ inputs[id(w)] # None
            /\ \A f \in bodies(rec[w]) : inputs[id(w)][f] = Content(rec[w], f),
         TypeOK', ScannedCommitted', IndexNamesCommitted'
  PROVE  IInv'
<1> USE DEF IInv, recordVars
<1>1. /\ Called' /\ JudgedLast'
      /\ \A v \in Writer : pc'[v] = IF v = w THEN to ELSE pc[v]
  BY Moving, ZenonT(120)
<1>2. CommittedIsComplete' /\ SuccessIsDurable'
  BY Standing
<1>3. StagingOwned'
  BY <1>1 DEF StagingOwned, Staging, id
<1>4. WrittenSoFar'
  BY <1>1 DEF WrittenSoFar, Staging
<1>5. StagedContent'
  BY <1>1 DEF StagedContent, Staging, id
<1>6. InputsFree'
  BY <1>1 DEF InputsFree, id
<1>7. LiftedOwn'
  BY <1>1 DEF LiftedOwn, id
<1>8. ReadyToCommit'
  BY <1>1 DEF ReadyToCommit, id
<1>9. StandsAfterCommit'
  BY <1>1 DEF StandsAfterCommit, id
<1>10. StagedIsSomewhere'
  BY DEF StagedIsSomewhere, id
<1>11. QED BY <1>1, <1>2, <1>3, <1>4, <1>5, <1>6, <1>7, <1>8, <1>9, <1>10

\* What the exclusive mkdir gives: nobody else works under that name.
LEMMA MkdirStep ==
  ASSUME IInv, TypeOK', NEW w \in Writer, Mkdir(w)
  PROVE  IInv'
<1> USE DEF IInv, recordVars
<1>a. rec[w] \in Record /\ id(w) \in Id /\ EmptyDir \in Dir /\ EmptyDir # None
  BY CalledParts, StoreAssumption DEF Mkdir, EmptyDir, Dir
<1>b. UNCHANGED <<verdict, rec, written, listing, receipts, inputs, lifted, index>>
  BY DEF Mkdir
<1>1. /\ Called' /\ JudgedLast'
      /\ \A v \in Writer : pc'[v] = IF v = w THEN "write" ELSE pc[v]
  BY <1>b, Moving DEF Mkdir, PutSteps, Staging
<1>2. CommittedIsComplete' /\ SuccessIsDurable'
  BY <1>b, Standing
<1>3. /\ staging[id(w)] = None /\ pc[w] = "mkdir"
      /\ \A i \in Id : staging'[i] = IF i = id(w) THEN EmptyDir ELSE staging[i]
  BY <1>a DEF Mkdir, TypeOK
<1>4. /\ \A v \in Writer : pc[v] \in Staging => id(v) # id(w)
      /\ \A v \in Writer : pc[v] \in Staging => id(v) \in Id
  BY <1>3, CalledParts DEF StagingOwned, Staging
<1>5. StagingOwned'
  BY <1>a, <1>b, <1>1, <1>3, <1>4 DEF StagingOwned, id
<1>6. WrittenSoFar'
  BY <1>b, <1>1, <1>3 DEF WrittenSoFar
<1>7. StagedContent'
  <2>1. written[w] = {} /\ \A f \in FileNames : EmptyDir[f] = None
    BY <1>3 DEF WrittenSoFar, EmptyDir
  <2>2. QED BY <1>a, <1>b, <1>1, <1>3, <1>4, <2>1 DEF StagedContent, id
<1>8. InputsFree' /\ LiftedOwn'
  BY <1>b, <1>1 DEF InputsFree, LiftedOwn, id
<1>9. ReadyToCommit'
  BY <1>b, <1>1 DEF ReadyToCommit, id
<1>10. StandsAfterCommit'
  BY <1>b, <1>1 DEF StandsAfterCommit, id
<1>11. ScannedCommitted' /\ IndexNamesCommitted'
  BY <1>b, <1>1 DEF ScannedCommitted, IndexNamesCommitted, committed
<1>12. StagedIsSomewhere'
  <2>1. \A v \in Writer : written[v] # {} => id(v) \in Id
    BY CalledParts DEF Called
  <2>2. QED BY <1>a, <1>b, <1>3, <2>1 DEF StagedIsSomewhere, id
<1>13. QED BY <1>1, <1>2, <1>5, <1>6, <1>7, <1>8, <1>9, <1>10, <1>11, <1>12

\* One file is written in the caller's own staging directory.
LEMMA WriteStep ==
  ASSUME IInv, TypeOK', NEW w \in Writer, WriteStaged(w)
  PROVE  IInv'
<1> USE DEF IInv, recordVars
<1>a. rec[w] \in Record /\ id(w) \in Id /\ pc[w] = "write" /\ staging[id(w)] \in Dir
  BY CalledParts DEF WriteStaged, TypeOK
<1>b. UNCHANGED <<verdict, rec, listing, receipts, inputs, lifted, index>>
  BY DEF WriteStaged
<1>c. PICK f \in FileNames :
        /\ f \in IF bodies(rec[w]) \subseteq written[w] THEN {"receipt"}
                 ELSE bodies(rec[w]) \ written[w]
        /\ staging' = [staging EXCEPT ![id(w)][f] = Content(rec[w], f)]
        /\ written' = [written EXCEPT ![w] = @ \union {f}]
        /\ pc' = [pc EXCEPT ![w] = IF f = "receipt" THEN "readback" ELSE "write"]
  BY DEF WriteStaged
<1>d. PICK to \in {"write", "readback"} :
        /\ to = IF f = "receipt" THEN "readback" ELSE "write"
        /\ pc' = [pc EXCEPT ![w] = to]
  BY <1>c
<1>e. /\ \A v \in Writer : written'[v] = IF v = w THEN written[w] \union {f} ELSE written[v]
      /\ \A i \in Id : i # id(w) => staging'[i] = staging[i]
      /\ \A g \in FileNames :
           staging'[id(w)][g] = IF g = f THEN Content(rec[w], f) ELSE staging[id(w)][g]
      /\ staging'[id(w)] \in Dir /\ staging'[id(w)] # None
  <2>1. staging'[id(w)] = [staging[id(w)] EXCEPT ![f] = Content(rec[w], f)]
    BY <1>a, <1>c DEF TypeOK
  <2>2. /\ staging'[id(w)] \in Dir
        /\ \A g \in FileNames :
             staging'[id(w)][g] = IF g = f THEN Content(rec[w], f) ELSE staging[id(w)][g]
    BY <1>a, <1>c, <2>1, RecordParts DEF Dir
  <2>3. QED BY <1>a, <1>c, <2>2, StoreAssumption DEF TypeOK, Dir
<1>1. Called' /\ JudgedLast' /\ \A v \in Writer : pc'[v] = IF v = w THEN to ELSE pc[v]
  <2>1. to \in PutSteps \union KeepSteps
    BY DEF PutSteps, Staging
  <2>2. \A v \in Writer : v # w => written'[v] = written[v]
    BY <1>e
  <2>3. pc' = [pc EXCEPT ![w] = to] /\ pc[w] \notin {"idle", "done"} /\ UNCHANGED <<verdict, rec>>
    BY <1>a, <1>b, <1>d
  <2>4. QED BY <2>1, <2>2, <2>3, Moving
<1>2. CommittedIsComplete' /\ SuccessIsDurable'
  BY <1>b, Standing
<1>3. /\ \A v \in Writer : pc[v] \in Staging /\ v # w => id(v) # id(w)
      /\ \A v \in Writer : pc[v] \in Staging => id(v) \in Id
  BY <1>a, CalledParts DEF StagingOwned, Staging
<1>4. StagingOwned'
  BY <1>a, <1>b, <1>d, <1>e, <1>1, <1>3 DEF StagingOwned, id, Staging
<1>5. WrittenSoFar'
  <2>1. written[w] \subseteq bodies(rec[w]) /\ "receipt" \notin bodies(rec[w])
    BY <1>a, RecordParts DEF WrittenSoFar
  <2>2. /\ to = "write" => written'[w] \subseteq bodies(rec[w])
        /\ to = "readback" => written'[w] = bodies(rec[w]) \union {"receipt"}
    BY <1>c, <1>d, <1>e, <2>1
  <2>3. QED BY <1>b, <1>d, <1>e, <1>1, <2>2 DEF WrittenSoFar
<1>6. StagedContent'
  BY <1>a, <1>b, <1>d, <1>e, <1>1, <1>3 DEF StagedContent, id, Staging
<1>7. InputsFree' /\ LiftedOwn'
  BY <1>b, <1>d, <1>1 DEF InputsFree, LiftedOwn, id
<1>8. ReadyToCommit'
  BY <1>b, <1>d, <1>1 DEF ReadyToCommit, id
<1>9. StandsAfterCommit'
  BY <1>b, <1>d, <1>1 DEF StandsAfterCommit, id
<1>10. ScannedCommitted' /\ IndexNamesCommitted'
  BY <1>b, <1>d, <1>1 DEF ScannedCommitted, IndexNamesCommitted, committed
<1>11. StagedIsSomewhere'
  <2>1. \A v \in Writer : written[v] # {} => id(v) \in Id
    BY CalledParts DEF Called
  <2>2. QED BY <1>a, <1>b, <1>e, <2>1 DEF StagedIsSomewhere, id
<1>12. QED BY <1>1, <1>2, <1>4, <1>5, <1>6, <1>7, <1>8, <1>9, <1>10, <1>11

\* The staged receipt leaves the staging directory.
LEMMA LiftStep ==
  ASSUME IInv, TypeOK', NEW w \in Writer, LiftReceipt(w)
  PROVE  IInv'
<1> USE DEF IInv, recordVars
<1>a. rec[w] \in Record /\ id(w) \in Id /\ pc[w] = "lift" /\ staging[id(w)] \in Dir
  BY CalledParts DEF LiftReceipt, TypeOK
<1>b. UNCHANGED <<verdict, rec, written, listing, receipts, inputs, index>>
  BY DEF LiftReceipt
<1>c. /\ inputs[id(w)] = None
      /\ written[w] = bodies(rec[w]) \union {"receipt"}
      /\ "receipt" \in FileNames
      /\ staging[id(w)]["receipt"] = rec[w].receipt
  BY <1>a DEF InputsFree, WrittenSoFar, StagedContent, Staging, FileNames, Content
<1>d. /\ \A i \in Id : i # id(w) => staging'[i] = staging[i] /\ lifted'[i] = lifted[i]
      /\ \A g \in FileNames :
           staging'[id(w)][g] = IF g = "receipt" THEN None ELSE staging[id(w)][g]
      /\ staging'[id(w)] # None
      /\ lifted'[id(w)] = rec[w].receipt
  <2>1. staging'[id(w)] = [staging[id(w)] EXCEPT !["receipt"] = None]
    BY <1>a DEF LiftReceipt, TypeOK
  <2>2. /\ staging'[id(w)] \in Dir
        /\ \A g \in FileNames :
             staging'[id(w)][g] = IF g = "receipt" THEN None ELSE staging[id(w)][g]
    BY <1>a, <1>c, <2>1 DEF Dir
  <2>3. QED BY <1>a, <1>c, <2>2, StoreAssumption DEF LiftReceipt, TypeOK, Dir
<1>1. Called' /\ JudgedLast' /\ \A v \in Writer : pc'[v] = IF v = w THEN "place" ELSE pc[v]
  BY <1>a, <1>b, Moving DEF LiftReceipt, PutSteps, Staging
<1>2. CommittedIsComplete' /\ SuccessIsDurable'
  BY <1>b, Standing
<1>3. /\ \A v \in Writer : pc[v] \in Staging /\ v # w => id(v) # id(w)
      /\ \A v \in Writer : pc[v] \in Staging \union {"commit"} => id(v) \in Id
  BY <1>a, CalledParts DEF StagingOwned, Staging
<1>4. \A v \in Writer : pc[v] = "commit" => id(v) # id(w)
  BY <1>c, CalledParts, RecordParts DEF ReadyToCommit
<1>5. StagingOwned'
  BY <1>a, <1>b, <1>d, <1>1, <1>3 DEF StagingOwned, id, Staging
<1>6. WrittenSoFar'
  BY <1>a, <1>b, <1>1 DEF WrittenSoFar
<1>7. StagedContent'
  BY <1>a, <1>b, <1>c, <1>d, <1>1, <1>3 DEF StagedContent, id, Staging
<1>8. InputsFree'
  BY <1>a, <1>b, <1>c, <1>1 DEF InputsFree, id
<1>9. LiftedOwn'
  BY <1>a, <1>b, <1>d, <1>1, <1>3, <1>4 DEF LiftedOwn, id, Staging
<1>10. ReadyToCommit'
  BY <1>b, <1>1 DEF ReadyToCommit, id
<1>11. StandsAfterCommit'
  BY <1>b, <1>1 DEF StandsAfterCommit, id
<1>12. ScannedCommitted' /\ IndexNamesCommitted'
  BY <1>b, <1>1 DEF ScannedCommitted, IndexNamesCommitted, committed
<1>13. StagedIsSomewhere'
  <2>1. \A v \in Writer : written[v] # {} => id(v) \in Id
    BY CalledParts DEF Called
  <2>2. QED BY <1>a, <1>b, <1>d, <2>1 DEF StagedIsSomewhere, id
<1>14. QED BY <1>1, <1>2, <1>5, <1>6, <1>7, <1>8, <1>9, <1>10, <1>11, <1>12, <1>13

\* The staging directory, by now the bodies and nothing else, becomes the inputs
\* directory of an id that has none.
LEMMA PlaceStep ==
  ASSUME IInv, TypeOK', NEW w \in Writer, PlaceInputs(w)
  PROVE  IInv'
<1> USE DEF IInv, recordVars
<1>a. rec[w] \in Record /\ id(w) \in Id /\ pc[w] = "place" /\ staging[id(w)] \in Dir
  BY CalledParts DEF PlaceInputs, TypeOK
<1>b. UNCHANGED <<verdict, rec, written, listing, receipts, lifted, index>>
  BY DEF PlaceInputs
<1>c. staging[id(w)] = InputsOf(rec[w]) /\ InputsOf(rec[w]) # None
  <2>1. written[w] = bodies(rec[w]) \union {"receipt"} /\ "receipt" \notin bodies(rec[w])
    BY <1>a, RecordParts DEF WrittenSoFar
  <2>2. \A f \in FileNames :
          staging[id(w)][f] = IF f \in bodies(rec[w]) THEN Content(rec[w], f) ELSE None
    BY <1>a, <2>1 DEF StagedContent, Staging, Content
  <2>3. QED BY <1>a, <2>2, RecordParts DEF InputsOf, Dir
<1>d. /\ \A i \in Id : inputs'[i] = IF i = id(w) THEN InputsOf(rec[w]) ELSE inputs[i]
      /\ \A i \in Id : staging'[i] = IF i = id(w) THEN None ELSE staging[i]
  BY <1>a, <1>c DEF PlaceInputs, TypeOK
<1>e. inputs[id(w)] = None /\ receipts[id(w)] = None /\ lifted[id(w)] = rec[w].receipt
  <2>1. inputs[id(w)] = None /\ lifted[id(w)] = rec[w].receipt
    BY <1>a DEF InputsFree, LiftedOwn
  <2>2. ASSUME receipts[id(w)] # None PROVE FALSE
    <3>1. PICK v \in Writer : rec[v] # None /\ id(v) = id(w) /\ Holds(rec[v])
      BY <1>a, <2>2 DEF CommittedIsComplete, committed
    <3>2. rec[v] \in Record
      BY <3>1 DEF Called
    <3>3. QED BY <2>1, <3>1, <3>2, RecordParts DEF Holds, id
  <2>3. QED BY <2>1, <2>2
<1>1. Called' /\ JudgedLast' /\ \A v \in Writer : pc'[v] = IF v = w THEN "commit" ELSE pc[v]
  BY <1>a, <1>b, Moving DEF PlaceInputs, PutSteps, Staging
<1>2. CommittedIsComplete' /\ SuccessIsDurable'
  BY <1>b, <1>d, <1>e, Standing
<1>3. /\ \A v \in Writer : pc[v] \in Staging /\ v # w => id(v) # id(w)
      /\ \A v \in Writer : pc[v] # "idle" => id(v) \in Id
  BY <1>a, CalledParts DEF StagingOwned, Staging
<1>4. \A v \in Writer : pc[v] \in {"commit", "scan", "publish", "reload"} => id(v) # id(w)
  BY <1>e, CalledParts, RecordParts DEF ReadyToCommit, StandsAfterCommit
<1>5. StagingOwned' /\ StagedContent'
  BY <1>a, <1>b, <1>d, <1>1, <1>3 DEF StagingOwned, StagedContent, id, Staging
<1>6. WrittenSoFar'
  BY <1>b, <1>1 DEF WrittenSoFar
<1>7. InputsFree'
  BY <1>b, <1>d, <1>1, <1>3 DEF InputsFree, id, Staging
<1>8. LiftedOwn'
  BY <1>a, <1>b, <1>e, <1>1 DEF LiftedOwn, id
<1>9. ReadyToCommit'
  BY <1>a, <1>b, <1>d, <1>e, <1>1, <1>3, <1>4 DEF ReadyToCommit, id
<1>10. StandsAfterCommit'
  BY <1>b, <1>d, <1>1, <1>3, <1>4 DEF StandsAfterCommit, id
<1>11. ScannedCommitted' /\ IndexNamesCommitted'
  BY <1>b, <1>1 DEF ScannedCommitted, IndexNamesCommitted, committed
<1>12. StagedIsSomewhere'
  <2>1. \A v \in Writer : written[v] # {} => id(v) \in Id
    BY CalledParts DEF Called
  <2>2. QED BY <1>b, <1>c, <1>d, <2>1 DEF StagedIsSomewhere, id
<1>13. QED BY <1>1, <1>2, <1>5, <1>6, <1>7, <1>8, <1>9, <1>10, <1>11, <1>12

\* The commit point: the receipt file appears above its own, complete bodies.
LEMMA CommitStep ==
  ASSUME IInv, TypeOK', NEW w \in Writer, Commit(w)
  PROVE  IInv'
<1> USE DEF IInv, recordVars
<1>a. /\ rec[w] \in Record /\ id(w) \in Id /\ pc[w] = "commit"
      /\ rec[w].receipt # None /\ InputsOf(rec[w]) # None
  BY CalledParts, RecordParts, StoreAssumption DEF Commit
<1>b. UNCHANGED <<verdict, rec, written, listing, inputs, staging, index>>
  BY DEF Commit
<1>c. /\ inputs[id(w)] = InputsOf(rec[w]) /\ receipts[id(w)] = None
      /\ lifted[id(w)] = rec[w].receipt
      /\ \A v \in Writer : pc[v] = "commit" /\ id(v) = id(w) => v = w
  BY <1>a DEF ReadyToCommit, LiftedOwn
<1>d. /\ \A i \in Id : receipts'[i] = IF i = id(w) THEN rec[w].receipt ELSE receipts[i]
      /\ \A i \in Id : i # id(w) => lifted'[i] = lifted[i]
  BY <1>a, <1>c DEF Commit, TypeOK
<1>e. /\ \A v \in Writer : pc[v] # "idle" => rec[v] \in Record /\ id(v) \in Id
      /\ \A v \in Writer : pc[v] # "idle" => rec[v].receipt # None
  BY CalledParts, RecordParts, StoreAssumption
<1>1. Called' /\ JudgedLast' /\ \A v \in Writer : pc'[v] = IF v = w THEN "scan" ELSE pc[v]
  BY <1>a, <1>b, Moving DEF Commit, PutSteps, Staging
<1>2. CommittedIsComplete'
  <2>1. Holds(rec[w])'
    BY <1>a, <1>b, <1>c, <1>d DEF Holds, id
  <2>2. ASSUME NEW v \in Writer, rec[v] # None, receipts[id(v)] # None, Holds(rec[v])
        PROVE  Holds(rec[v])'
    BY <1>b, <1>c, <1>d, <1>e, <2>2 DEF Holds, id, Called
  <2>3. ASSUME NEW i \in Id, receipts'[i] # None
        PROVE  \E v \in Writer : rec[v] # None /\ id(v) = i /\ Holds(rec[v])'
    <3>1. CASE i = id(w)
      BY <1>a, <2>1, <3>1, StoreAssumption
    <3>2. CASE i # id(w)
      BY <1>d, <2>2, <2>3, <3>2 DEF CommittedIsComplete, committed
    <3>3. QED BY <3>1, <3>2
  <2>4. QED BY <1>b, <2>3 DEF CommittedIsComplete, committed, id, Holds
<1>3. SuccessIsDurable'
  <2>1. ASSUME NEW v \in Writer, verdict[v] = "stored" PROVE id(v) \in Id /\ id(v) # id(w)
    BY <1>c, <1>e, <2>1, StandsOn DEF SuccessIsDurable, JudgedLast, id
  <2>2. QED BY <1>b, <1>d, <2>1 DEF SuccessIsDurable, Stands, Stored, id
<1>4. StagingOwned' /\ WrittenSoFar' /\ StagedContent'
  BY <1>b, <1>1 DEF StagingOwned, WrittenSoFar, StagedContent, id, Staging
<1>5. InputsFree' /\ StagedIsSomewhere'
  BY <1>b, <1>1 DEF InputsFree, StagedIsSomewhere, id
<1>6. LiftedOwn'
  <2>1. \A v \in Writer : pc[v] \in {"place", "commit"} /\ v # w => id(v) # id(w)
    BY <1>a, <1>c DEF InputsFree
  <2>2. QED BY <1>b, <1>d, <1>e, <1>1, <2>1 DEF LiftedOwn, id
<1>7. ReadyToCommit'
  BY <1>b, <1>c, <1>d, <1>e, <1>1 DEF ReadyToCommit, id
<1>8. StandsAfterCommit'
  <2>1. inputs[id(w)] # None /\ \A f \in bodies(rec[w]) : inputs[id(w)][f] = Content(rec[w], f)
    BY <1>a, <1>c, RecordParts DEF InputsOf, FileNames
  <2>2. \A v \in Writer : pc[v] \in {"scan", "publish", "reload"} => id(v) # id(w)
    BY <1>c, <1>e DEF StandsAfterCommit
  <2>3. QED BY <1>a, <1>b, <1>c, <1>d, <1>e, <1>1, <2>1, <2>2 DEF StandsAfterCommit, id
<1>9. ScannedCommitted' /\ IndexNamesCommitted'
  BY <1>a, <1>b, <1>d, <1>1 DEF ScannedCommitted, IndexNamesCommitted, committed, TypeOK
<1>10. QED BY <1>1, <1>2, <1>3, <1>4, <1>5, <1>6, <1>7, <1>8, <1>9

\* A comparison that finds no difference has found every artifact handed in.
LEMMA Compares ==
  ASSUME NEW w \in Writer, CompareStored(w) = "ok",
         bodies(rec[w]) # {}, bodies(rec[w]) \subseteq BodyNames,
         \A f \in bodies(rec[w]) : Content(rec[w], f) # None
  PROVE  /\ receipts[id(w)] = rec[w].receipt /\ receipts[id(w)] \notin Large
         /\ inputs[id(w)] # None
         /\ \A f \in bodies(rec[w]) : inputs[id(w)][f] = Content(rec[w], f)
<1>1. /\ receipts[id(w)] = rec[w].receipt /\ receipts[id(w)] \notin Large
      /\ FirstRefusal([f \in BodyNames |-> Compared(w, f)]) = "ok"
  BY DEF CompareStored
<1>2. \A f \in BodyNames : Compared(w, f) = "ok"
  BY <1>1 DEF FirstRefusal, BodyNames
<1>3. QED BY <1>1, <1>2 DEF Compared

\* What get_record accepts can be loaded.
LEMMA LoadedIsWhole ==
  ASSUME TypeOK, NEW i \in Id, get_record(i) = "ok"
  PROVE  Stored(i) \in Whole
<1>1. /\ receipts[i] # None /\ receipts[i] \notin Large /\ inputs[i] # None
      /\ receipts[i] \in Bytes /\ inputs[i] \in Dir
      /\ FirstRefusal([f \in BodyNames |-> Loaded(i, f)]) = "ok"
  BY DEF get_record, TypeOK
<1>2. \A f \in BodyNames : Loaded(i, f) = "ok"
  BY <1>1 DEF FirstRefusal, BodyNames
<1>3. \A f \in BodyNames :
        /\ inputs[i][f] \in Bytes \union {None}
        /\ inputs[i][f] # None <=> f \in required(receipts[i])
        /\ inputs[i][f] # None => inputs[i][f] \notin Large
  BY <1>1, <1>2 DEF Loaded, Dir, FileNames
<1>4. /\ Stored(i)["receipt"] = receipts[i]
      /\ \A f \in BodyNames : Stored(i)[f] = inputs[i][f]
      /\ \A f \in FileNames : f = "receipt" \/ f \in BodyNames
  BY <1>1, StoredParts DEF FileNames
<1>5. \A f \in FileNames : Stored(i)[f] \in (Bytes \ Large) \union {None}
  BY <1>1, <1>3, <1>4
<1>6. Stored(i) \in [FileNames -> (Bytes \ Large) \union {None}]
  BY <1>5 DEF Stored
<1>7. QED BY <1>1, <1>3, <1>4, <1>6 DEF Whole

\* The artifacts a call past its commit or its comparison handed in stand.
LEMMA HandedIn ==
  ASSUME NEW r \in Record, receipts[r.id] = r.receipt, inputs[r.id] # None,
         \A f \in bodies(r) : inputs[r.id][f] = Content(r, f)
  PROVE  Stands(r)
<1>1. \A f \in bodies(r) : f \in BodyNames
  BY RecordParts
<1>2. \A f \in FileNames : Artifacts(r)[f] # None => f = "receipt" \/ f \in bodies(r)
  BY DEF Artifacts
<1>3. Artifacts(r)["receipt"] = r.receipt /\ \A f \in bodies(r) : Artifacts(r)[f] = Content(r, f)
  BY <1>1, StoredParts DEF Artifacts, Content
<1>4. QED BY <1>1, <1>2, <1>3, StoredParts DEF Stands

\* The reload that ends put_record: success means that what was handed in stands
\* in a record that loads.
LEMMA ReloadStep ==
  ASSUME IInv, TypeOK', NEW w \in Writer, Reload(w), get_record(id(w)) = "ok"
  PROVE  IInv'
<1> USE DEF IInv, recordVars
<1>a. /\ rec[w] \in Record /\ id(w) \in Id /\ pc[w] = "reload"
      /\ rec[w].receipt # None
  BY CalledParts, RecordParts, StoreAssumption DEF Reload
<1>b. UNCHANGED <<rec, written, listing, receipts, inputs, staging, lifted, index>>
  BY DEF Reload
<1>c. /\ \A v \in Writer : pc'[v] = IF v = w THEN "done" ELSE pc[v]
      /\ \A v \in Writer : verdict'[v] = IF v = w THEN "stored" ELSE verdict[v]
  BY DEF Reload, TypeOK
<1>1. Stands(rec[w]) /\ Stored(id(w)) \in Whole
  BY <1>a, LoadedIsWhole, HandedIn DEF StandsAfterCommit, id
<1>2. Called' /\ JudgedLast'
  BY <1>a, <1>b, <1>c DEF Called, JudgedLast
<1>3. StagingOwned' /\ WrittenSoFar' /\ StagedContent' /\ InputsFree' /\ LiftedOwn'
  BY <1>b, <1>c
  DEF StagingOwned, WrittenSoFar, StagedContent, InputsFree, LiftedOwn, Staging, id
<1>4. ReadyToCommit'
  BY <1>b, <1>c DEF ReadyToCommit, id
<1>5. StandsAfterCommit'
  BY <1>b, <1>c DEF StandsAfterCommit, id
<1>6. ScannedCommitted' /\ StagedIsSomewhere' /\ IndexNamesCommitted'
  BY <1>b, <1>c DEF ScannedCommitted, StagedIsSomewhere, IndexNamesCommitted, committed, id
<1>7. CommittedIsComplete'
  BY <1>b DEF CommittedIsComplete, committed, Holds, id
<1>8. SuccessIsDurable'
  BY <1>b, <1>c, <1>1 DEF SuccessIsDurable, Stands, Stored, id
<1>9. QED BY <1>2, <1>3, <1>4, <1>5, <1>6, <1>7, <1>8

\* Every step of every call keeps the invariant.
LEMMA IInvStep == IInv /\ [Next]_vars => IInv'
<1> SUFFICES ASSUME IInv, [Next]_vars PROVE IInv'
  OBVIOUS
<1> USE DEF recordVars, keepVars
<1>a. TypeOK'
  BY TypeStep
<1>b. TypeOK /\ Called /\ WrittenSoFar /\ StandsAfterCommit /\ ScannedCommitted /\ IndexNamesCommitted
  BY DEF IInv
<1>c. ASSUME UNCHANGED <<receipts, index>>, listing' = listing, NEW w \in Writer, NEW to,
             pc' = [pc EXCEPT ![w] = to], to # "publish"
      PROVE  ScannedCommitted' /\ IndexNamesCommitted'
  BY <1>b, <1>c DEF TypeOK, ScannedCommitted, IndexNamesCommitted, committed
<1>1. ASSUME NEW w \in Writer, PutCall(w) PROVE IInv'
  <2>1. PICK r \in Record :
          /\ rec' = [rec EXCEPT ![w] = r]
          /\ \/ pc' = [pc EXCEPT ![w] = "exists"] /\ verdict' = verdict
             \/ Refuse(w, "record_conflict")
    BY <1>1 DEF PutCall
  <2>2. pc[w] = "idle" /\ UNCHANGED <<written, listing, recordVars, index>>
    BY <1>1 DEF PutCall
  <2>3. QED BY <1>a, <2>1, <2>2, BeginStep
<1>2. ASSUME NEW w \in Writer, KeepCall(w) PROVE IInv'
  BY <1>a, <1>2, BeginStep DEF KeepCall
<1>3. ASSUME NEW w \in Writer, LookForReceipt(w) PROVE IInv'
  <2>1. PICK to \in {"compare", "mkdir"} : pc' = [pc EXCEPT ![w] = to]
    BY <1>3 DEF LookForReceipt
  <2>2. to \in PutSteps \ {"write", "place", "commit"} /\ to \notin Staging
    BY DEF PutSteps, Staging
  <2>3. pc[w] = "exists" /\ written[w] = {}
    BY <1>b, <1>3 DEF LookForReceipt, WrittenSoFar
  <2>4. QED BY <1>a, <1>c, <1>3, <2>1, <2>2, <2>3, LookStep DEF LookForReceipt
<1>4. ASSUME NEW w \in Writer, Mkdir(w) PROVE IInv'
  BY <1>a, <1>4, MkdirStep
<1>5. ASSUME NEW w \in Writer, WriteStaged(w) PROVE IInv'
  BY <1>a, <1>5, WriteStep
<1>6. ASSUME NEW w \in Writer, ReadBack(w) PROVE IInv'
  <2>1. CASE Goto(w, "readback", "inputs") /\ UNCHANGED verdict
    <3>1. "inputs" \in PutSteps \ {"write", "place", "commit"}
      BY DEF PutSteps, Staging
    <3>2. QED BY <1>a, <1>c, <1>6, <2>1, <3>1, LookStep DEF ReadBack
  <2>2. CASE Return(w, "readback", "commit_conflict")
    BY <1>a, <1>6, <2>2, Ending DEF ReadBack, Verdicts
  <2>3. QED BY <1>6, <2>1, <2>2 DEF ReadBack
<1>7. ASSUME NEW w \in Writer, LookForInputs(w) PROVE IInv'
  <2>1. CASE inputs[id(w)] = None
    <3>1. "lift" \in PutSteps \ {"write", "place", "commit"}
      BY DEF PutSteps, Staging
    <3>2. QED BY <1>a, <1>c, <1>7, <2>1, <3>1, LookStep DEF LookForInputs
  <2>2. CASE inputs[id(w)] # None
    BY <1>a, <1>7, <2>2, Ending DEF LookForInputs, Verdicts
  <2>3. QED BY <2>1, <2>2
<1>8. ASSUME NEW w \in Writer, LiftReceipt(w) PROVE IInv'
  BY <1>a, <1>8, LiftStep
<1>9. ASSUME NEW w \in Writer, PlaceInputs(w) PROVE IInv'
  BY <1>a, <1>9, PlaceStep
<1>10. ASSUME NEW w \in Writer, Commit(w) PROVE IInv'
  BY <1>a, <1>10, CommitStep
<1>11. ASSUME NEW w \in Writer, ScanRecords(w) PROVE IInv'
  <2>1. "publish" \in PutSteps \ {"write", "place", "commit"} /\ "publish" \notin Staging
    BY DEF PutSteps, Staging
  <2>2. ScannedCommitted' /\ IndexNamesCommitted'
    BY <1>b, <1>11 DEF ScanRecords, TypeOK, ScannedCommitted, IndexNamesCommitted, committed
  <2>3. QED BY <1>a, <1>b, <1>11, <2>1, <2>2, LookStep DEF ScanRecords, StandsAfterCommit
<1>12. ASSUME NEW w \in Writer, PublishIndex(w) PROVE IInv'
  <2>1. "reload" \in PutSteps \ {"write", "place", "commit"} /\ "reload" \notin Staging
    BY DEF PutSteps, Staging
  <2>2. ScannedCommitted' /\ IndexNamesCommitted'
    BY <1>b, <1>12 DEF PublishIndex, TypeOK, ScannedCommitted, IndexNamesCommitted, committed
  <2>3. QED BY <1>a, <1>b, <1>12, <2>1, <2>2, LookStep DEF PublishIndex, StandsAfterCommit
<1>13. ASSUME NEW w \in Writer, RefreshFails(w) PROVE IInv'
  <2>1. "reload" \in PutSteps \ {"write", "place", "commit"} /\ "reload" \notin Staging
    BY DEF PutSteps, Staging
  <2>2. ScannedCommitted' /\ IndexNamesCommitted'
    BY <1>c, <1>13 DEF RefreshFails
  <2>3. QED BY <1>a, <1>b, <1>13, <2>1, <2>2, LookStep DEF RefreshFails, StandsAfterCommit
<1>14. ASSUME NEW w \in Writer, IdempotentOrConflict(w) PROVE IInv'
  <2>1. CASE CompareStored(w) = "ok"
    <3>1. "reload" \in PutSteps \ {"write", "place", "commit"} /\ "reload" \notin Staging
      BY DEF PutSteps, Staging
    <3>2. /\ rec[w] \in Record /\ bodies(rec[w]) # {} /\ bodies(rec[w]) \subseteq BodyNames
          /\ \A f \in bodies(rec[w]) : Content(rec[w], f) # None
      BY <1>b, <1>14, CalledParts, RecordParts DEF IdempotentOrConflict, bodies, AlwaysStored, BodyNames
    <3>3. /\ receipts[id(w)] = rec[w].receipt
          /\ inputs[id(w)] # None
          /\ \A f \in bodies(rec[w]) : inputs[id(w)][f] = Content(rec[w], f)
      BY <2>1, <3>2, Compares
    <3>4. ScannedCommitted' /\ IndexNamesCommitted'
      BY <1>c, <1>14, <2>1 DEF IdempotentOrConflict
    <3>5. QED BY <1>a, <1>14, <2>1, <3>1, <3>3, <3>4, LookStep DEF IdempotentOrConflict
  <2>2. CASE CompareStored(w) # "ok"
    <3>1. CompareStored(w) \in Verdicts \ {"none", "stored"}
      BY <2>2, Answers DEF Verdicts
    <3>2. QED BY <1>a, <1>14, <2>2, <3>1, Ending DEF IdempotentOrConflict
  <2>3. QED BY <2>1, <2>2
<1>15. ASSUME NEW w \in Writer, Reload(w) PROVE IInv'
  <2>1. CASE get_record(id(w)) = "ok"
    BY <1>a, <1>15, <2>1, ReloadStep
  <2>2. CASE get_record(id(w)) # "ok"
    <3>1. PICK v \in Verdicts \ {"none", "stored"} : Return(w, "reload", v)
      BY <1>15, <2>2, Answers DEF Reload, Verdicts
    <3>2. QED BY <1>a, <1>15, <3>1, Ending DEF Reload
  <2>3. QED BY <2>1, <2>2
<1>16. ASSUME NEW w \in Writer, MkdirExists(w) \/ PutFails(w) PROVE IInv'
  BY <1>a, <1>16, Ending DEF MkdirExists, PutFails, Verdicts, Staging
<1>17. ASSUME NEW w \in Writer, LookForAccount(w) PROVE IInv'
  <2>1. CASE Goto(w, "look", "partial") /\ UNCHANGED verdict
    BY <1>a, <1>17, <2>1, KeepStep DEF LookForAccount, KeepSteps
  <2>2. CASE \E v \in {"preserved", "record_conflict", "noncanonical"} : Return(w, "look", v)
    BY <1>a, <1>17, <2>2, Ending DEF LookForAccount, Verdicts
  <2>3. QED BY <1>17, <2>1, <2>2 DEF LookForAccount
<1>18. ASSUME NEW w \in Writer, PartialOpen(w) \/ PartialFill(w) \/ PartialReplace(w) PROVE IInv'
  BY <1>a, <1>18, KeepStep DEF PartialOpen, PartialFill, PartialReplace, KeepSteps
<1>19. ASSUME NEW w \in Writer, PartialExists(w) \/ KeepReturn(w) \/ KeepFails(w) PROVE IInv'
  BY <1>a, <1>19, Ending DEF PartialExists, KeepReturn, KeepFails, Verdicts
<1>20. ASSUME NEW w \in Writer, Interrupt(w) \/ Crash(w) PROVE IInv'
  BY <1>a, <1>20, Ending DEF Interrupt, Crash, Verdicts, PutSteps, KeepSteps, Staging
<1>21. CASE UNCHANGED vars
  BY <1>21
  DEF vars, IInv, TypeOK, Called, JudgedLast, StagingOwned, WrittenSoFar, StagedContent, InputsFree,
      LiftedOwn, ReadyToCommit, StandsAfterCommit, ScannedCommitted, StagedIsSomewhere,
      CommittedIsComplete, SuccessIsDurable, IndexNamesCommitted, committed, id, Holds, Stands, Stored
<1>22. QED
  BY <1>1, <1>2, <1>3, <1>4, <1>5, <1>6, <1>7, <1>8, <1>9, <1>10, <1>11, <1>12, <1>13, <1>14,
     <1>15, <1>16, <1>17, <1>18, <1>19, <1>20, <1>21
  DEF Next, put_record, preserve_unrecorded

\* The inductive invariant holds in every reachable state.
THEOREM Invariance == Spec => []IInv
  BY InitIInv, IInvStep, PTL DEF Spec

\* put_record and preserve_unrecorded keep the store well typed.
THEOREM TypeCorrect == Spec => []TypeOK
<1>1. IInv => TypeOK
  BY DEF IInv
<1>2. QED BY <1>1, Invariance, PTL

\* Crash atomicity: whatever writers race, fail or die, a receipt file that
\* exists stands on the complete bodies of one record.
THEOREM CommittedComplete == Spec => []CommittedIsComplete
<1>1. IInv => CommittedIsComplete
  BY DEF IInv
<1>2. QED BY <1>1, Invariance, PTL

\* A put_record that returned success finds all it handed in committed, byte for byte
\* and in a record that loads, for ever.
THEOREM SuccessDurable == Spec => []SuccessIsDurable
<1>1. IInv => SuccessIsDurable
  BY DEF IInv
<1>2. QED BY <1>1, Invariance, PTL

\* The index that put_record publishes never names an uncommitted record.
THEOREM IndexTruthful == Spec => []IndexNamesCommitted
<1>1. IInv => IndexNamesCommitted
  BY DEF IInv
<1>2. QED BY <1>1, Invariance, PTL

\* What a put_record staged and did not commit is reported by scan.
THEOREM AbandonedReported == Spec => []AbandonedIsReported
<1>1. IInv => AbandonedIsReported
  <2> SUFFICES ASSUME IInv, NEW w \in Writer, pc[w] = "done", written[w] # {}, ~ committed(id(w))
               PROVE  id(w) \in scan.abandoned_staging \union scan.orphaned_inputs
    BY DEF AbandonedIsReported
  <2>1. id(w) \in Id
    BY CalledParts DEF IInv
  <2>2. staging[id(w)] # None \/ inputs[id(w)] # None
    BY DEF IInv, StagedIsSomewhere
  <2>3. QED BY <2>1, <2>2 DEF scan
<1>2. QED BY <1>1, Invariance, PTL

\* No step of any writer changes a committed receipt or its bodies: the only
\* steps that touch them find the id free.
LEMMA CommittedUnchanged ==
  ASSUME IInv, [Next]_vars, NEW i \in Id, committed(i)
  PROVE  receipts'[i] = receipts[i] /\ inputs'[i] = inputs[i]
<1> USE DEF recordVars, keepVars
<1>a. inputs[i] # None
  <2>1. PICK v \in Writer : rec[v] # None /\ id(v) = i /\ Holds(rec[v])
    BY DEF IInv, CommittedIsComplete
  <2>2. QED BY <2>1, RecordParts DEF IInv, Called, Holds, id
<1>1. ASSUME NEW w \in Writer, PlaceInputs(w) PROVE id(w) \in Id /\ id(w) # i
  BY <1>a, <1>1, CalledParts DEF IInv, PlaceInputs, InputsFree
<1>2. ASSUME NEW w \in Writer, Commit(w) PROVE id(w) \in Id /\ id(w) # i
  BY <1>2, CalledParts DEF IInv, Commit, ReadyToCommit, committed
<1>3. ASSUME NEW w \in Writer, PlaceInputs(w) \/ Commit(w)
      PROVE  receipts'[i] = receipts[i] /\ inputs'[i] = inputs[i]
  BY <1>1, <1>2, <1>3 DEF PlaceInputs, Commit, IInv, TypeOK
<1>4. CASE UNCHANGED <<receipts, inputs>>
  BY <1>4
<1>p. ASSUME NEW w \in Writer, PutCall(w) \/ RefreshFails(w) \/ PutFails(w) PROVE UNCHANGED <<receipts, inputs>>
  BY <1>p DEF PutCall, RefreshFails, PutFails
<1>5. ASSUME NEW w \in Writer, put_record(w) PROVE (PlaceInputs(w) \/ Commit(w)) \/ UNCHANGED <<receipts, inputs>>
  BY <1>5
  DEF put_record, LookForReceipt, Mkdir, MkdirExists, WriteStaged, ReadBack, LookForInputs,
      LiftReceipt, ScanRecords, PublishIndex, Reload, IdempotentOrConflict
<1>k. ASSUME NEW w \in Writer, KeepCall(w) \/ KeepFails(w) PROVE UNCHANGED <<receipts, inputs>>
  BY <1>k DEF KeepCall, KeepFails
<1>6. ASSUME NEW w \in Writer, preserve_unrecorded(w) PROVE UNCHANGED <<receipts, inputs>>
  BY <1>6
  DEF preserve_unrecorded, LookForAccount, PartialOpen, PartialExists, PartialFill,
      PartialReplace, KeepReturn
<1>7. ASSUME NEW w \in Writer, Interrupt(w) \/ Crash(w) PROVE UNCHANGED <<receipts, inputs>>
  BY <1>7 DEF Interrupt, Crash
<1>8. QED
  BY <1>3, <1>4, <1>5, <1>6, <1>7, <1>k, <1>p DEF Next, vars

\* The rename of the receipt file is final.
THEOREM CommitFinal == Spec => CommitIsFinal
<1>1. IInv /\ [Next]_vars =>
        [\A i \in Id : committed(i) => receipts'[i] = receipts[i] /\ inputs'[i] = inputs[i]]_vars
  BY CommittedUnchanged
<1>2. QED BY <1>1, Invariance, PTL DEF Spec, CommitIsFinal

\* Only a writer that made a staging directory ever touches it: once abandoned
\* it stays as it is.
THEOREM AbandonedKept == Spec => AbandonedStagingIsKept
<1>1. IInv /\ [Next]_vars =>
        [\A i \in Id :
           staging[i] # None /\ (\A w \in Writer : ~ (pc[w] \in Staging /\ id(w) = i))
             => staging'[i] = staging[i]]_vars
  <2> SUFFICES ASSUME IInv, Next, NEW i \in Id, staging[i] # None,
                      \A w \in Writer : ~ (pc[w] \in Staging /\ id(w) = i)
               PROVE  staging'[i] = staging[i]
    OBVIOUS
  <2> USE DEF recordVars, keepVars
  <2>1. ASSUME NEW w \in Writer, Mkdir(w) PROVE staging'[i] = staging[i]
    BY <2>1, CalledParts DEF Mkdir, IInv, TypeOK
  <2>2. ASSUME NEW w \in Writer, LiftReceipt(w) \/ PlaceInputs(w)
        PROVE  staging'[i] = staging[i]
    <3>1. id(w) \in Id /\ id(w) # i
      BY <2>2, CalledParts DEF LiftReceipt, PlaceInputs, IInv, Staging
    <3>2. QED BY <2>2, <3>1 DEF LiftReceipt, PlaceInputs, IInv, TypeOK
  <2>3. ASSUME NEW w \in Writer, WriteStaged(w) PROVE staging'[i] = staging[i]
    <3>1. id(w) \in Id /\ id(w) # i
      BY <2>3, CalledParts DEF WriteStaged, IInv, Staging
    <3>2. QED BY <2>3, <3>1 DEF WriteStaged, IInv, TypeOK
  <2>4. CASE UNCHANGED staging
    BY <2>4
  <2>5. QED
    BY <2>1, <2>2, <2>3, <2>4
    DEF Next, put_record, preserve_unrecorded, PutCall, LookForReceipt, MkdirExists,
        ReadBack, LookForInputs, Commit, ScanRecords, PublishIndex, Reload,
        IdempotentOrConflict, RefreshFails, PutFails, KeepCall, LookForAccount, PartialOpen,
        PartialExists, PartialFill, PartialReplace, KeepReturn, KeepFails, Interrupt, Crash
<1>2. QED BY <1>1, Invariance, PTL DEF Spec, AbandonedStagingIsKept

\* Artifacts that stand in a record that loads compare equal, and load.
LEMMA StandingIsFound ==
  ASSUME NEW w \in Writer, rec[w] \in Record, Stands(rec[w]), Stored(id(w)) \in Whole
  PROVE  CompareStored(w) = "ok" /\ get_record(id(w)) = "ok"
<1> DEFINE i == id(w)
<1>1. receipts[i] = rec[w].receipt /\ receipts[i] # None
  BY StandsOn DEF id
<1>2. /\ \A f \in FileNames : Stored(i)[f] \in (Bytes \ Large) \union {None}
      /\ \A f \in BodyNames : Stored(i)[f] # None <=> f \in required(receipts[i])
  BY StoredParts DEF Whole
<1>3. receipts[i] \notin Large
  BY <1>1, <1>2, StoredParts
<1>4. inputs[i] # None
  BY <1>2, StoredParts DEF required, AlwaysStored, BodyNames
<1>5. \A f \in BodyNames : Stored(i)[f] = inputs[i][f]
  BY <1>4, StoredParts
<1>6. \A f \in BodyNames : Loaded(i, f) = "ok"
  <2> SUFFICES ASSUME NEW f \in BodyNames PROVE Loaded(i, f) = "ok"
    OBVIOUS
  <2>1. inputs[i][f] # None <=> f \in required(receipts[i])
    BY <1>2, <1>5
  <2>2. inputs[i][f] # None => inputs[i][f] \notin Large
    BY <1>2, <1>5, StoredParts
  <2> QED
    BY <2>1, <2>2 DEF Loaded
<1>7. ASSUME NEW f \in BodyNames, f \in bodies(rec[w])
      PROVE  inputs[i][f] = Content(rec[w], f) /\ inputs[i][f] # None /\ inputs[i][f] \notin Large
  <2>1. f \in FileNames /\ Artifacts(rec[w])[f] = Content(rec[w], f) /\ Content(rec[w], f) # None
    BY <1>7, RecordParts, StoredParts DEF Artifacts
  <2>2. Stored(i)[f] = Content(rec[w], f)
    BY <2>1 DEF Stands, id
  <2> QED
    BY <1>2, <1>5, <2>1, <2>2
<1>8. \A f \in BodyNames : Compared(w, f) = "ok"
  BY <1>4, <1>7 DEF Compared
<1>9. /\ FirstRefusal([f \in BodyNames |-> Compared(w, f)]) = "ok"
      /\ FirstRefusal([f \in BodyNames |-> Loaded(i, f)]) = "ok"
  BY <1>6, <1>8 DEF FirstRefusal, BodyNames
<1> QED
  BY <1>1, <1>3, <1>4, <1>9 DEF CompareStored, get_record

\* Past the commit point, and at a repeat of what stands, put_record answers with the
\* committed record, whatever the index and other writers do, unless a look or a read
\* of the records fails or the caller dies.
THEOREM CommitAcknowledged == Spec => CommitIsAcknowledged
<1>1. IInv /\ [Next]_vars =>
        [\A w \in Writer :
           /\ pc[w] \in {"compare", "scan", "publish", "reload"} /\ pc'[w] = "done"
           /\ Stands(rec[w]) /\ Stored(id(w)) \in Whole
           => verdict'[w] \in {"stored", "path_invalid", "crashed"}]_vars
  <2> SUFFICES ASSUME IInv, Next, NEW w \in Writer,
                      pc[w] \in {"compare", "scan", "publish", "reload"}, pc'[w] = "done",
                      Stands(rec[w]), Stored(id(w)) \in Whole
               PROVE  verdict'[w] \in {"stored", "path_invalid", "crashed"}
    OBVIOUS
  <2> USE DEF recordVars, keepVars
  <2>1. TypeOK /\ CompareStored(w) = "ok" /\ get_record(id(w)) = "ok"
    BY CalledParts, StandingIsFound DEF IInv
  <2>2. PICK v \in Writer :
          \/ PutCall(v) \/ put_record(v) \/ RefreshFails(v) \/ PutFails(v)
          \/ KeepCall(v) \/ preserve_unrecorded(v) \/ KeepFails(v)
          \/ Interrupt(v) \/ Crash(v)
    BY DEF Next
  <2>3. v = w
    BY <2>1, <2>2
    DEF TypeOK, put_record, preserve_unrecorded, PutCall, LookForReceipt, Mkdir, MkdirExists, WriteStaged,
        ReadBack, LookForInputs, LiftReceipt, PlaceInputs, Commit, ScanRecords, PublishIndex, Reload,
        IdempotentOrConflict, RefreshFails, PutFails, KeepCall, LookForAccount, PartialOpen,
        PartialExists, PartialFill, PartialReplace, KeepReturn, KeepFails, Interrupt, Crash
  <2>4. \/ Reload(w) \/ PutFails(w) \/ Crash(w) \/ IdempotentOrConflict(w)
        \/ ScanRecords(w) \/ PublishIndex(w) \/ RefreshFails(w)
    BY <2>2, <2>3
    DEF put_record, preserve_unrecorded, PutCall, LookForReceipt, Mkdir, MkdirExists, WriteStaged,
        ReadBack, LookForInputs, LiftReceipt, PlaceInputs, Commit, KeepCall, LookForAccount, PartialOpen,
        PartialExists, PartialFill, PartialReplace, KeepReturn, KeepFails, Interrupt
  <2>5. ~ IdempotentOrConflict(w) /\ ~ ScanRecords(w) /\ ~ PublishIndex(w) /\ ~ RefreshFails(w)
    BY <2>1 DEF TypeOK, IdempotentOrConflict, ScanRecords, PublishIndex, RefreshFails
  <2>6. Reload(w) => verdict'[w] = "stored"
    BY <2>1 DEF TypeOK, Reload
  <2>7. PutFails(w) \/ Crash(w) => verdict'[w] \in {"path_invalid", "crashed"}
    BY <2>1 DEF TypeOK, PutFails, Crash, Staging
  <2> QED
    BY <2>4, <2>5, <2>6, <2>7
<1>2. QED BY <1>1, Invariance, PTL DEF Spec, CommitIsAcknowledged

--------------------------------------------------------------------------------
(* preserve_unrecorded                                                          *)

\* Without an interrupt between a rename and its return the partial name is the file
\* of the one call that is filling or renaming it, or of one that died doing so; an account was filled by a call
\* that is past its rename.
PartialOwn == \A w \in Writer : pc[w] \in {"fill", "replace"} => partial[id(w)] = w
PartialHeld ==
  \A i \in Id : partial[i] # None =>
    /\ id(partial[i]) = i
    /\ pc[partial[i]] \in {"fill", "replace"} \/ verdict[partial[i]] = "crashed"
AccountFilled == \A w \in Writer : pc[w] = "replace" => account[w] = rec[w].receipt
AccountKept == \A w \in Writer : pc[w] = "replaced" \/ verdict[w] = "preserved" => unrecorded[id(w)] # None
AccountWhole ==
  \A i \in Id : unrecorded[i] # None =>
    /\ id(unrecorded[i]) = i
    /\ account[unrecorded[i]] = rec[unrecorded[i]].receipt
    /\ pc[unrecorded[i]] \in {"replaced", "done"}

KeepInv == PartialOwn /\ PartialHeld /\ AccountFilled /\ AccountKept /\ AccountWhole

LEMMA InitKeepInv == Init => KeepInv
  BY DEF Init, KeepInv, PartialOwn, PartialHeld, AccountFilled, AccountKept, AccountWhole

\* A step of put_record, and the crash of any call, touches none of this.
LEMMA KeepInvQuiet ==
  ASSUME IInv, KeepInv, NEW w \in Writer, UNCHANGED <<keepVars, rec>>,
         pc' \in [Writer -> PutSteps \union KeepSteps \union {"idle", "done"}],
         pc'[w] \notin {"fill", "replace", "replaced"},
         pc[w] # "done", pc[w] = "replaced" => pc'[w] = "done",
         pc[w] \in {"fill", "replace"} => verdict'[w] = "crashed",
         \A v \in Writer : v # w => pc'[v] = pc[v] /\ verdict'[v] = verdict[v],
         verdict'[w] = "preserved" => unrecorded[id(w)] # None
  PROVE  KeepInv'
<1> USE DEF keepVars, id
<1>1. PartialOwn' /\ AccountFilled' /\ AccountKept'
  BY DEF KeepInv, PartialOwn, AccountFilled, AccountKept
<1>2. AccountWhole'
  BY DEF KeepInv, AccountWhole, IInv, TypeOK
<1>3. PartialHeld'
  BY DEF KeepInv, PartialHeld, IInv, TypeOK, JudgedLast
<1> QED
  BY <1>1, <1>2, <1>3 DEF KeepInv

\* A call begins, and knows its record.
LEMMA KeepInvCall ==
  ASSUME IInv, KeepInv, NEW w \in Writer, pc[w] = "idle", UNCHANGED keepVars,
         NEW r \in Record, rec' = [rec EXCEPT ![w] = r],
         pc'[w] \in {"exists", "look", "done"},
         verdict'[w] # "preserved",
         \A v \in Writer : v # w => pc'[v] = pc[v] /\ verdict'[v] = verdict[v]
  PROVE  KeepInv'
<1> USE DEF keepVars, id
<1>1. \A v \in Writer : v # w => rec'[v] = rec[v]
  BY DEF IInv, TypeOK
<1>2. PartialOwn' /\ AccountFilled' /\ AccountKept'
  BY <1>1 DEF KeepInv, PartialOwn, AccountFilled, AccountKept
<1>3. AccountWhole'
  BY <1>1 DEF KeepInv, AccountWhole, IInv, TypeOK
<1>4. PartialHeld'
  BY <1>1 DEF KeepInv, PartialHeld, IInv, TypeOK, JudgedLast
<1> QED
  BY <1>2, <1>3, <1>4 DEF KeepInv

\* Each step of preserve_unrecorded: nobody but the owner of the partial name fills,
\* renames or unlinks it.
LEMMA KeepInvStep ==
  ASSUME ~ LateInterrupts PROVE IInv /\ KeepInv /\ [Next]_vars => KeepInv'
<1> SUFFICES ASSUME IInv, KeepInv, [Next]_vars PROVE KeepInv'
  OBVIOUS
<1> USE DEF recordVars, keepVars
<1>a. TypeOK /\ TypeOK' /\ Called
  BY TypeStep DEF IInv
<1>b. ASSUME NEW w \in Writer, pc[w] # "idle" PROVE rec[w] \in Record /\ id(w) \in Id
  BY <1>a, <1>b, CalledParts
<1>c. None \notin Writer
  BY StoreAssumption
<1>1. ASSUME NEW w \in Writer, PutCall(w) PROVE KeepInv'
  <2>1. PICK r \in Record : rec' = [rec EXCEPT ![w] = r]
    BY <1>1 DEF PutCall
  <2>2. /\ pc[w] = "idle" /\ pc'[w] \in {"exists", "look", "done"} /\ verdict'[w] # "preserved"
        /\ \A v \in Writer : v # w => pc'[v] = pc[v] /\ verdict'[v] = verdict[v]
    BY <1>a, <1>1 DEF PutCall, TypeOK, IInv, Called
  <2> QED
    BY <1>1, <2>1, <2>2, KeepInvCall DEF PutCall
<1>2. ASSUME NEW w \in Writer, KeepCall(w) PROVE KeepInv'
  <2>1. PICK r \in Record : rec' = [rec EXCEPT ![w] = r]
    BY <1>2 DEF KeepCall
  <2>2. /\ pc[w] = "idle" /\ pc'[w] \in {"exists", "look", "done"} /\ verdict'[w] # "preserved"
        /\ \A v \in Writer : v # w => pc'[v] = pc[v] /\ verdict'[v] = verdict[v]
    BY <1>a, <1>2 DEF KeepCall, TypeOK, IInv, Called
  <2> QED
    BY <1>2, <2>1, <2>2, KeepInvCall DEF KeepCall
<1>3. ASSUME NEW w \in Writer, put_record(w) \/ RefreshFails(w) \/ PutFails(w) PROVE KeepInv'
  <2>1. /\ UNCHANGED <<keepVars, rec>>
        /\ pc'[w] \notin {"fill", "replace", "replaced"}
        /\ pc[w] \notin {"fill", "replace", "replaced", "done"}
        /\ \A v \in Writer : v # w => pc'[v] = pc[v] /\ verdict'[v] = verdict[v]
    BY <1>a, <1>3
    DEF TypeOK, put_record, LookForReceipt, Mkdir, MkdirExists, WriteStaged, ReadBack, LookForInputs,
        LiftReceipt, PlaceInputs, Commit, ScanRecords, PublishIndex, Reload, IdempotentOrConflict,
        RefreshFails, PutFails, Staging
  <2>2. verdict[w] # "preserved"
    BY <1>3
    DEF IInv, JudgedLast, put_record, LookForReceipt, Mkdir, MkdirExists, WriteStaged, ReadBack, LookForInputs,
        LiftReceipt, PlaceInputs, Commit, ScanRecords, PublishIndex, Reload, IdempotentOrConflict,
        RefreshFails, PutFails, Staging
  <2>3. get_record(id(w)) # "preserved" /\ CompareStored(w) # "preserved"
    BY Answers
  <2>4. verdict'[w] # "preserved"
    BY <1>a, <1>3, <2>2, <2>3
    DEF TypeOK, put_record, LookForReceipt, Mkdir, MkdirExists, WriteStaged, ReadBack, LookForInputs,
        LiftReceipt, PlaceInputs, Commit, ScanRecords, PublishIndex, Reload, IdempotentOrConflict,
        RefreshFails, PutFails
  <2> QED
    BY <1>a, <2>1, <2>4, KeepInvQuiet DEF TypeOK
<1>4. ASSUME NEW w \in Writer, LookForAccount(w) \/ PartialExists(w) \/ KeepReturn(w) \/ Crash(w) PROVE KeepInv'
  <2>1. /\ UNCHANGED <<keepVars, rec>>
        /\ pc'[w] \notin {"fill", "replace", "replaced"}
        /\ pc[w] # "done" /\ (pc[w] = "replaced" => pc'[w] = "done")
        /\ pc[w] \in {"fill", "replace"} => verdict'[w] = "crashed"
        /\ \A v \in Writer : v # w => pc'[v] = pc[v] /\ verdict'[v] = verdict[v]
    BY <1>a, <1>4 DEF TypeOK, LookForAccount, PartialExists, KeepReturn, Crash, PutSteps, KeepSteps, Staging
  <2>2. verdict'[w] = "preserved" => unrecorded[id(w)] # None
    <3>1. verdict[w] # "preserved"
      BY <1>4 DEF IInv, JudgedLast, LookForAccount, PartialExists, KeepReturn, Crash, PutSteps, KeepSteps, Staging
    <3>2. KeepReturn(w) => unrecorded[id(w)] # None
      BY DEF KeepReturn, KeepInv, AccountKept
    <3>3. LookForAccount(w) /\ verdict'[w] = "preserved" => unrecorded[id(w)] # None
      BY <1>a, <3>1 DEF LookForAccount, preserved, TypeOK
    <3>4. PartialExists(w) \/ Crash(w) => verdict'[w] # "preserved"
      BY <1>a DEF PartialExists, Crash, TypeOK
    <3> QED
      BY <1>4, <3>2, <3>3, <3>4
  <2> QED
    BY <1>a, <2>1, <2>2, KeepInvQuiet DEF TypeOK
<1>5. ASSUME NEW w \in Writer, PartialOpen(w) PROVE KeepInv'
  <2>1. /\ pc[w] = "partial" /\ pc' = [pc EXCEPT ![w] = "fill"] /\ partial[id(w)] = None
        /\ partial' = [partial EXCEPT ![id(w)] = w] /\ UNCHANGED <<verdict, rec, account, unrecorded>>
    BY <1>5 DEF PartialOpen
  <2>2. id(w) \in Id
    BY <1>b, <2>1
  <2>3. PartialOwn'
    <3> SUFFICES ASSUME NEW v \in Writer, pc'[v] \in {"fill", "replace"} PROVE partial'[id(v)] = v
      BY <2>1 DEF PartialOwn, id
    <3>1. CASE v = w
      BY <1>a, <2>1, <2>2, <3>1 DEF TypeOK
    <3>2. CASE v # w
      <4>1. pc[v] \in {"fill", "replace"} /\ partial[id(v)] = v
        BY <1>a, <2>1, <3>2 DEF TypeOK, KeepInv, PartialOwn
      <4>2. id(v) # id(w)
        BY <1>c, <2>1, <4>1
      <4> QED
        BY <1>a, <2>1, <2>2, <4>1, <4>2 DEF TypeOK
    <3> QED
      BY <3>1, <3>2
  <2>4. AccountFilled' /\ AccountKept' /\ AccountWhole'
    BY <1>a, <1>c, <2>1 DEF TypeOK, KeepInv, AccountFilled, AccountKept, AccountWhole, id
  <2>5. PartialHeld'
    <3>1. ASSUME NEW i \in Id PROVE partial'[i] = IF i = id(w) THEN w ELSE partial[i]
      BY <1>a, <2>1, <2>2 DEF TypeOK
    <3> QED
      BY <1>a, <2>1, <3>1 DEF TypeOK, KeepInv, PartialHeld, id
  <2> QED
    BY <2>3, <2>4, <2>5 DEF KeepInv
<1>6. ASSUME NEW w \in Writer, PartialFill(w) PROVE KeepInv'
  <2>1. /\ pc[w] = "fill" /\ pc' = [pc EXCEPT ![w] = "replace"] /\ account' = [account EXCEPT ![w] = rec[w].receipt]
        /\ UNCHANGED <<verdict, rec, partial, unrecorded>>
    BY <1>6 DEF PartialFill
  <2>2. PartialOwn' /\ PartialHeld' /\ AccountFilled' /\ AccountKept'
    BY <1>a, <2>1 DEF TypeOK, KeepInv, PartialOwn, PartialHeld, AccountFilled, AccountKept, id
  <2>3. AccountWhole'
    BY <1>a, <2>1 DEF TypeOK, KeepInv, AccountWhole, id
  <2> QED
    BY <2>2, <2>3 DEF KeepInv
<1>7. ASSUME NEW w \in Writer, PartialReplace(w) PROVE KeepInv'
  <2>1. /\ pc[w] = "replace" /\ pc' = [pc EXCEPT ![w] = "replaced"]
        /\ unrecorded' = [unrecorded EXCEPT ![id(w)] = partial[id(w)]]
        /\ partial' = [partial EXCEPT ![id(w)] = None]
        /\ UNCHANGED <<verdict, rec, account>>
    BY <1>7 DEF PartialReplace
  <2>2. id(w) \in Id /\ partial[id(w)] = w /\ account[w] = rec[w].receipt
    BY <1>b, <2>1 DEF KeepInv, PartialOwn, AccountFilled
  <2>3. unrecorded'[id(w)] = w /\ \A i \in Id : i # id(w) => unrecorded'[i] = unrecorded[i] /\ partial'[i] = partial[i]
    BY <1>a, <2>1, <2>2 DEF TypeOK
  <2>4. PartialOwn'
    <3> SUFFICES ASSUME NEW v \in Writer, pc'[v] \in {"fill", "replace"} PROVE partial'[id(v)] = v
      BY <2>1 DEF PartialOwn, id
    <3>1. v # w /\ pc[v] \in {"fill", "replace"} /\ partial[id(v)] = v /\ id(v) \in Id
      BY <1>a, <1>b, <2>1 DEF TypeOK, KeepInv, PartialOwn
    <3> QED
      BY <2>2, <2>3, <3>1
  <2>5. AccountFilled'
    BY <1>a, <2>1 DEF TypeOK, KeepInv, AccountFilled
  <2>6. AccountKept'
    <3> SUFFICES ASSUME NEW v \in Writer, pc'[v] = "replaced" \/ verdict[v] = "preserved"
                 PROVE  unrecorded'[id(v)] # None
      BY <2>1 DEF AccountKept, id
    <3>1. CASE v = w
      BY <1>c, <2>3, <3>1
    <3>2. CASE v # w
      <4>1. unrecorded[id(v)] # None /\ pc[v] # "idle"
        BY <1>a, <2>1, <3>2 DEF TypeOK, KeepInv, AccountKept, Called
      <4>2. id(v) \in Id
        BY <1>b, <4>1
      <4> QED
        BY <1>c, <2>3, <4>1, <4>2
    <3> QED
      BY <3>1, <3>2
  <2>7. AccountWhole'
    <3> SUFFICES ASSUME NEW i \in Id, unrecorded'[i] # None
                 PROVE  /\ id(unrecorded'[i]) = i
                        /\ account[unrecorded'[i]] = rec[unrecorded'[i]].receipt
                        /\ pc'[unrecorded'[i]] \in {"replaced", "done"}
      BY <2>1 DEF AccountWhole, id
    <3>1. CASE i = id(w)
      BY <1>a, <2>1, <2>2, <2>3, <3>1 DEF TypeOK
    <3>2. CASE i # id(w)
      BY <1>a, <2>1, <2>3, <3>2 DEF TypeOK, KeepInv, AccountWhole
    <3> QED
      BY <3>1, <3>2
  <2>8. PartialHeld'
    <3>1. partial'[id(w)] = None
      BY <1>a, <2>1, <2>2 DEF TypeOK
    <3>2. \A i \in Id : i # id(w) /\ partial[i] # None => partial[i] # w
      BY DEF KeepInv, PartialHeld
    <3> QED
      BY <1>a, <2>1, <2>3, <3>1, <3>2 DEF TypeOK, KeepInv, PartialHeld, id
  <2> QED
    BY <2>4, <2>5, <2>6, <2>7, <2>8 DEF KeepInv
<1>8. ASSUME NEW w \in Writer, KeepFails(w) \/ Interrupt(w) PROVE KeepInv'
  <2>1. /\ pc[w] \in {"look", "partial", "fill", "replace"} /\ pc' = [pc EXCEPT ![w] = "done"]
        /\ \/ pc[w] \in {"look", "partial"} /\ UNCHANGED partial
           \/ pc[w] \in {"fill", "replace"} /\ partial' = [partial EXCEPT ![id(w)] = None]
        /\ verdict' \in [Writer -> Verdicts] /\ verdict'[w] # "preserved"
        /\ \A v \in Writer : v # w => verdict'[v] = verdict[v]
        /\ UNCHANGED <<rec, account, unrecorded>>
    BY <1>a, <1>8 DEF KeepFails, Interrupt, TypeOK
  <2>2. PartialOwn'
    <3> SUFFICES ASSUME NEW v \in Writer, pc'[v] \in {"fill", "replace"} PROVE partial'[id(v)] = v
      BY <2>1 DEF PartialOwn, id
    <3>1. v # w /\ pc[v] \in {"fill", "replace"} /\ partial[id(v)] = v /\ id(v) \in Id
      BY <1>a, <1>b, <2>1 DEF TypeOK, KeepInv, PartialOwn
    <3>2. CASE UNCHANGED partial
      BY <3>1, <3>2
    <3>3. CASE pc[w] \in {"fill", "replace"} /\ partial' = [partial EXCEPT ![id(w)] = None]
      <4>1. partial[id(w)] = w /\ id(w) \in Id
        BY <1>b, <3>3 DEF KeepInv, PartialOwn
      <4>2. id(v) # id(w)
        BY <3>1, <4>1
      <4> QED
        BY <1>a, <3>1, <3>3, <4>1, <4>2 DEF TypeOK
    <3> QED
      BY <2>1, <3>2, <3>3
  <2>3. AccountFilled' /\ AccountKept' /\ AccountWhole'
    BY <1>a, <2>1 DEF TypeOK, KeepInv, AccountFilled, AccountKept, AccountWhole, id
  <2>4. PartialHeld'
    <3>1. id(w) \in Id /\ verdict[w] # "crashed"
      BY <1>b, <2>1 DEF IInv, JudgedLast
    <3>2. \A i \in Id : partial'[i] # None => partial'[i] = partial[i] /\ partial[i] # w
      BY <1>a, <2>1, <3>1 DEF TypeOK, KeepInv, PartialHeld
    <3> QED
      BY <1>a, <2>1, <3>2 DEF TypeOK, KeepInv, PartialHeld, id
  <2> QED
    BY <2>2, <2>3, <2>4 DEF KeepInv
<1>9. CASE UNCHANGED vars
  BY <1>9 DEF vars, KeepInv, PartialOwn, PartialHeld, AccountFilled, AccountKept, AccountWhole, id
<1> QED
  BY <1>1, <1>2, <1>3, <1>4, <1>5, <1>6, <1>7, <1>8, <1>9 DEF Next, preserve_unrecorded

\* An account outside the records is the whole receipt of the call that wrote it, and
\* preserve_unrecorded answers that there is one only when there is, and leaves a partial
\* file only when it dies: whoever races, fails or dies, as long as no interrupt arrives between a rename and its return.
THEOREM PreservedTruthful ==
  ASSUME ~ LateInterrupts PROVE Spec => []PreservedIsTruthful
<1>1. Spec => []KeepInv
  BY Invariance, InitKeepInv, KeepInvStep, PTL DEF Spec
<1>2. IInv /\ KeepInv => PreservedIsTruthful
  <2> SUFFICES ASSUME IInv, KeepInv PROVE PreservedIsTruthful
    OBVIOUS
  <2>1. ASSUME NEW i \in Id, preserved(i) PROVE \E r \in Record : r.id = i /\ account[unrecorded[i]] = r.receipt
    <3> DEFINE w == unrecorded[i]
    <3>1. w \in Writer /\ id(w) = i /\ account[w] = rec[w].receipt /\ pc[w] # "idle"
      BY <2>1 DEF preserved, IInv, TypeOK, KeepInv, AccountWhole
    <3>2. rec[w] \in Record
      BY <3>1 DEF IInv, Called
    <3> QED
      BY <3>1, <3>2 DEF id
  <2>2. \A w \in Writer : verdict[w] = "preserved" => preserved(id(w))
    BY DEF KeepInv, AccountKept, preserved
  <2>3. \A i \in Id : partial[i] # None =>
          pc[partial[i]] \in {"fill", "replace"} \/ verdict[partial[i]] = "crashed"
    BY DEF KeepInv, PartialHeld
  <2> QED
    BY <2>1, <2>2, <2>3 DEF PreservedIsTruthful
<1> QED
  BY <1>1, <1>2, Invariance, PTL

\* put_record implements the write-once store: the rename of the receipt file
\* stores receipt and bodies at once, the end of a call answers it, and every
\* other step is invisible.
THEOREM ImplementsRecordStore == Spec => RecordStoreSpec
<1>1. Init => Abstract!Init
  BY DEF Init, Abstract!Init, Kept, Told, committed
<1>2. IInv /\ IInv' /\ [Next]_vars => [Abstract!Next]_(Abstract!vars)
  <2> SUFFICES ASSUME IInv, IInv', [Next]_vars
               PROVE  [Abstract!Next]_(Abstract!vars)
    OBVIOUS
  <2> USE DEF recordVars, keepVars
  <2>a. TypeOK /\ Called /\ JudgedLast
    BY DEF IInv
  <2>b. ASSUME \A i \in Id : receipts'[i] = receipts[i] PROVE Kept' = Kept
    BY <2>b, CommittedUnchanged DEF Kept, committed, Stored
  <2>c. ASSUME NEW w \in Writer, pc[w] \notin {"idle", "done"}
        PROVE  Abstract!Pending(w) /\ rec[w] \in Record
    BY <2>a, <2>c, StoreAssumption DEF Abstract!Pending, Told, Called
  <2>d. ASSUME NEW w \in Writer, NEW to, pc' = [pc EXCEPT ![w] = to],
               pc[w] # "done", to # "done", verdict' = verdict
        PROVE  Told' = Told
    BY <2>a, <2>d DEF Told, TypeOK
  <2>e. ASSUME NEW w \in Writer, NEW v, pc' = [pc EXCEPT ![w] = "done"],
               verdict' = [verdict EXCEPT ![w] = v]
        PROVE  Told' = [Told EXCEPT ![w] = v]
    BY <2>a, <2>e DEF Told, TypeOK
  <2>1. ASSUME NEW w \in Writer, PutCall(w) \/ KeepCall(w) PROVE Abstract!Ask(w)
    <3>1. /\ rec[w] = None
          /\ \E r \in Record : rec' = [rec EXCEPT ![w] = r]
          /\ Kept' = Kept
      BY <2>a, <2>b, <2>1 DEF PutCall, KeepCall, Called
    <3>2. Told' = Told \/ Told' = [Told EXCEPT ![w] = "record_conflict"]
      BY <2>d, <2>e, <2>1 DEF PutCall, KeepCall
    <3>3. QED BY <3>1, <3>2 DEF Abstract!Ask, Verdicts
  <2>2. ASSUME NEW w \in Writer, Commit(w) PROVE Abstract!Keep(w)
    <3>1. /\ rec[w] \in Record /\ Abstract!Pending(w) /\ id(w) \in Id /\ rec[w].id \in Id
          /\ rec[w].receipt # None
      BY <2>a, <2>c, <2>2, CalledParts, RecordParts, StoreAssumption DEF Commit
    <3>2. /\ receipts[id(w)] = None /\ inputs'[id(w)] = InputsOf(rec[w])
          /\ receipts' = [receipts EXCEPT ![id(w)] = rec[w].receipt]
          /\ inputs' = inputs
      BY <2>2 DEF Commit, IInv, ReadyToCommit, LiftedOwn
    <3>3. Kept' = [Kept EXCEPT ![rec[w].id] = Artifacts(rec[w])]
      <4>1. \A i \in Id : receipts'[i] = IF i = rec[w].id THEN rec[w].receipt ELSE receipts[i]
        BY <2>a, <3>1, <3>2 DEF id, TypeOK
      <4>2. ASSUME NEW i \in Id, i = rec[w].id PROVE Stored(i)' = Artifacts(rec[w])
        <5>1. receipts'[i] = rec[w].receipt /\ inputs'[i] = InputsOf(rec[w]) /\ InputsOf(rec[w]) # None
          BY <3>1, <3>2, <4>1, <4>2, RecordParts DEF id
        <5>2. ASSUME NEW f \in FileNames
              PROVE  (IF f = "receipt" THEN receipts'[i] ELSE inputs'[i][f])
                        = IF f \in bodies(rec[w]) \union {"receipt"} THEN Content(rec[w], f) ELSE None
          <6>1. Content(rec[w], "receipt") = rec[w].receipt /\ "receipt" \notin bodies(rec[w])
            BY <3>1, RecordParts DEF Content
          <6>2. inputs'[i][f] = IF f \in bodies(rec[w]) THEN Content(rec[w], f) ELSE None
            BY <5>1 DEF InputsOf
          <6> QED
            BY <5>1, <6>1, <6>2
        <5> HIDE DEF bodies, Content, InputsOf
        <5> QED
          BY <5>1, <5>2 DEF Stored, Artifacts
      <4>3. ASSUME NEW i \in Id, i # rec[w].id PROVE Stored(i)' = Stored(i)
        BY <3>2, <4>1, <4>3 DEF Stored
      <4>4. rec[w].id \in Id /\ Kept \in [Id -> {Kept[i] : i \in Id}]
        BY <3>1 DEF Kept
      <4>5. ASSUME NEW i \in Id PROVE Kept'[i] = IF i = rec[w].id THEN Artifacts(rec[w]) ELSE Kept[i]
        BY <3>1, <4>1, <4>2, <4>3 DEF Kept, committed
      <4> QED
        BY <4>4, <4>5 DEF Kept
    <3>4. Told' = Told /\ rec' = rec
      BY <2>d, <2>2 DEF Commit
    <3>5. Kept[rec[w].id] = None
      BY <3>1, <3>2 DEF Kept, committed, id
    <3>6. [r \in Record |-> r.id][rec[w]] = rec[w].id /\ [r \in Record |-> Artifacts(r)][rec[w]] = Artifacts(rec[w])
      BY <3>1
    <3>7. QED BY <3>1, <3>3, <3>4, <3>5, <3>6 DEF Abstract!Keep
  <2>3. ASSUME NEW w \in Writer, pc[w] \notin {"idle", "done"}, NEW v \in Verdicts \ {"none"},
               pc' = [pc EXCEPT ![w] = "done"], verdict' = [verdict EXCEPT ![w] = v],
               UNCHANGED <<rec, receipts>>
        PROVE  Abstract!Answer(w)
    <3>1. Told' = [Told EXCEPT ![w] = v] /\ Kept' = Kept
      BY <2>b, <2>e, <2>3
    <3>2. CASE v # "stored"
      BY <2>c, <2>3, <3>1, <3>2 DEF Abstract!Answer
    <3>3. CASE v = "stored"
      <4>1. Stands(rec[w])' /\ (Stored(id(w)) \in Whole)' /\ rec[w] \in Record /\ rec'[w] = rec[w]
        BY <2>a, <2>c, <2>3, <3>3 DEF IInv, SuccessIsDurable, TypeOK
      <4>2. PICK i \in Id : i = rec[w].id
        BY <4>1, RecordParts
      <4>3. \A f \in FileNames : Artifacts(rec[w])[f] # None => Stored(i)'[f] = Artifacts(rec[w])[f]
        BY <4>1, <4>2 DEF Stands, Artifacts, Content, bodies, Stored
      <4>4. receipts'[i] # None
        <5>1. Artifacts(rec[w])["receipt"] = rec[w].receipt /\ rec[w].receipt # None /\ "receipt" \in FileNames
          BY <4>1, StoreAssumption DEF Artifacts, Content, FileNames
        <5>2. Stored(i)'["receipt"] = receipts'[i]
          BY <5>1 DEF Stored
        <5> QED
          BY <4>3, <5>1, <5>2
      <4>5. Kept'[i] = Stored(i)' /\ Stored(i)' \in Whole
        BY <4>1, <4>2, <4>4 DEF Kept, committed, id, Stored, Whole
      <4>6. Kept'[i] # None
        BY <4>5, StoreAssumption DEF Whole
      <4>7. [r \in Record |-> r.id][rec[w]] = rec[w].id /\ [r \in Record |-> Artifacts(r)][rec[w]] = Artifacts(rec[w])
        BY <4>1
      <4> QED
        BY <2>c, <2>3, <3>1, <3>3, <4>2, <4>3, <4>5, <4>6, <4>7 DEF Abstract!Answer, Abstract!Succeeds
    <3>4. QED BY <3>2, <3>3
  <2>4. ASSUME NEW w \in Writer,
               \/ MkdirExists(w) \/ PutFails(w) \/ PartialExists(w) \/ KeepReturn(w)
               \/ KeepFails(w) \/ Interrupt(w) \/ Crash(w)
        PROVE  Abstract!Answer(w)
    BY <2>3, <2>4 DEF MkdirExists, PutFails, PartialExists, KeepReturn, KeepFails, Interrupt, Crash,
                      Verdicts, PutSteps, KeepSteps, Staging
  <2>5. ASSUME NEW w \in Writer, Reload(w) PROVE Abstract!Answer(w)
    <3>1. PICK v \in Verdicts \ {"none"} : Return(w, "reload", v)
      BY <2>5, Answers DEF Reload, Verdicts
    <3>2. QED BY <2>3, <2>5, <3>1 DEF Reload
  <2>6. ASSUME NEW w \in Writer,
               \/ LookForReceipt(w) \/ Mkdir(w) \/ WriteStaged(w) \/ LiftReceipt(w)
               \/ PlaceInputs(w) \/ ScanRecords(w) \/ PublishIndex(w) \/ RefreshFails(w)
               \/ PartialOpen(w) \/ PartialFill(w) \/ PartialReplace(w)
        PROVE  UNCHANGED Abstract!vars
    <3>1. receipts' = receipts /\ rec' = rec
      BY <2>6 DEF LookForReceipt, Mkdir, WriteStaged, LiftReceipt, PlaceInputs, ScanRecords,
                  PublishIndex, RefreshFails, PartialOpen, PartialFill, PartialReplace
    <3>2. PICK to : pc' = [pc EXCEPT ![w] = to] /\ to # "done" /\ pc[w] # "done" /\ verdict' = verdict
      BY <2>6 DEF LookForReceipt, Mkdir, WriteStaged, LiftReceipt, PlaceInputs, ScanRecords,
                  PublishIndex, RefreshFails, PartialOpen, PartialFill, PartialReplace
    <3>3. QED BY <2>b, <2>d, <3>1, <3>2 DEF Abstract!vars
  <2>7. ASSUME NEW w \in Writer,
               \/ ReadBack(w) \/ LookForInputs(w) \/ IdempotentOrConflict(w) \/ LookForAccount(w)
        PROVE  Abstract!Answer(w) \/ UNCHANGED Abstract!vars
    <3>1. receipts' = receipts /\ rec' = rec /\ pc[w] \notin {"idle", "done"}
      BY <2>7 DEF ReadBack, LookForInputs, IdempotentOrConflict, LookForAccount
    <3>2. CompareStored(w) # "ok" => CompareStored(w) \in Verdicts \ {"none"}
      BY Answers DEF Verdicts
    <3>3. \/ verdict' = verdict /\ \E to : pc' = [pc EXCEPT ![w] = to] /\ to # "done"
          \/ /\ pc' = [pc EXCEPT ![w] = "done"]
             /\ \E v \in Verdicts \ {"none"} : verdict' = [verdict EXCEPT ![w] = v]
      BY <2>7, <3>2 DEF ReadBack, LookForInputs, IdempotentOrConflict, LookForAccount, Verdicts
    <3>4. QED BY <2>b, <2>d, <2>3, <3>1, <3>3 DEF Abstract!vars
  <2>8. CASE UNCHANGED vars
    BY <2>8 DEF vars, Abstract!vars, Kept, Told, committed, Stored
  <2>9. QED
    BY <2>1, <2>2, <2>4, <2>5, <2>6, <2>7, <2>8
    DEF Next, put_record, preserve_unrecorded, Abstract!Next
<1>3. QED BY <1>1, <1>2, Invariance, PTL DEF Spec, RecordStoreSpec, Abstract!Spec

--------------------------------------------------------------------------------
(* What a record replays to                                                     *)

IsSeq(s) == s \in Seq({s[i] : i \in DOMAIN s})

\* A rulebook of at least one rule; a snapshot that verifies once it is frozen; a walk
\* that no rule it has passed could have ended; and a result that evaluate gives again.
DecisionInv ==
  /\ IsSeq(rules) /\ rules # <<>> /\ IsSeq(trace)
  /\ phase = "writing" => trace = <<>> /\ result = Undecided
  /\ phase # "writing" => snapshot.frozen_at \in Instant /\ verify_snapshot_value(snapshot)
  /\ phase = "walking" =>
       /\ _prepare(snapshot.frozen_at) = "" /\ Len(trace) < Len(rules) /\ result = Undecided
       /\ \A i \in 1..Len(trace) : _rule_state(candidate, snapshot, i).state \notin {"true", "unsettled"}
  /\ phase = "done" => result = evaluate(candidate, snapshot)

\* What a signature was made over, and the instants of an authorization that was issued.
Allowed == result.outcome = "ALLOW"
ReceiptIssued ==
  \E created_at \in Clock :
    record.receipt.signature = IF Allowed THEN issue_receipt(TRUE, created_at, created_at).payload
                               ELSE issue_receipt(FALSE, <<>>, created_at).payload
AuthorizationIssued ==
  LET a == record.authorization
      issued_at == a.payload.issued_at IN
  /\ DOMAIN a = {"payload", "signature"}
  /\ issued_at \in Clock /\ _instant(issued_at) >= _instant(snapshot.frozen_at)
  /\ _instant(_add_seconds(issued_at, TTL)) = _instant(issued_at) + TTL
  /\ a.signature = issue_authorization(a.signature.evidence, issued_at).payload

Files == {"kept", "receipt", "candidate", "snapshot", "authorization"}

\* A record's signatures are those of the decision, whatever was altered in it.
RecordInv ==
  record.kept =>
    /\ phase = "done" /\ result.outcome \in {"ALLOW", "BLOCK", "HOLD"}
    /\ DOMAIN record = Files /\ DOMAIN record.receipt = {"payload", "signature"}
    /\ record.candidate = candidate
    /\ ReceiptIssued
    /\ IF Allowed THEN AuthorizationIssued ELSE record.authorization = <<>>

\* A report is of the record and the trust file as they are.
ReportInv ==
  report.kept =>
    /\ record.kept
    /\ report.replayed <=> replay_receipt(record)
    /\ report.authorized = record.receipt.payload.authorized
    /\ report.anomalies = timeline_anomalies(record)

ReceiptInv == ReceiptTypeOK /\ DecisionInv /\ RecordInv /\ ReportInv

--------------------------------------------------------------------------------
(* Instants and sequences                                                       *)

LEMMA InstantIsInt == ASSUME NEW at \in Instant PROVE _instant(at) \in Int /\ at # <<>>
<1>1. at[1] \in Int /\ at[2] \in Int /\ at[3] \in Int /\ at[4] \in Int /\ at[5] \in Int
  BY DEF Instant
<1>2. \A y \in Int, month \in Int, day \in Int : _days_from_civil(y, month, day) \in Int
  BY DEF _days_from_civil
<1>3. at # <<>>
  <2>1. at = <<at[1], at[2], at[3], at[4], at[5]>>
    BY DEF Instant
  <2> QED
    BY <2>1
<1>4. _days_from_civil(at[1], at[2], at[3]) \in Int
  BY <1>1, <1>2
<1> HIDE DEF _days_from_civil
<1>5. _instant(at) = _days_from_civil(at[1], at[2], at[3]) * 1440 + at[4] - at[5]
  BY DEF _instant
<1> QED
  BY <1>1, <1>3, <1>4, <1>5

LEMMA SeqIs == ASSUME NEW S, NEW s \in Seq(S) PROVE IsSeq(s) /\ Len(s) \in Nat /\ DOMAIN s = 1..Len(s)
  BY DEF IsSeq

LEMMA Appended ==
  ASSUME NEW s, IsSeq(s), NEW x
  PROVE  /\ IsSeq(Append(s, x)) /\ Len(Append(s, x)) = Len(s) + 1 /\ Len(s) \in Nat
         /\ Append(s, x) # <<>>
<1> DEFINE S == {s[i] : i \in DOMAIN s} \union {x}
<1>1. s \in Seq({s[i] : i \in DOMAIN s})
  BY DEF IsSeq
<1>2. s \in Seq(S)
  BY <1>1
<1>3. x \in S
  OBVIOUS
<1> HIDE DEF S
<1>4. Append(s, x) \in Seq(S) /\ Len(Append(s, x)) = Len(s) + 1 /\ Len(s) \in Nat /\ Append(s, x) # <<>>
  BY <1>2, <1>3
<1> QED
  BY <1>4, SeqIs

LEMMA Changed ==
  ASSUME NEW s, IsSeq(s), s # <<>>, NEW x
  PROVE  IsSeq([s EXCEPT ![Len(s)] = x]) /\ [s EXCEPT ![Len(s)] = x] # <<>>
<1> DEFINE S == {s[i] : i \in DOMAIN s} \union {x}
<1>1. s \in Seq({s[i] : i \in DOMAIN s})
  BY DEF IsSeq
<1>2. s \in Seq(S)
  BY <1>1
<1>3. x \in S
  OBVIOUS
<1> HIDE DEF S
<1>4. [s EXCEPT ![Len(s)] = x] \in Seq(S) /\ [s EXCEPT ![Len(s)] = x] # <<>>
  BY <1>2, <1>3
<1> QED
  BY <1>4, SeqIs

LEMMA MinIs ==
  ASSUME NEW D \in Nat, NEW S \in SUBSET (1..D), NEW n \in S, \A i \in 1..(n - 1) : i \notin S
  PROVE  Min(S) = n
<1>1. \A x \in S : x \in Int /\ n <= x
  OBVIOUS
<1>2. \A y \in S : (\A x \in S : y <= x) => y = n
  BY <1>1
<1>3. Min(S) \in S /\ \A x \in S : Min(S) <= x
  BY <1>1 DEF Min
<1> QED
  BY <1>2, <1>3

--------------------------------------------------------------------------------
(* What a decision comes to                                                     *)

\* What the builder freezes verifies.
LEMMA BuiltVerifies ==
  ASSUME NEW acquired, NEW frozen_at \in Instant, Buildable(acquired, frozen_at)
  PROVE  /\ verify_snapshot_value(build_snapshot(acquired, frozen_at))
         /\ build_snapshot(acquired, frozen_at).frozen_at = frozen_at
<1> DEFINE missing == {e \in DOMAIN Declared : Declared[e].required /\ e \notin DOMAIN acquired}
           gap == [status |-> "missing", value |-> <<>>, acquired_at |-> frozen_at]
           items == build_snapshot(acquired, frozen_at).items
<1>1. build_snapshot(acquired, frozen_at).frozen_at = frozen_at
  BY DEF build_snapshot
<1>2. /\ DOMAIN items = DOMAIN acquired \union missing
      /\ \A e \in DOMAIN items : items[e] = IF e \in missing THEN gap ELSE acquired[e]
  BY DEF build_snapshot
<1>3. AcceptableItem(gap, frozen_at)
  BY InstantIsInt DEF AcceptableItem
<1> HIDE DEF gap, items
<1>4. Buildable(items, frozen_at)
  BY <1>2, <1>3 DEF Buildable
<1>5. \A e \in DOMAIN Declared : Declared[e].required => e \in DOMAIN items
  BY <1>2
<1> QED
  BY <1>1, <1>4, <1>5 DEF verify_snapshot_value, items

\* The first rule that holds or is unsettled gives the result.
LEMMA FirstDecides ==
  ASSUME IsSeq(rules), NEW cand, NEW snap, _prepare(snap.frozen_at) = "",
         NEW n \in 1..Len(rules), _rule_state(cand, snap, n).state \in {"true", "unsettled"},
         \A i \in 1..(n - 1) : _rule_state(cand, snap, i).state \notin {"true", "unsettled"}
  PROVE  evaluate(cand, snap) =
           IF _rule_state(cand, snap, n).state = "true" THEN [outcome |-> OutcomeOf(n), reasons |-> {"rule"}]
           ELSE [outcome |-> "HOLD", reasons |-> _rule_state(cand, snap, n).causes]
<1> DEFINE decided == {i \in DOMAIN rules : _rule_state(cand, snap, i).state \in {"true", "unsettled"}}
<1>1. DOMAIN rules = 1..Len(rules) /\ Len(rules) \in Nat
  BY SeqIs DEF IsSeq
<1>2. n \in decided
  BY <1>1, Zenon
<1>3. decided \in SUBSET (1..Len(rules))
  BY <1>1, Zenon
<1>4. \A i \in 1..(n - 1) : i \notin decided
  BY Zenon
<1> HIDE DEF decided
<1>5. decided # {} /\ Min(decided) = n
  BY <1>1, <1>2, <1>3, <1>4, MinIs
<1>6. evaluate(cand, snap) =
        IF decided = {} THEN [outcome |-> default_outcome, reasons |-> {"default_outcome"}]
        ELSE IF _rule_state(cand, snap, Min(decided)).state = "true"
        THEN [outcome |-> OutcomeOf(Min(decided)), reasons |-> {"rule"}]
        ELSE [outcome |-> "HOLD", reasons |-> _rule_state(cand, snap, Min(decided)).causes]
  BY Zenon DEF evaluate, decided
<1> QED
  BY <1>2, <1>5, <1>6, Zenon

\* A rulebook of which no rule decides comes to its default.
LEMMA NoneDecides ==
  ASSUME IsSeq(rules), NEW cand, NEW snap, _prepare(snap.frozen_at) = "",
         \A i \in 1..Len(rules) : _rule_state(cand, snap, i).state \notin {"true", "unsettled"}
  PROVE  evaluate(cand, snap) = [outcome |-> default_outcome, reasons |-> {"default_outcome"}]
<1>1. DOMAIN rules = 1..Len(rules)
  BY SeqIs DEF IsSeq
<1>2. {i \in DOMAIN rules : _rule_state(cand, snap, i).state \in {"true", "unsettled"}} = {}
  BY <1>1
<1> QED
  BY <1>2 DEF evaluate
--------------------------------------------------------------------------------
(* The decision                                                                 *)

\* What is read of the rulebook is the same while it is not written to.
LEMMA SameRules ==
  ASSUME rules' = rules, corpus' = corpus, NEW cand, NEW snap
  PROVE  /\ _prepare(snap.frozen_at)' = _prepare(snap.frozen_at)
         /\ \A i : _rule_state(cand, snap, i)' = _rule_state(cand, snap, i)
         /\ evaluate(cand, snap)' = evaluate(cand, snap)
<1>1. _prepare(snap.frozen_at)' = _prepare(snap.frozen_at)
  BY DEF _prepare
<1>2. \A i : _rule_state(cand, snap, i)' = _rule_state(cand, snap, i)
  BY Zenon DEF _rule_state, requires_evidence, C, Ok, Unsettled
<1>3. \A i : OutcomeOf(i)' = OutcomeOf(i)
  BY Zenon DEF OutcomeOf, C
<1>4. evaluate(cand, snap)' = evaluate(cand, snap)
  BY <1>1, <1>2, <1>3, Zenon DEF evaluate, Failed
<1> QED
  BY <1>1, <1>2, <1>4

\* A preparation that fails is the decision.
LEMMA FailureDecides ==
  ASSUME NEW cand, NEW snap, _prepare(snap.frozen_at) # ""
  PROVE  evaluate(cand, snap) = Failed(_prepare(snap.frozen_at))
  BY Zenon DEF evaluate

\* The invariant holds of a rulebook that is not written yet.
LEMMA InitDecision == GateInit => DecisionInv
<1> SUFFICES ASSUME GateInit PROVE DecisionInv
  OBVIOUS
<1>1. rules \in Seq({<<>>}) /\ rules # <<>>
  BY DEF GateInit
<1>2. trace \in Seq({})
  BY DEF GateInit
<1> QED
  BY <1>1, <1>2, SeqIs DEF GateInit, DecisionInv

\* Writing to the rulebook.
LEMMA RulesStep ==
  ASSUME DecisionInv, Write \/ AddRule
  PROVE  DecisionInv' /\ phase = "writing"
<1>1. phase = "writing" /\ phase' = phase /\ trace' = trace /\ result' = result
  BY DEF Write, AddRule
<1>2. IsSeq(rules') /\ rules' # <<>>
  <2>1. CASE Write
    <3>1. PICK phrase : rules' = [rules EXCEPT ![Len(rules)] = rules[Len(rules)] \o phrase]
      BY <2>1 DEF Write
    <3> QED
      BY <3>1, Changed DEF DecisionInv
  <2>2. CASE AddRule
    BY <2>2, Appended DEF AddRule, DecisionInv
  <2> QED
    BY <2>1, <2>2
<1> QED
  BY <1>1, <1>2 DEF DecisionInv, IsSeq

\* Freezing: the evidence verifies, and the preparation is the one evaluate repeats.
LEMMA FreezeStep ==
  ASSUME DecisionInv, corpus \in Corpora, Freeze
  PROVE  DecisionInv' /\ phase = "writing"
<1>1. PICK acquired \in C.acquisitions, cand \in C.candidates, frozen_at \in C.frozen :
        /\ phase = "writing"
        /\ Buildable(acquired, frozen_at)
        /\ snapshot' = build_snapshot(acquired, frozen_at)
        /\ candidate' = cand
        /\ IF _prepare(frozen_at) = "" THEN phase' = "walking" /\ result' = result
           ELSE phase' = "done" /\ result' = Failed(_prepare(frozen_at))
        /\ corpus' = corpus /\ rules' = rules /\ trace' = trace
  BY Zenon DEF Freeze
<1>2. frozen_at \in Instant
  BY EvaluationAssumption DEF C
<1>3. verify_snapshot_value(snapshot') /\ snapshot'.frozen_at = frozen_at
  BY <1>1, <1>2, BuiltVerifies
<1>4. _prepare(snapshot.frozen_at)' = _prepare(frozen_at)
  BY <1>1, <1>3, SameRules
<1>5. rules # <<>> /\ trace = <<>> /\ result = Undecided /\ IsSeq(rules) /\ IsSeq(trace)
  BY <1>1 DEF DecisionInv
<1>6. Len(trace) = 0 /\ 0 < Len(rules)
  BY <1>5, SeqIs DEF IsSeq
<1>7. CASE _prepare(frozen_at) = ""
  <2>1. phase' = "walking" /\ result' = Undecided /\ trace' = <<>>
    BY <1>1, <1>5, <1>7
  <2>2. rules' = rules /\ trace' = trace
    BY <1>1
  <2>3. Len(trace') = 0 /\ Len(trace') < Len(rules')
    BY <1>6, <2>2
  <2>4. \A i \in 1..Len(trace') : FALSE
    BY <2>3
  <2> QED
    BY <1>1, <1>2, <1>3, <1>4, <1>5, <1>7, <2>1, <2>3, <2>4 DEF DecisionInv, IsSeq
<1>8. CASE _prepare(frozen_at) # ""
  <2>1. phase' = "done" /\ result' = Failed(_prepare(frozen_at))
    BY <1>1, <1>8
  <2>2. evaluate(candidate', snapshot') = Failed(_prepare(snapshot'.frozen_at))
    BY <1>3, <1>8, FailureDecides
  <2>3. evaluate(candidate, snapshot)' = evaluate(candidate', snapshot')
    BY <1>1, SameRules
  <2> QED
    BY <1>1, <1>2, <1>3, <1>5, <2>1, <2>2, <2>3 DEF DecisionInv, IsSeq
<1> QED
  BY <1>1, <1>7, <1>8

\* A round of the walk: the first rule that holds or is unsettled decides, and so does
\* the end of the rulebook.
LEMMA WalkStep ==
  ASSUME DecisionInv, _walk
  PROVE  DecisionInv' /\ phase = "walking"
<1> DEFINE n == Len(trace) + 1
           rule == _rule_state(candidate, snapshot, n)
<1>1. /\ phase = "walking"
      /\ trace' = Append(trace, rule.state)
      /\ corpus' = corpus /\ rules' = rules /\ candidate' = candidate /\ snapshot' = snapshot
      /\ phase' = IF result' = Undecided THEN "walking" ELSE "done"
  BY DEF _walk
<1>2. result' = CASE rule.state = "true" -> [outcome |-> OutcomeOf(n), reasons |-> {"rule"}]
                  [] rule.state = "unsettled" -> [outcome |-> "HOLD", reasons |-> rule.causes]
                  [] OTHER -> IF n < Len(rules) THEN Undecided
                              ELSE [outcome |-> default_outcome, reasons |-> {"default_outcome"}]
  BY DEF _walk
<1> HIDE DEF rule
<1>3. /\ IsSeq(rules) /\ rules # <<>> /\ IsSeq(trace)
      /\ snapshot.frozen_at \in Instant /\ verify_snapshot_value(snapshot)
      /\ _prepare(snapshot.frozen_at) = "" /\ Len(trace) < Len(rules)
      /\ \A i \in 1..Len(trace) : _rule_state(candidate, snapshot, i).state \notin {"true", "unsettled"}
  BY <1>1 DEF DecisionInv
<1>4. /\ IsSeq(trace') /\ Len(trace') = n /\ Len(trace) \in Nat /\ Len(rules) \in Nat
      /\ n \in 1..Len(rules) /\ 1..(n - 1) = 1..Len(trace)
  <2>1. IsSeq(trace') /\ Len(trace') = n /\ Len(trace) \in Nat
    BY <1>1, <1>3, Appended
  <2>2. Len(rules) \in Nat
    BY <1>3, SeqIs DEF IsSeq
  <2>3. n \in 1..Len(rules) /\ n - 1 = Len(trace)
    <3>1. Len(trace) \in Nat /\ Len(trace) < Len(rules)
      BY <1>3, <2>1, Zenon
    <3> QED
      BY <2>2, <3>1
  <2>4. 1..(n - 1) = 1..Len(trace)
    BY <2>3
  <2> QED
    BY <2>1, <2>2, <2>3, <2>4, Zenon
<1> HIDE DEF n
<1>5. /\ evaluate(candidate, snapshot)' = evaluate(candidate, snapshot)
      /\ _prepare(snapshot.frozen_at)' = ""
      /\ \A i : _rule_state(candidate, snapshot, i)' = _rule_state(candidate, snapshot, i)
  BY <1>1, <1>3, SameRules
<1>6. /\ phase = "walking" /\ IsSeq(rules)' /\ rules' # <<>> /\ IsSeq(trace)'
      /\ snapshot'.frozen_at \in Instant /\ verify_snapshot_value(snapshot')
  BY <1>1, <1>3, <1>4 DEF IsSeq
<1>7. CASE rule.state \in {"true", "unsettled"}
  <2>1. evaluate(candidate, snapshot) =
          IF rule.state = "true" THEN [outcome |-> OutcomeOf(n), reasons |-> {"rule"}]
          ELSE [outcome |-> "HOLD", reasons |-> rule.causes]
    BY <1>3, <1>4, <1>7, FirstDecides DEF rule
  <2>2. result' = evaluate(candidate, snapshot) /\ result' # Undecided
    BY <1>2, <1>7, <2>1 DEF Undecided
  <2>3. phase' = "done"
    BY <1>1, <2>2
  <2> QED
    BY <1>5, <1>6, <2>2, <2>3 DEF DecisionInv
<1>8. CASE rule.state \notin {"true", "unsettled"}
  <2>1. \A i \in 1..n : _rule_state(candidate, snapshot, i).state \notin {"true", "unsettled"}
    <3>1. \A i \in 1..n : i \in 1..Len(trace) \/ i = n
      BY <1>4 DEF n
    <3> QED
      BY <1>3, <1>8, <3>1, Zenon DEF rule
  <2>2. CASE n < Len(rules)
    <3>1. result' = Undecided /\ phase' = "walking"
      BY <1>1, <1>2, <1>8, <2>2
    <3>2. Len(trace') < Len(rules')
      BY <1>1, <1>4, <2>2
    <3>3. \A i \in 1..Len(trace') : _rule_state(candidate, snapshot, i)'.state \notin {"true", "unsettled"}
      BY <1>4, <1>5, <2>1, Zenon
    <3> QED
      BY <1>5, <1>6, <3>1, <3>2, <3>3 DEF DecisionInv
  <2>3. CASE ~(n < Len(rules))
    <3>1. n = Len(rules)
      BY <1>4, <2>3
    <3>2. evaluate(candidate, snapshot) = [outcome |-> default_outcome, reasons |-> {"default_outcome"}]
      BY <1>3, <2>1, <3>1, NoneDecides
    <3>3. result' = evaluate(candidate, snapshot) /\ result' # Undecided
      BY <1>2, <1>8, <2>3, <3>2, EvaluationAssumption DEF Undecided
    <3>4. phase' = "done"
      BY <1>1, <3>3
    <3> QED
      BY <1>5, <1>6, <3>3, <3>4 DEF DecisionInv
  <2> QED
    BY <2>2, <2>3
<1> QED
  BY <1>1, <1>7, <1>8

\* Every step of the gate, none of which is left when it is done.
LEMMA DecisionStep ==
  ASSUME DecisionInv, corpus \in Corpora, GateNext
  PROVE  DecisionInv' /\ phase # "done"
  BY RulesStep, FreezeStep, WalkStep, Zenon DEF GateNext

LEMMA DecisionUnchanged ==
  ASSUME DecisionInv, UNCHANGED gateVars
  PROVE  DecisionInv'
<1>1. /\ corpus' = corpus /\ rules' = rules /\ candidate' = candidate /\ snapshot' = snapshot
      /\ trace' = trace /\ phase' = phase /\ result' = result
  BY DEF gateVars
<1>2. /\ evaluate(candidate, snapshot)' = evaluate(candidate, snapshot)
      /\ _prepare(snapshot.frozen_at)' = _prepare(snapshot.frozen_at)
      /\ \A i : _rule_state(candidate, snapshot, i)' = _rule_state(candidate, snapshot, i)
  BY <1>1, SameRules
<1> QED
  BY <1>1, <1>2 DEF DecisionInv, IsSeq

--------------------------------------------------------------------------------
(* The record                                                                   *)

LEMMA AuthorizationOf ==
  ASSUME NEW snap, NEW issued_at, NEW a, a = issue_authorization(snap, issued_at)
  PROVE  /\ DOMAIN a = {"payload", "signature"} /\ a.signature = a.payload
         /\ a.payload.action = candidate /\ a.payload.rulebook = rules /\ a.payload.evidence = snap
         /\ a.payload.issued_at = issued_at /\ a.payload.expires_at = _add_seconds(issued_at, TTL)
  BY DEF issue_authorization, Signed

\* Nothing is issued differently while the decision stands.
LEMMA SameIssued ==
  ASSUME UNCHANGED gateVars
  PROVE  /\ \A authorized, acknowledged_at, created_at :
              issue_receipt(authorized, acknowledged_at, created_at)' = issue_receipt(authorized, acknowledged_at, created_at)
         /\ \A snap, issued_at : issue_authorization(snap, issued_at)' = issue_authorization(snap, issued_at)
         /\ Allowed' = Allowed /\ phase' = phase /\ result' = result /\ candidate' = candidate /\ snapshot' = snapshot
<1>1. rules' = rules /\ phase' = phase /\ result' = result /\ candidate' = candidate /\ snapshot' = snapshot
  BY DEF gateVars
<1>2. \A authorized, acknowledged_at, created_at :
        issue_receipt(authorized, acknowledged_at, created_at)' = issue_receipt(authorized, acknowledged_at, created_at)
  BY <1>1, Zenon DEF issue_receipt, Signed
<1>3. \A snap, issued_at : issue_authorization(snap, issued_at)' = issue_authorization(snap, issued_at)
  BY <1>1, Zenon DEF issue_authorization, Signed
<1>4. Allowed' = Allowed
  BY <1>1, Zenon DEF Allowed
<1> QED
  BY <1>1, <1>2, <1>3, <1>4, Zenon

\* What was signed stays signed when only the rest of the record changes.
LEMMA ReceiptKept ==
  ASSUME ReceiptIssued, UNCHANGED gateVars, record'.receipt.signature = record.receipt.signature
  PROVE  ReceiptIssued'
<1>1. PICK created_at \in Clock :
        record.receipt.signature = IF Allowed THEN issue_receipt(TRUE, created_at, created_at).payload
                                   ELSE issue_receipt(FALSE, <<>>, created_at).payload
  BY Zenon DEF ReceiptIssued
<1>2. /\ issue_receipt(TRUE, created_at, created_at)' = issue_receipt(TRUE, created_at, created_at)
      /\ issue_receipt(FALSE, <<>>, created_at)' = issue_receipt(FALSE, <<>>, created_at)
      /\ Allowed' = Allowed
  BY SameIssued, Zenon
<1>3. record'.receipt.signature = IF Allowed' THEN issue_receipt(TRUE, created_at, created_at)'.payload
                                  ELSE issue_receipt(FALSE, <<>>, created_at)'.payload
  BY <1>1, <1>2, Zenon
<1> QED
  BY <1>3, Zenon DEF ReceiptIssued

LEMMA AuthorizationKept ==
  ASSUME AuthorizationIssued, UNCHANGED gateVars, record'.authorization = record.authorization
  PROVE  AuthorizationIssued'
  BY SameIssued DEF AuthorizationIssued

LEMMA RecordUnchanged ==
  ASSUME RecordInv, UNCHANGED gateVars, record' = record
  PROVE  RecordInv'
  BY SameIssued, ReceiptKept, AuthorizationKept DEF RecordInv

LEMMA DeclineStep ==
  ASSUME decline
  PROVE  RecordInv'
<1>1. PICK created_at \in Clock :
        record' = [kept |-> TRUE, receipt |-> issue_receipt(FALSE, <<>>, created_at), candidate |-> candidate,
                   snapshot |-> snapshot, authorization |-> <<>>]
  BY DEF decline, Keep
<1>2. /\ UNCHANGED gateVars /\ phase = "done" /\ result.outcome \in {"ALLOW", "BLOCK", "HOLD"} /\ ~Allowed
  BY DEF decline, Deciding, Allowed
<1>3. /\ record'.receipt = issue_receipt(FALSE, <<>>, created_at)
      /\ record'.candidate = candidate /\ record'.authorization = <<>>
      /\ DOMAIN record' = Files
  BY <1>1 DEF Files
<1>4. /\ DOMAIN record'.receipt = {"payload", "signature"}
      /\ record'.receipt.signature = issue_receipt(FALSE, <<>>, created_at).payload
  BY <1>3 DEF issue_receipt, Signed
<1>5. ReceiptIssued' /\ ~Allowed'
  <2>1. issue_receipt(FALSE, <<>>, created_at)' = issue_receipt(FALSE, <<>>, created_at) /\ Allowed' = Allowed
    BY <1>2, SameIssued, Zenon
  <2>2. record'.receipt.signature = issue_receipt(FALSE, <<>>, created_at)'.payload /\ ~Allowed'
    BY <1>2, <1>4, <2>1, Zenon
  <2> QED
    BY <2>2, Zenon DEF ReceiptIssued
<1> QED
  BY <1>2, <1>3, <1>4, <1>5, SameIssued DEF RecordInv

LEMMA ExecuteStep ==
  ASSUME execute
  PROVE  RecordInv'
<1>1. PICK issued_at \in Clock, verification_time \in Clock, created_at \in Clock :
        /\ _instant(issued_at) >= _instant(snapshot.frozen_at)
        /\ verify_authorization(issue_authorization(snapshot, issued_at), snapshot, result, verification_time, FALSE)
        /\ record' = [kept |-> TRUE, receipt |-> issue_receipt(TRUE, created_at, created_at), candidate |-> candidate,
                      snapshot |-> snapshot, authorization |-> issue_authorization(snapshot, issued_at)]
  BY DEF execute, Keep
<1>2. /\ UNCHANGED gateVars /\ phase = "done" /\ result.outcome \in {"ALLOW", "BLOCK", "HOLD"} /\ Allowed
  BY DEF execute, Deciding, Allowed
<1>3. /\ record'.receipt = issue_receipt(TRUE, created_at, created_at)
      /\ record'.candidate = candidate /\ record'.authorization = issue_authorization(snapshot, issued_at)
      /\ DOMAIN record' = Files
  BY <1>1 DEF Files
<1>4. /\ DOMAIN record'.receipt = {"payload", "signature"}
      /\ record'.receipt.signature = issue_receipt(TRUE, created_at, created_at).payload
  BY <1>3 DEF issue_receipt, Signed
<1>5. ReceiptIssued' /\ Allowed'
  <2>1. issue_receipt(TRUE, created_at, created_at)' = issue_receipt(TRUE, created_at, created_at) /\ Allowed' = Allowed
    BY <1>2, SameIssued, Zenon
  <2>2. record'.receipt.signature = issue_receipt(TRUE, created_at, created_at)'.payload /\ Allowed'
    BY <1>2, <1>4, <2>1, Zenon
  <2> QED
    BY <2>2, Zenon DEF ReceiptIssued
<1>6. _instant(_add_seconds(issued_at, TTL)) = _instant(issued_at) + TTL
  <2> DEFINE auth == issue_authorization(snapshot, issued_at)
  <2>1. _instant(auth.payload.expires_at) = _instant(auth.payload.issued_at) + TTL
    BY <1>1, Zenon DEF verify_authorization
  <2>2. auth.payload.expires_at = _add_seconds(issued_at, TTL) /\ auth.payload.issued_at = issued_at
    BY DEF issue_authorization, Signed
  <2> QED
    BY <2>1, <2>2, Zenon
<1>7. AuthorizationIssued'
  <2> DEFINE auth == issue_authorization(snapshot, issued_at)
  <2>1. /\ DOMAIN auth = {"payload", "signature"} /\ auth.signature = auth.payload
        /\ auth.payload.issued_at = issued_at /\ auth.payload.evidence = snapshot
    BY AuthorizationOf
  <2>2. record'.authorization = auth
    BY <1>3
  <2> HIDE DEF auth
  <2>3. issue_authorization(snapshot, issued_at)' = auth
    BY <1>2, SameIssued DEF auth
  <2> QED
    BY <1>1, <1>2, <1>6, <2>1, <2>2, <2>3, SameIssued DEF AuthorizationIssued
<1> QED
  BY <1>2, <1>3, <1>4, <1>5, <1>7, SameIssued DEF RecordInv

\* A file of the record that changed: the signatures, and the instant of issue beside
\* them, are those of the decision.
LEMMA AlterStep ==
  ASSUME RecordInv, Alter
  PROVE  RecordInv'
<1>1. /\ phase = "done" /\ result.outcome \in {"ALLOW", "BLOCK", "HOLD"}
      /\ DOMAIN record = Files /\ DOMAIN record.receipt = {"payload", "signature"}
      /\ record.candidate = candidate
  BY Zenon DEF Alter, RecordInv
<1>2. ReceiptIssued
  BY Zenon DEF Alter, RecordInv
<1>3. IF Allowed THEN AuthorizationIssued ELSE record.authorization = <<>>
  BY Zenon DEF Alter, RecordInv
<1>4. UNCHANGED gateVars
  BY Zenon DEF Alter
<1>5. Allowed' = Allowed /\ phase' = phase /\ result' = result /\ candidate' = candidate
  BY <1>4, SameIssued, Zenon
<1>6. ASSUME DOMAIN record' = Files, DOMAIN record'.receipt = {"payload", "signature"},
             record'.candidate = candidate, record'.receipt.signature = record.receipt.signature,
             IF Allowed THEN AuthorizationIssued' ELSE record'.authorization = <<>>
      PROVE  RecordInv'
  <2>1. ReceiptIssued'
    BY <1>2, <1>4, <1>6, ReceiptKept
  <2> QED
    BY <1>1, <1>5, <1>6, <2>1, Zenon DEF RecordInv
<1>7. ASSUME NEW snap, record' = [record EXCEPT !.snapshot = snap]
      PROVE  RecordInv'
  <2>1. /\ record'.receipt = record.receipt /\ record'.authorization = record.authorization
        /\ record'.candidate = candidate /\ DOMAIN record' = Files
    BY <1>1, <1>7 DEF Files
  <2>2. IF Allowed THEN AuthorizationIssued' ELSE record'.authorization = <<>>
    BY <1>3, <1>4, <2>1, AuthorizationKept
  <2> QED
    BY <1>1, <1>6, <2>1, <2>2, Zenon
<1>8. ASSUME NEW outcome, record' = [record EXCEPT !.receipt.payload.result.outcome = outcome]
      PROVE  RecordInv'
  <2>1. /\ record'.authorization = record.authorization
        /\ record'.candidate = candidate /\ DOMAIN record' = Files
    BY <1>1, <1>8 DEF Files
  <2>2. /\ record'.receipt.signature = record.receipt.signature
        /\ DOMAIN record'.receipt = {"payload", "signature"}
    BY <1>1, <1>8 DEF Files
  <2>3. IF Allowed THEN AuthorizationIssued' ELSE record'.authorization = <<>>
    BY <1>3, <1>4, <2>1, AuthorizationKept
  <2> QED
    BY <1>6, <2>1, <2>2, <2>3, Zenon
<1>9. ASSUME NEW a, record' = [record EXCEPT !.authorization = a], Allowed,
             DOMAIN a = {"payload", "signature"},
             a.payload.issued_at = record.authorization.payload.issued_at,
             a.signature = issue_authorization(a.signature.evidence, a.payload.issued_at).payload
      PROVE  RecordInv'
  <2>1. /\ record'.receipt = record.receipt /\ record'.authorization = a
        /\ record'.candidate = candidate /\ DOMAIN record' = Files
    BY <1>1, <1>9 DEF Files
  <2>2. AuthorizationIssued
    BY <1>3, <1>9
  <2>3. issue_authorization(a.signature.evidence, a.payload.issued_at)'
          = issue_authorization(a.signature.evidence, a.payload.issued_at)
    BY <1>4, SameIssued, Zenon
  <2>4. snapshot' = snapshot
    BY <1>4, SameIssued, Zenon
  <2>5. AuthorizationIssued'
    BY <1>9, <2>1, <2>2, <2>3, <2>4 DEF AuthorizationIssued
  <2> QED
    BY <1>1, <1>6, <1>9, <2>1, <2>5, Zenon
<1>10. CASE record.receipt.payload.authorized /\ \E snap \in Alternatives, later \in Clock :
               record' \in {[record EXCEPT !.authorization = issue_authorization(snap, @.payload.issued_at)],
                            [record EXCEPT !.authorization.payload.expires_at = later]}
  <2>1. Allowed
    <3>1. PICK created_at \in Clock :
            record.receipt.signature = IF Allowed THEN issue_receipt(TRUE, created_at, created_at).payload
                                       ELSE issue_receipt(FALSE, <<>>, created_at).payload
      BY <1>2, Zenon DEF ReceiptIssued
    <3>2. record.receipt.signature.authorized
      BY <1>10 DEF Alter, Untouched
    <3>3. issue_receipt(FALSE, <<>>, created_at).payload.authorized = FALSE
      BY DEF issue_receipt, Signed
    <3> QED
      BY <3>1, <3>2, <3>3
  <2>2. AuthorizationIssued
    BY <1>3, <2>1
  <2> DEFINE b == record.authorization
             issued_at == b.payload.issued_at
  <2>3. /\ DOMAIN b = {"payload", "signature"}
        /\ b.signature = issue_authorization(b.signature.evidence, issued_at).payload
    BY <2>2 DEF AuthorizationIssued
  <2>4. b.signature = b.payload
    <3>1. b # <<>>
      BY <2>3
    <3> QED
      BY <3>1 DEF Alter, Untouched
  <2>5. CASE \E snap : record' = [record EXCEPT !.authorization = issue_authorization(snap, @.payload.issued_at)]
    <3>1. PICK snap : record' = [record EXCEPT !.authorization = issue_authorization(snap, issued_at)]
      BY <2>5
    <3> DEFINE a == issue_authorization(snap, issued_at)
    <3>2. /\ DOMAIN a = {"payload", "signature"}
          /\ a.payload.issued_at = issued_at /\ a.signature = a.payload /\ a.signature.evidence = snap
      BY DEF issue_authorization, Signed
    <3>3. a.signature = issue_authorization(a.signature.evidence, a.payload.issued_at).payload
      BY <3>2
    <3>4. record' = [record EXCEPT !.authorization = a]
      BY <3>1
    <3> HIDE DEF a
    <3> QED
      BY <1>9, <2>1, <3>2, <3>3, <3>4
  <2>6. CASE \E later : record' = [record EXCEPT !.authorization.payload.expires_at = later]
    <3>1. PICK later : record' = [record EXCEPT !.authorization.payload.expires_at = later]
      BY <2>6
    <3> DEFINE a == [b EXCEPT !.payload.expires_at = later]
    <3>2. record' = [record EXCEPT !.authorization = a]
      BY <3>1
    <3>3. "issued_at" \in DOMAIN b.payload
      <4>1. b.payload = issue_authorization(b.signature.evidence, issued_at).payload
        BY <2>3, <2>4
      <4> QED
        BY <4>1 DEF issue_authorization, Signed
    <3>4. /\ DOMAIN a = {"payload", "signature"}
          /\ a.payload.issued_at = issued_at /\ a.signature = b.signature
      BY <2>3, <3>3
    <3>5. a.signature = issue_authorization(a.signature.evidence, a.payload.issued_at).payload
      BY <2>3, <3>4
    <3> HIDE DEF a
    <3> QED
      BY <1>9, <2>1, <3>2, <3>4, <3>5
  <2> QED
    BY <1>10, <2>5, <2>6
<1> QED
  BY <1>7, <1>8, <1>10, Zenon DEF Alter

LEMMA RecordStep ==
  ASSUME DecisionInv, RecordInv, corpus \in Corpora, ReceiptNext
  PROVE  RecordInv'
<1>1. ASSUME GateNext, UNCHANGED receiptVars PROVE RecordInv'
  <2>1. ~record.kept /\ record' = record
    BY <1>1, DecisionStep DEF RecordInv, receiptVars
  <2> QED
    BY <2>1 DEF RecordInv
<1>2. ASSUME Rotate \/ replay PROVE RecordInv'
  <2>1. UNCHANGED gateVars /\ record' = record
    BY <1>2 DEF Rotate, replay
  <2> QED
    BY <2>1, RecordUnchanged
<1> QED
  BY <1>1, <1>2, DeclineStep, ExecuteStep, AlterStep, Zenon DEF ReceiptNext

\* The record is kept through every alteration, and the trust file keeps its keys.
LEMMA ReceiptTypeStep ==
  ASSUME ReceiptTypeOK, RecordInv, ReceiptNext
  PROVE  ReceiptTypeOK'
<1>1. ASSUME GateNext, UNCHANGED receiptVars PROVE ReceiptTypeOK'
  <2>1. phase' \in {"writing", "walking", "done"} /\ corpus' = corpus
    BY <1>1 DEF GateNext, Write, AddRule, Freeze, _walk, ReceiptTypeOK
  <2> QED
    BY <1>1, <2>1 DEF ReceiptTypeOK, receiptVars
<1>2. ASSUME decline \/ execute PROVE ReceiptTypeOK'
  <2>1. record'.kept = TRUE /\ UNCHANGED <<gateVars, trust, report>>
    <3>1. (\E r, auth : Keep(r, auth)) /\ UNCHANGED <<gateVars, trust, report>>
      BY <1>2, Zenon DEF decline, execute
    <3> QED
      BY <3>1 DEF Keep
  <2> QED
    BY <2>1 DEF ReceiptTypeOK, gateVars
<1>3. ASSUME Rotate PROVE ReceiptTypeOK'
  <2>1. PICK key \in {"receipt", "authorization"}, status \in Status :
          trust' = [trust EXCEPT ![key] = status] /\ report' = Unkept /\ UNCHANGED <<gateVars, record>>
    BY <1>3, Zenon DEF Rotate
  <2>2. trust' \in [{"receipt", "authorization"} -> Status]
    BY <2>1 DEF ReceiptTypeOK
  <2>3. phase' = phase /\ corpus' = corpus /\ record' = record /\ report'.kept = FALSE
    BY <2>1 DEF gateVars, Unkept
  <2> QED
    BY <2>2, <2>3 DEF ReceiptTypeOK
<1>4. ASSUME Alter PROVE ReceiptTypeOK'
  <2>1. "kept" \in DOMAIN record /\ record.kept
    BY <1>4 DEF Alter, RecordInv, Files
  <2>2. record'.kept
    BY <1>4, <2>1 DEF Alter
  <2>3. UNCHANGED <<gateVars, trust>> /\ report'.kept = FALSE
    BY <1>4 DEF Alter, Unkept
  <2> QED
    BY <2>2, <2>3 DEF ReceiptTypeOK, gateVars
<1>5. ASSUME replay PROVE ReceiptTypeOK'
  <2>1. report'.kept = TRUE /\ UNCHANGED <<gateVars, trust, record>>
    BY <1>5 DEF replay
  <2> QED
    BY <2>1 DEF ReceiptTypeOK, gateVars
<1> QED
  BY <1>1, <1>2, <1>3, <1>4, <1>5, Zenon DEF ReceiptNext

--------------------------------------------------------------------------------
(* The replay                                                                   *)

\* A replay reads the rulebook, the candidate, the trust file and the record.
LEMMA SameReplay ==
  ASSUME corpus' = corpus, rules' = rules, candidate' = candidate, trust' = trust, NEW s
  PROVE  /\ replay_receipt(s)' <=> replay_receipt(s)
         /\ timeline_anomalies(s)' = timeline_anomalies(s)
<1>1. \A cand, snap : evaluate(cand, snap)' = evaluate(cand, snap)
  BY SameRules
<1>2. \A key, historical : check_key_status(key, historical)' <=> check_key_status(key, historical)
  BY Zenon DEF check_key_status
<1>3. verify_receipt(s.receipt)' <=> verify_receipt(s.receipt)
  BY <1>2, Zenon DEF verify_receipt
<1>4. verify_authorization(s.authorization, s.snapshot, s.receipt.payload.result, <<>>, TRUE)'
        <=> verify_authorization(s.authorization, s.snapshot, s.receipt.payload.result, <<>>, TRUE)
  BY <1>1, <1>2, Zenon DEF verify_authorization
<1>5. replay_receipt(s)' <=> replay_receipt(s)
  BY <1>1, <1>3, <1>4, Zenon DEF replay_receipt
<1>6. timeline_anomalies(s)' = timeline_anomalies(s)
  BY Zenon DEF timeline_anomalies
<1> QED
  BY <1>5, <1>6

LEMMA ReportUnchanged ==
  ASSUME ReportInv, UNCHANGED <<gateVars, receiptVars>>
  PROVE  ReportInv'
<1>1. /\ corpus' = corpus /\ rules' = rules /\ candidate' = candidate /\ trust' = trust
      /\ record' = record /\ report' = report
  BY DEF gateVars, receiptVars
<1>2. /\ replay_receipt(record)' <=> replay_receipt(record)
      /\ timeline_anomalies(record)' = timeline_anomalies(record)
  BY <1>1, SameReplay
<1> QED
  BY <1>1, <1>2, Zenon DEF ReportInv

LEMMA ReportStep ==
  ASSUME DecisionInv, RecordInv, ReportInv, corpus \in Corpora, ReceiptNext
  PROVE  ReportInv'
<1>1. ASSUME GateNext, UNCHANGED receiptVars PROVE ReportInv'
  <2>1. ~report.kept /\ report' = report
    BY <1>1, DecisionStep DEF RecordInv, ReportInv, receiptVars
  <2> QED
    BY <2>1 DEF ReportInv
<1>2. ASSUME decline \/ execute PROVE ReportInv'
  <2>1. ~report.kept /\ report' = report
    BY <1>2 DEF decline, execute, Deciding, ReportInv
  <2> QED
    BY <2>1 DEF ReportInv
<1>3. ASSUME Rotate \/ Alter PROVE ReportInv'
  BY <1>3 DEF Rotate, Alter, Unkept, ReportInv
<1>4. ASSUME replay PROVE ReportInv'
  <2>1. /\ report' = [kept |-> TRUE, replayed |-> replay_receipt(record),
                      authorized |-> record.receipt.payload.authorized, anomalies |-> timeline_anomalies(record)]
        /\ corpus' = corpus /\ rules' = rules /\ candidate' = candidate /\ trust' = trust
        /\ record' = record /\ record.kept
    BY <1>4 DEF replay, gateVars
  <2>2. /\ replay_receipt(record)' <=> replay_receipt(record)
        /\ timeline_anomalies(record)' = timeline_anomalies(record)
    BY <2>1, SameReplay
  <2>3. /\ report'.replayed <=> replay_receipt(record)
        /\ report'.authorized = record.receipt.payload.authorized /\ report'.anomalies = timeline_anomalies(record)
    BY <2>1
  <2> QED
    BY <2>1, <2>2, <2>3, Zenon DEF ReportInv
<1> QED
  BY <1>1, <1>2, <1>3, <1>4, Zenon DEF ReceiptNext

--------------------------------------------------------------------------------
(* The theorems                                                                 *)

LEMMA ReceiptStep == ReceiptInv /\ [ReceiptNext]_<<gateVars, receiptVars>> => ReceiptInv'
<1>1. ASSUME ReceiptInv, ReceiptNext PROVE ReceiptInv'
  <2>1. corpus \in Corpora
    BY <1>1 DEF ReceiptInv, ReceiptTypeOK
  <2>2. DecisionInv'
    <3>1. GateNext \/ UNCHANGED gateVars
      BY <1>1, Zenon DEF ReceiptNext, decline, execute, Rotate, Alter, replay
    <3> QED
      BY <1>1, <2>1, <3>1, DecisionStep, DecisionUnchanged, Zenon DEF ReceiptInv
  <2> QED
    BY <1>1, <2>1, <2>2, RecordStep, ReportStep, ReceiptTypeStep, Zenon DEF ReceiptInv
<1>2. ASSUME ReceiptInv, UNCHANGED <<gateVars, receiptVars>> PROVE ReceiptInv'
  <2>1. UNCHANGED gateVars /\ trust' = trust /\ record' = record /\ report' = report
    BY <1>2 DEF receiptVars
  <2>2. ReceiptTypeOK'
    BY <1>2, <2>1 DEF ReceiptInv, ReceiptTypeOK, gateVars
  <2> QED
    BY <1>2, <2>1, <2>2, DecisionUnchanged, RecordUnchanged, ReportUnchanged, Zenon DEF ReceiptInv
<1> QED
  BY <1>1, <1>2

\* The invariant holds of every reachable state of the gate and of its record.
THEOREM ReceiptInvariant == ReceiptSpec => []ReceiptInv
<1>1. ReceiptInit => ReceiptInv
  <2> SUFFICES ASSUME ReceiptInit PROVE ReceiptInv
    OBVIOUS
  <2>1. DecisionInv
    BY InitDecision DEF ReceiptInit
  <2>2. ReceiptTypeOK
    BY DEF ReceiptInit, GateInit, ReceiptTypeOK, Status, Unkept
  <2> QED
    BY <2>1, <2>2 DEF ReceiptInit, ReceiptInv, RecordInv, ReportInv, Unkept
<1> QED
  BY <1>1, ReceiptStep, PTL DEF ReceiptSpec

\* What the signature of a record was made over.
LEMMA SignedOver ==
  ASSUME RecordInv, record.kept
  PROVE  \E created_at \in Clock :
           LET r == record.receipt.signature IN
           /\ r.candidate = candidate /\ r.evidence = snapshot /\ r.result = result
           /\ r.rulebook = rules /\ r.created_at = created_at
           /\ r.authorized <=> Allowed
           /\ r.acknowledged_at = IF Allowed THEN created_at ELSE <<>>
<1>1. PICK created_at \in Clock :
        record.receipt.signature = IF Allowed THEN issue_receipt(TRUE, created_at, created_at).payload
                                   ELSE issue_receipt(FALSE, <<>>, created_at).payload
  BY Zenon DEF RecordInv, ReceiptIssued
<1>2. CASE Allowed
  BY <1>1, <1>2 DEF issue_receipt, Signed
<1>3. CASE ~Allowed
  BY <1>1, <1>3 DEF issue_receipt, Signed
<1> QED
  BY <1>2, <1>3

\* A record that was stored replays for ever: after its authorization has expired and its
\* keys were retired, and although the clock went back before the receipt was dated, which
\* is reported and refuses nothing (replay_receipt, verify_authorization).
THEOREM StoredRecordsReplay == ReceiptSpec => []EveryRecordReplays
<1>1. ASSUME ReceiptInv PROVE EveryRecordReplays
  <2> SUFFICES ASSUME report.kept, Untouched, \A key \in DOMAIN trust : trust[key] # "revoked"
               PROVE  /\ report.replayed
                      /\ (report.anomalies # {}) <=>
                           \/ _instant(record.receipt.payload.created_at) < _instant(snapshot.frozen_at)
                           \/ /\ report.authorized
                              /\ _instant(record.receipt.payload.created_at) < _instant(record.authorization.payload.issued_at)
    BY Zenon DEF EveryRecordReplays
  <2> DEFINE r == record.receipt.payload
             a == record.authorization
  <2>1. /\ record.kept /\ (report.replayed <=> replay_receipt(record))
        /\ report.authorized = r.authorized /\ report.anomalies = timeline_anomalies(record)
    BY <1>1, Zenon DEF ReceiptInv, ReportInv
  <2>2. /\ record.candidate = candidate /\ record.snapshot = snapshot /\ record.receipt.signature = r
    BY Zenon DEF Untouched
  <2>3. PICK created_at \in Clock :
          /\ r.candidate = candidate /\ r.evidence = snapshot /\ r.result = result
          /\ r.rulebook = rules /\ r.created_at = created_at
          /\ r.authorized <=> Allowed
          /\ r.acknowledged_at = IF Allowed THEN created_at ELSE <<>>
    BY <1>1, <2>1, <2>2, SignedOver, Zenon DEF ReceiptInv
  <2>4. /\ phase = "done" /\ result.outcome \in {"ALLOW", "BLOCK", "HOLD"}
        /\ IF Allowed THEN AuthorizationIssued ELSE a = <<>>
    BY <1>1, <2>1, Zenon DEF ReceiptInv, RecordInv
  <2>5. /\ result = evaluate(candidate, snapshot) /\ verify_snapshot_value(snapshot)
        /\ snapshot.frozen_at \in Instant
    BY <1>1, <2>4 DEF ReceiptInv, DecisionInv
  <2>6. \A key \in {"receipt", "authorization"} : check_key_status(key, TRUE)
    BY <1>1 DEF ReceiptInv, ReceiptTypeOK, check_key_status
  <2>7. Allowed => /\ a.signature = a.payload /\ a.payload.action = candidate /\ a.payload.rulebook = rules
                   /\ a.payload.evidence = snapshot /\ a.payload.issued_at \in Clock
                   /\ _instant(a.payload.issued_at) >= _instant(snapshot.frozen_at)
                   /\ _instant(a.payload.expires_at) = _instant(a.payload.issued_at) + TTL
    <3> SUFFICES ASSUME Allowed PROVE /\ a.signature = a.payload /\ a.payload.action = candidate /\ a.payload.rulebook = rules
                   /\ a.payload.evidence = snapshot /\ a.payload.issued_at \in Clock
                   /\ _instant(a.payload.issued_at) >= _instant(snapshot.frozen_at)
                   /\ _instant(a.payload.expires_at) = _instant(a.payload.issued_at) + TTL
      OBVIOUS
    <3>1. AuthorizationIssued
      BY <2>4
    <3>2. a # <<>>
      BY <3>1 DEF AuthorizationIssued
    <3>3. a.signature = a.payload /\ a.payload.evidence = snapshot
      BY <3>2, Zenon DEF Untouched
    <3>4. a.payload = issue_authorization(snapshot, a.payload.issued_at).payload
      BY <3>1, <3>3 DEF AuthorizationIssued
    <3>5. /\ a.payload.action = candidate /\ a.payload.rulebook = rules
          /\ a.payload.expires_at = _add_seconds(a.payload.issued_at, TTL)
      BY <3>4 DEF issue_authorization, Signed
    <3> QED
      BY <3>1, <3>3, <3>5 DEF AuthorizationIssued
  <2>8. verify_receipt(record.receipt)
    BY <2>2, <2>3, <2>4, <2>6 DEF verify_receipt, Allowed
  <2>9. Allowed => verify_authorization(a, snapshot, result, <<>>, TRUE)
    <3> SUFFICES ASSUME Allowed PROVE verify_authorization(a, snapshot, result, <<>>, TRUE)
      OBVIOUS
    <3>1. _instant(a.payload.issued_at) \in Int
      BY <2>7, InstantIsInt, ReceiptAssumption
    <3>2. _instant(a.payload.expires_at) > _instant(a.payload.issued_at)
      BY <2>7, <3>1, ReceiptAssumption
    <3> QED
      BY <2>5, <2>6, <2>7, <3>2, Zenon DEF verify_authorization, Allowed
  <2>10. replay_receipt(record)
    BY <2>2, <2>3, <2>5, <2>7, <2>8, <2>9, Zenon DEF replay_receipt
  <2>11. (timeline_anomalies(record) # {}) <=>
           \/ _instant(r.created_at) < _instant(snapshot.frozen_at)
           \/ r.authorized /\ _instant(r.created_at) < _instant(a.payload.issued_at)
    <3>1. created_at # <<>> /\ _instant(created_at) \in Int
      BY InstantIsInt, ReceiptAssumption
    <3>2. snapshot.frozen_at # <<>>
      BY <2>5, InstantIsInt
    <3>3. CASE Allowed
      <4>1. a.payload.issued_at # <<>>
        BY <2>7, <3>3, InstantIsInt, ReceiptAssumption
      <4>2. timeline_anomalies(record) # {} <=>
              \/ Earlier(created_at, a.payload.issued_at) \/ Earlier(created_at, snapshot.frozen_at)
              \/ Earlier(created_at, created_at)
        <5> DEFINE pairs == {<<created_at, a.payload.issued_at>>, <<created_at, snapshot.frozen_at>>, <<created_at, created_at>>}
        <5>1. timeline_anomalies(record) = {pair \in pairs : Earlier(pair[1], pair[2])}
          BY <2>2, <2>3, <3>3 DEF timeline_anomalies
        <5>2. (\E pair \in pairs : Earlier(pair[1], pair[2])) <=>
                \/ Earlier(created_at, a.payload.issued_at) \/ Earlier(created_at, snapshot.frozen_at)
                \/ Earlier(created_at, created_at)
          OBVIOUS
        <5> HIDE DEF pairs
        <5> QED
          BY <5>1, <5>2
      <4>3. /\ Earlier(created_at, a.payload.issued_at) <=> _instant(created_at) < _instant(a.payload.issued_at)
            /\ Earlier(created_at, snapshot.frozen_at) <=> _instant(created_at) < _instant(snapshot.frozen_at)
            /\ ~Earlier(created_at, created_at)
        BY <3>1, <3>2, <4>1 DEF Earlier
      <4> QED
        BY <2>3, <3>3, <4>2, <4>3, Zenon
    <3>4. CASE ~Allowed
      <4>1. timeline_anomalies(record) # {} <=>
              \/ Earlier(created_at, <<>>) \/ Earlier(created_at, snapshot.frozen_at)
              \/ Earlier(<<>>, <<>>) \/ Earlier(<<>>, snapshot.frozen_at) \/ Earlier(<<>>, created_at)
        <5> DEFINE none == <<>>
                   pairs == {<<created_at, none>>, <<created_at, snapshot.frozen_at>>, <<none, none>>,
                             <<none, snapshot.frozen_at>>, <<none, created_at>>}
        <5>1. timeline_anomalies(record) = {pair \in pairs : Earlier(pair[1], pair[2])}
          BY <2>2, <2>3, <3>4 DEF timeline_anomalies
        <5> HIDE DEF none
        <5>2. (\E pair \in pairs : Earlier(pair[1], pair[2])) <=>
                \/ Earlier(created_at, none) \/ Earlier(created_at, snapshot.frozen_at)
                \/ Earlier(none, none) \/ Earlier(none, snapshot.frozen_at) \/ Earlier(none, created_at)
          OBVIOUS
        <5> HIDE DEF pairs
        <5>3. timeline_anomalies(record) # {} <=> \E pair \in pairs : Earlier(pair[1], pair[2])
          BY <5>1
        <5> QED
          BY <5>2, <5>3, Zenon DEF none
      <4>2. /\ Earlier(created_at, snapshot.frozen_at) <=> _instant(created_at) < _instant(snapshot.frozen_at)
            /\ \A other : ~Earlier(<<>>, other) /\ ~Earlier(other, <<>>)
        BY <3>1, <3>2 DEF Earlier
      <4> QED
        BY <2>3, <3>4, <4>1, <4>2, Zenon
    <3> QED
      BY <3>3, <3>4
  <2> QED
    BY <2>1, <2>10, <2>11, Zenon
<1> QED
  BY <1>1, ReceiptInvariant, PTL

\* What replays is what was decided: the bodies are those the gate had, the result is the
\* one it gave, and the authorization beside an ALLOW is one for that decision and of the
\* rulebook's time to live (replay_receipt).
THEOREM ReplayProvesTheDecision == ReceiptSpec => []ReplayedIsDecided
<1>1. ASSUME ReceiptInv PROVE ReplayedIsDecided
  <2> SUFFICES ASSUME report.kept, report.replayed
               PROVE  /\ record.candidate = candidate /\ record.snapshot = snapshot
                      /\ record.receipt.payload.result = result
                      /\ trust["receipt"] # "revoked"
                      /\ result.outcome = "ALLOW" =>
                           /\ trust["authorization"] # "revoked"
                           /\ record.authorization.payload.evidence = snapshot
                           /\ _instant(record.authorization.payload.expires_at)
                                = _instant(record.authorization.payload.issued_at) + TTL
    BY Zenon DEF ReplayedIsDecided
  <2> DEFINE r == record.receipt.payload
             a == record.authorization
  <2>1. record.kept /\ replay_receipt(record)
    BY <1>1, Zenon DEF ReceiptInv, ReportInv
  <2>2. record.receipt.signature = r /\ trust["receipt"] # "revoked"
    BY <2>1, Zenon DEF replay_receipt, verify_receipt, check_key_status
  <2>3. r.candidate = candidate /\ r.evidence = snapshot /\ r.result = result /\ (r.authorized <=> Allowed)
    BY <1>1, <2>1, <2>2, SignedOver, Zenon DEF ReceiptInv
  <2>4. record.candidate = candidate /\ record.snapshot = snapshot
    BY <2>1, <2>3, Zenon DEF replay_receipt
  <2>5. ASSUME Allowed
        PROVE  /\ trust["authorization"] # "revoked"
               /\ a.payload.evidence = snapshot
               /\ _instant(a.payload.expires_at) = _instant(a.payload.issued_at) + TTL
    <3>1. a.payload.evidence = r.evidence /\ verify_authorization(a, record.snapshot, r.result, <<>>, TRUE)
      BY <2>1, <2>3, <2>5, Zenon DEF replay_receipt
    <3> QED
      BY <2>3, <3>1, Zenon DEF verify_authorization, check_key_status
  <2> QED
    BY <2>2, <2>3, <2>4, <2>5, Zenon DEF Allowed
<1> QED
  BY <1>1, ReceiptInvariant, PTL
================================================================================

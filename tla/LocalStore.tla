------------------------------- MODULE LocalStore -------------------------------
(***************************************************************************)
(* LocalStore.put_record and preserve_unrecorded (vfy/store.py): how one   *)
(* record becomes committed in a store root that several processes share.  *)
(* A step is one file-system call: exclusive mkdir of the staging          *)
(* directory, one file write, one rename.  The rename of the receipt file  *)
(* is the commit point.  The index is kept here as the set of ids its last *)
(* publication named; module IndexCache has the steps of its publication.  *)
(*                                                                         *)
(* A directory is a map from file names to bytes, None meaning that there  *)
(* is no such file.  Bytes are compared, never parsed; the ones in Large   *)
(* are over MAX_RECEIPT_BYTES.                                             *)
(***************************************************************************)
EXTENDS Naturals

CONSTANTS
  Writer,      \* calls of put_record or preserve_unrecorded; a retry is a new one
  Id,          \* receipt ids
  Bytes,       \* contents of files
  Large,       \* the contents no read of the store accepts
  Allowing,    \* the receipts whose outcome is ALLOW
  Naming,      \* the receipts that have an authorization_id
  Record,      \* what a caller may ask to store
  LateInterrupts,  \* whether a KeyboardInterrupt may arrive in a try block after its rename
  Faults,      \* whether a file-system call may raise OSError
  None,        \* no directory entry, no record
  Empty        \* a file created and not yet written

BodyNames == {"rulebook", "candidate", "snapshot", "authorization"}
FileNames == BodyNames \union {"receipt"}

ASSUME StoreAssumption ==
  /\ Record \subseteq [id : Id, receipt : Bytes, body : Bytes,
                       authorization : Bytes \union {None}]
  /\ Large \subseteq Bytes
  /\ Allowing \subseteq Bytes
  /\ Naming \subseteq Bytes
  /\ None \notin Bytes \union Record \union Writer \union [FileNames -> Bytes \union {None}]
  /\ Empty \notin Bytes
  /\ LateInterrupts \in BOOLEAN
  /\ Faults \in BOOLEAN

VARIABLES
  pc, verdict,
  rec,         \* the record each call was handed
  written,     \* the staged files it has written so far
  listing,     \* the ids its scan of receipts/ found
  receipts,    \* receipts/<id>.json
  inputs,      \* receipts/<id>.inputs/
  staging,     \* tmp/<id>.staging/
  lifted,      \* tmp/<id>.json.staged
  index,       \* index.json
  account,     \* the content of the file each preserving call created
  partial,     \* tmp/<id>.unrecorded.json.partial
  unrecorded   \* tmp/<id>.unrecorded.json

recordVars == <<receipts, inputs, staging, lifted>>
keepVars   == <<account, partial, unrecorded>>
vars == <<pc, verdict, rec, written, listing, recordVars, index, keepVars>>

Dir == [FileNames -> Bytes \union {None}]
EmptyDir == [f \in FileNames |-> None]

id(w) == rec[w].id

\* _bodies: an authorization is stored with an ALLOW record only, and only when the
\* caller hands one in.
AlwaysStored == {"rulebook", "candidate", "snapshot"}
bodies(r) ==
  IF r.receipt \in Allowing /\ r.authorization # None THEN BodyNames ELSE AlwaysStored

\* get_record asks the receipt on disk which bodies there must be.
required(receipt) == IF receipt \in Allowing \intersect Naming THEN BodyNames ELSE AlwaysStored

Content(r, f) ==
  CASE f = "receipt" -> r.receipt
    [] f = "authorization" -> r.authorization
    [] OTHER -> r.body

committed(i) == receipts[i] # None

Staging  == {"write", "readback", "inputs", "lift", "place"}
PutSteps == {"exists", "mkdir", "compare", "commit", "scan", "publish", "reload"}
              \union Staging
KeepSteps == {"look", "partial", "fill", "replace", "replaced"}
Verdicts == {"none", "stored", "preserved", "record_conflict", "commit_conflict",
             "missing", "incomplete", "noncanonical", "path_invalid", "os_error", "interrupted", "crashed"}

TypeOK ==
  /\ pc \in [Writer -> PutSteps \union KeepSteps \union {"idle", "done"}]
  /\ verdict \in [Writer -> Verdicts]
  /\ rec \in [Writer -> Record \union {None}]
  /\ written \in [Writer -> SUBSET FileNames]
  /\ listing \in [Writer -> SUBSET Id]
  /\ receipts \in [Id -> Bytes \union {None}]
  /\ inputs \in [Id -> Dir \union {None}]
  /\ staging \in [Id -> Dir \union {None}]
  /\ lifted \in [Id -> Bytes \union {None}]
  /\ index \in SUBSET Id
  /\ account \in [Writer -> Bytes \union {Empty}]
  /\ partial \in [Id -> Writer \union {None}]
  /\ unrecorded \in [Id -> Writer \union {None}]

Init ==
  /\ pc = [w \in Writer |-> "idle"]
  /\ verdict = [w \in Writer |-> "none"]
  /\ rec = [w \in Writer |-> None]
  /\ written = [w \in Writer |-> {}]
  /\ listing = [w \in Writer |-> {}]
  /\ receipts = [i \in Id |-> None]
  /\ inputs = [i \in Id |-> None]
  /\ staging = [i \in Id |-> None]
  /\ lifted = [i \in Id |-> None]
  /\ index = {}
  /\ account = [w \in Writer |-> Empty]
  /\ partial = [i \in Id |-> None]
  /\ unrecorded = [i \in Id |-> None]

Goto(w, from, to) == pc[w] = from /\ pc' = [pc EXCEPT ![w] = to]
Return(w, from, v) == Goto(w, from, "done") /\ verdict' = [verdict EXCEPT ![w] = v]
Refuse(w, v) ==
  pc' = [pc EXCEPT ![w] = "done"] /\ verdict' = [verdict EXCEPT ![w] = v]

--------------------------------------------------------------------------------
(* put_record                                                                   *)

\* _bodies refuses an authorization handed in with a negative decision.
PutCall(w) ==
  /\ pc[w] = "idle"
  /\ \E r \in Record :
       /\ rec' = [rec EXCEPT ![w] = r]
       /\ IF r.receipt \notin Allowing /\ r.authorization # None
            THEN Refuse(w, "record_conflict")
            ELSE pc' = [pc EXCEPT ![w] = "exists"] /\ UNCHANGED verdict
  /\ UNCHANGED <<written, listing, recordVars, index, keepVars>>

LookForReceipt(w) ==
  /\ Goto(w, "exists", IF committed(id(w)) THEN "compare" ELSE "mkdir")
  /\ UNCHANGED <<verdict, rec, written, listing, recordVars, index, keepVars>>

\* Exclusive creation: an existing staging directory is never taken over.
Mkdir(w) ==
  /\ Goto(w, "mkdir", "write")
  /\ staging[id(w)] = None
  /\ staging' = [staging EXCEPT ![id(w)] = EmptyDir]
  /\ UNCHANGED <<verdict, rec, written, listing, receipts, inputs, lifted, index, keepVars>>

MkdirRetries(w) == pc[w] = "mkdir" /\ staging[id(w)] # None /\ UNCHANGED vars
MkdirExists(w) ==
  /\ Return(w, "mkdir", "commit_conflict")
  /\ staging[id(w)] # None
  /\ UNCHANGED <<rec, written, listing, recordVars, index, keepVars>>

\* The bodies one by one, then the receipt.
WriteStaged(w) ==
  /\ pc[w] = "write"
  /\ staging[id(w)] # None
  /\ \E f \in FileNames :
       /\ f \in IF bodies(rec[w]) \subseteq written[w] THEN {"receipt"}
                ELSE bodies(rec[w]) \ written[w]
       /\ staging' = [staging EXCEPT ![id(w)][f] = Content(rec[w], f)]
       /\ written' = [written EXCEPT ![w] = @ \union {f}]
       /\ pc' = [pc EXCEPT ![w] = IF f = "receipt" THEN "readback" ELSE "write"]
  /\ UNCHANGED <<verdict, rec, listing, receipts, inputs, lifted, index, keepVars>>

\* The staged bodies are read back and compared.
ReadBack(w) ==
  /\ pc[w] = "readback"
  /\ staging[id(w)] # None
  /\ IF \A f \in bodies(rec[w]) : staging[id(w)][f] = Content(rec[w], f)
       THEN Goto(w, "readback", "inputs") /\ UNCHANGED verdict
       ELSE Return(w, "readback", "commit_conflict")
  /\ UNCHANGED <<rec, written, listing, recordVars, index, keepVars>>

\* An inputs directory in the way ends the commit; the staging directory stays.
LookForInputs(w) ==
  /\ pc[w] = "inputs"
  /\ IF inputs[id(w)] = None
       THEN Goto(w, "inputs", "lift") /\ UNCHANGED verdict
       ELSE Return(w, "inputs", "commit_conflict")
  /\ UNCHANGED <<rec, written, listing, recordVars, index, keepVars>>

\* rename: staging/receipt.json to tmp/<id>.json.staged, replacing what is there.
CommitReceiptFirst(w) ==
  /\ Goto(w, "lift", "scan")
  /\ staging[id(w)] # None
  /\ receipts' = [receipts EXCEPT ![id(w)] = staging[id(w)]["receipt"]]
  /\ UNCHANGED <<verdict, rec, written, listing, inputs, staging, lifted, index, keepVars>>
LiftReceipt(w) ==
  /\ Goto(w, "lift", "place")
  /\ staging[id(w)] # None
  /\ staging[id(w)]["receipt"] # None
  /\ lifted' = [lifted EXCEPT ![id(w)] = staging[id(w)]["receipt"]]
  /\ staging' = [staging EXCEPT ![id(w)]["receipt"] = None]
  /\ UNCHANGED <<verdict, rec, written, listing, receipts, inputs, index, keepVars>>

\* rename: the staging directory becomes the inputs directory.  A directory
\* rename replaces only an empty directory, and this one never is.
PlaceInputs(w) ==
  /\ Goto(w, "place", "commit")
  /\ staging[id(w)] # None
  /\ inputs' = [inputs EXCEPT ![id(w)] = staging[id(w)]]
  /\ staging' = [staging EXCEPT ![id(w)] = None]
  /\ UNCHANGED <<verdict, rec, written, listing, receipts, lifted, index, keepVars>>

\* rename: the receipt file appears.  This is the commit point.
Commit(w) ==
  /\ Goto(w, "commit", "scan")
  /\ lifted[id(w)] # None
  /\ receipts' = [receipts EXCEPT ![id(w)] = lifted[id(w)]]
  /\ lifted' = [lifted EXCEPT ![id(w)] = None]
  /\ UNCHANGED <<verdict, rec, written, listing, inputs, staging, index, keepVars>>

\* _refresh_index: scan the committed records, publish what was found, and
\* tolerate its own failure.
ScanRecords(w) ==
  /\ Goto(w, "scan", "publish")
  /\ listing' = [listing EXCEPT ![w] = {i \in Id : committed(i)}]
  /\ UNCHANGED <<verdict, rec, written, recordVars, index, keepVars>>

PublishIndex(w) ==
  /\ Goto(w, "publish", "reload")
  /\ index' = listing[w]
  /\ UNCHANGED <<verdict, rec, written, listing, recordVars, keepVars>>

RefreshFailureEscapes(w) ==
  /\ Faults
  /\ pc[w] \in {"scan", "publish"}
  /\ Refuse(w, "os_error")
  /\ UNCHANGED <<rec, written, listing, recordVars, index, keepVars>>
RefreshFails(w) ==
  /\ Faults
  /\ pc[w] \in {"scan", "publish"}
  /\ pc' = [pc EXCEPT ![w] = "reload"]
  /\ UNCHANGED <<verdict, rec, written, listing, recordVars, index, keepVars>>

\* The bodies are gone through in a fixed order, and the first refusal is raised.
FirstRefusal(found) ==
  IF found["rulebook"] # "ok" THEN found["rulebook"]
  ELSE IF found["candidate"] # "ok" THEN found["candidate"]
  ELSE IF found["snapshot"] # "ok" THEN found["snapshot"]
  ELSE found["authorization"]

\* get_record(verify=False) under the id i: what must be there loads, nothing is
\* there beside it.
Loaded(i, f) ==
  IF f \in required(receipts[i])
    THEN IF inputs[i][f] = None THEN "incomplete"
         ELSE IF inputs[i][f] \in Large THEN "noncanonical" ELSE "ok"
    ELSE IF inputs[i][f] # None THEN "record_conflict" ELSE "ok"
get_record(i) ==
  IF receipts[i] = None THEN "missing"
  ELSE IF receipts[i] \in Large THEN "noncanonical"
  ELSE IF inputs[i] = None THEN "incomplete"
  ELSE FirstRefusal([f \in BodyNames |-> Loaded(i, f)])

\* put_record answers with a reload of what stands under the id.
Reload(w) ==
  /\ Return(w, "reload", IF get_record(id(w)) = "ok" THEN "stored" ELSE get_record(id(w)))
  /\ UNCHANGED <<rec, written, listing, recordVars, index, keepVars>>

\* _idempotent_or_conflict: only byte-identical artifacts are the same record.
\* What is stored beside the artifacts handed in is not compared.
Compared(w, f) ==
  LET stored == IF inputs[id(w)] = None THEN None ELSE inputs[id(w)][f] IN
  IF f \notin bodies(rec[w]) THEN "ok"
  ELSE IF stored = None THEN "incomplete"
  ELSE IF stored \in Large THEN "noncanonical"
  ELSE IF stored # Content(rec[w], f) THEN "record_conflict" ELSE "ok"
CompareStored(w) ==
  IF receipts[id(w)] \in Large THEN "noncanonical"
  ELSE IF receipts[id(w)] # rec[w].receipt THEN "record_conflict"
  ELSE FirstRefusal([f \in BodyNames |-> Compared(w, f)])

IdempotentOrConflict(w) ==
  /\ pc[w] = "compare"
  /\ IF CompareStored(w) = "ok"
       THEN Goto(w, "compare", "reload") /\ UNCHANGED verdict
       ELSE Return(w, "compare", CompareStored(w))
  /\ UNCHANGED <<rec, written, listing, recordVars, index, keepVars>>

\* An OSError inside the try block is a commit conflict, that of a look or a
\* read an invalid path, that of mkdir travels as it is.  Nothing that was
\* staged is removed.
PutFails(w) ==
  /\ Faults
  /\ \/ pc[w] \in (Staging \ {"inputs"}) \union {"commit"} /\ Refuse(w, "commit_conflict")
     \/ pc[w] \in {"exists", "inputs", "compare", "reload"} /\ Refuse(w, "path_invalid")
     \/ pc[w] = "mkdir" /\ Refuse(w, "os_error")
  /\ UNCHANGED <<rec, written, listing, recordVars, index, keepVars>>

put_record(w) ==
  \/ LookForReceipt(w) \/ Mkdir(w) \/ MkdirExists(w) \/ WriteStaged(w) \/ ReadBack(w)
  \/ LookForInputs(w) \/ LiftReceipt(w) \/ PlaceInputs(w) \/ Commit(w)
  \/ ScanRecords(w) \/ PublishIndex(w) \/ Reload(w) \/ IdempotentOrConflict(w)

--------------------------------------------------------------------------------
(* preserve_unrecorded                                                          *)

KeepCall(w) ==
  /\ Goto(w, "idle", "look")
  /\ \E r \in Record : rec' = [rec EXCEPT ![w] = r]
  /\ UNCHANGED <<verdict, written, listing, recordVars, index, keepVars>>

preserved(i) == unrecorded[i] # None

\* The account of an earlier attempt is kept: the same bytes are a repeat,
\* other bytes are a conflict.
LookForAccount(w) ==
  /\ pc[w] = "look"
  /\ IF ~ preserved(id(w))
       THEN Goto(w, "look", "partial") /\ UNCHANGED verdict
       ELSE LET kept == account[unrecorded[id(w)]] IN
            Return(w, "look", IF kept \in Large THEN "noncanonical"
                              ELSE IF kept = rec[w].receipt THEN "preserved"
                              ELSE "record_conflict")
  /\ UNCHANGED <<rec, written, listing, recordVars, index, keepVars>>

PartialSharedOpen(w) ==
  /\ Goto(w, "partial", "fill")
  /\ partial' = [partial EXCEPT ![id(w)] = w]
  /\ UNCHANGED <<verdict, rec, written, listing, recordVars, index, account, unrecorded>>
PartialOpen(w) ==
  /\ Goto(w, "partial", "fill")
  /\ partial[id(w)] = None
  /\ partial' = [partial EXCEPT ![id(w)] = w]
  /\ UNCHANGED <<verdict, rec, written, listing, recordVars, index, account, unrecorded>>

PartialExists(w) ==
  /\ Return(w, "partial", "commit_conflict")
  /\ partial[id(w)] # None
  /\ UNCHANGED <<rec, written, listing, recordVars, index, keepVars>>

\* The bytes go through the descriptor, so to the file this call created.
PartialFill(w) ==
  /\ Goto(w, "fill", "replace")
  /\ account' = [account EXCEPT ![w] = rec[w].receipt]
  /\ UNCHANGED <<verdict, rec, written, listing, recordVars, index, partial, unrecorded>>

\* The rename moves whichever file stands at the partial name.
PartialReplace(w) ==
  /\ Goto(w, "replace", "replaced")
  /\ partial[id(w)] # None
  /\ unrecorded' = [unrecorded EXCEPT ![id(w)] = partial[id(w)]]
  /\ partial' = [partial EXCEPT ![id(w)] = None]
  /\ UNCHANGED <<verdict, rec, written, listing, recordVars, index, account>>

KeepReturn(w) ==
  /\ Return(w, "replaced", "preserved")
  /\ UNCHANGED <<rec, written, listing, recordVars, index, keepVars>>

\* A failed write or rename removes the partial file; a rename also fails when
\* the partial name is gone.
KeepFails(w) ==
  /\ \/ Faults /\ pc[w] = "look" /\ UNCHANGED partial /\ Refuse(w, "path_invalid")
     \/ Faults /\ pc[w] = "partial" /\ UNCHANGED partial /\ Refuse(w, "commit_conflict")
     \/ /\ \/ Faults /\ pc[w] \in {"fill", "replace"}
           \/ pc[w] = "replace" /\ partial[id(w)] = None
        /\ partial' = [partial EXCEPT ![id(w)] = None]
        /\ Refuse(w, "commit_conflict")
  /\ UNCHANGED <<rec, written, listing, recordVars, index, account, unrecorded>>

preserve_unrecorded(w) ==
  \/ LookForAccount(w) \/ PartialOpen(w) \/ PartialExists(w) \/ PartialFill(w)
  \/ PartialReplace(w) \/ KeepReturn(w)

--------------------------------------------------------------------------------
(* What the environment may do to a caller.                                     *)

\* KeyboardInterrupt inside the try block of preserve_unrecorded: its handler
\* unlinks the partial name, also when the rename has already happened.
\* Anywhere else in this module an interrupt leaves what a crash leaves.
Interrupt(w) ==
  /\ pc[w] \in {"fill", "replace"} \/ (LateInterrupts /\ pc[w] = "replaced")
  /\ partial' = [partial EXCEPT ![id(w)] = None]
  /\ Refuse(w, "interrupted")
  /\ UNCHANGED <<rec, written, listing, recordVars, index, account, unrecorded>>

Crash(w) ==
  /\ pc[w] \in PutSteps \union KeepSteps
  /\ Refuse(w, "crashed")
  /\ UNCHANGED <<rec, written, listing, recordVars, index, keepVars>>

Next ==
  \E w \in Writer :
    \/ PutCall(w) \/ put_record(w) \/ RefreshFails(w) \/ PutFails(w)
    \/ KeepCall(w) \/ preserve_unrecorded(w) \/ KeepFails(w)
    \/ Interrupt(w) \/ Crash(w)

Spec == Init /\ [][Next]_vars

\* A live process executes its next file-system call sooner or later.
FairSpec ==
  Spec /\ \A w \in Writer :
    WF_vars(put_record(w) \/ preserve_unrecorded(w) \/ KeepFails(w))

\* scan: what is present and not committed.
scan ==
  [abandoned_staging |-> {i \in Id : \/ staging[i] # None \/ lifted[i] # None
                                     \/ partial[i] # None \/ unrecorded[i] # None},
   orphaned_inputs   |-> {i \in Id : inputs[i] # None /\ ~ committed(i)}]

--------------------------------------------------------------------------------
(* Properties                                                                   *)

\* The inputs directory of a record: its bodies and nothing else.
InputsOf(r) == [f \in FileNames |-> IF f \in bodies(r) THEN Content(r, f) ELSE None]

\* The record r is what stands under its id.
Holds(r) == receipts[r.id] = r.receipt /\ inputs[r.id] = InputsOf(r)

\* What stands under an id, as one object, and the objects that load: everything the
\* receipt requires within the bounds of a read, and nothing else.
Stored(i) ==
  [f \in FileNames |->
     IF f = "receipt" THEN receipts[i] ELSE IF inputs[i] = None THEN None ELSE inputs[i][f]]
Whole ==
  {c \in [FileNames -> (Bytes \ Large) \union {None}] :
     /\ c["receipt"] # None
     /\ \A f \in BodyNames : c[f] # None <=> f \in required(c["receipt"])}

\* The artifacts handed in, and that each of them is byte for byte what is stored.
Artifacts(r) ==
  [f \in FileNames |-> IF f \in bodies(r) \union {"receipt"} THEN Content(r, f) ELSE None]
Stands(r) == \A f \in FileNames : Artifacts(r)[f] # None => Stored(r.id)[f] = Artifacts(r)[f]

\* Crash atomicity of put_record: a receipt file that exists stands on the
\* complete and unmixed bodies of one record some caller asked to store.
CommittedIsComplete ==
  \A i \in Id : committed(i) => \E w \in Writer : rec[w] # None /\ id(w) = i /\ Holds(rec[w])

\* One receipt id never comes to mean two contents: a call that succeeded finds all
\* it handed in stored byte for byte, whoever wrote it, in a record that loads.
SuccessIsDurable ==
  \A w \in Writer : verdict[w] = "stored" => Stands(rec[w]) /\ Stored(id(w)) \in Whole

\* The rename is final: nothing put_record does later, and no other writer,
\* changes a committed receipt or its bodies.
CommitIsFinal ==
  [][\A i \in Id : committed(i) =>
       receipts'[i] = receipts[i] /\ inputs'[i] = inputs[i]]_vars

\* The index never names a record that is not committed.
IndexNamesCommitted == \A i \in index : committed(i)

\* A call that staged something and did not get it committed leaves something
\* that scan reports.
AbandonedIsReported ==
  \A w \in Writer :
    pc[w] = "done" /\ written[w] # {} /\ ~ committed(id(w)) =>
      id(w) \in scan.abandoned_staging \union scan.orphaned_inputs

\* A staging directory nobody is working in is evidence, and stays.
AbandonedStagingIsKept ==
  [][\A i \in Id :
       staging[i] # None /\ (\A w \in Writer : ~ (pc[w] \in Staging /\ id(w) = i))
         => staging'[i] = staging[i]]_vars

\* Past the commit point a call answers with the committed record, and a repeat of
\* what stands succeeds, whatever the index does and whoever wrote the record:
\* such a call is refused only when a look or a read of the records fails, or the
\* caller dies.
CommitIsAcknowledged ==
  [][\A w \in Writer :
       /\ pc[w] \in {"compare", "scan", "publish", "reload"} /\ pc'[w] = "done"
       /\ Stands(rec[w]) /\ Stored(id(w)) \in Whole
       => verdict'[w] \in {"stored", "path_invalid", "crashed"}]_vars

\* The same without the proviso that what was committed loads: spec/local-store.md has
\* put_record return the committed record.
CommittedIsReturned ==
  [][\A w \in Writer : pc[w] \in {"scan", "publish", "reload"} /\ pc'[w] = "done" =>
       verdict'[w] \in {"stored", "path_invalid", "crashed"}]_vars

\* An account outside the records is a whole signed receipt of its id, and
\* preserve_unrecorded answers "kept" only if there is one.  A partial file is left
\* behind by a call that died, never by one that failed or was interrupted.
PreservedIsTruthful ==
  /\ \A i \in Id : preserved(i) =>
       \E r \in Record : r.id = i /\ account[unrecorded[i]] = r.receipt
  /\ \A w \in Writer : verdict[w] = "preserved" => preserved(id(w))
  /\ \A i \in Id : partial[i] # None =>
       pc[partial[i]] \in {"fill", "replace"} \/ verdict[partial[i]] = "crashed"

\* Nothing in preserve_unrecorded destroys an earlier account of an action.
EarlierAccountIsKept ==
  [][\A i \in Id : preserved(i) =>
       preserved(i)' /\ account'[unrecorded'[i]] = account[unrecorded[i]]]_vars

\* put_record implements the write-once store: the rename of the receipt file is
\* the step that stores, receipt and bodies at once.
Kept == [i \in Id |-> IF committed(i) THEN Stored(i) ELSE None]
Told == [w \in Writer |-> IF pc[w] = "done" THEN verdict[w] ELSE "pending"]
Abstract == INSTANCE RecordStore
  WITH Name <- FileNames,
       idOf <- [r \in Record |-> r.id],
       artifactsOf <- [r \in Record |-> Artifacts(r)],
       Failures <- Verdicts \ {"none", "stored"},
       request <- rec, kept <- Kept, reply <- Told
RecordStoreSpec == Abstract!Spec

\* Every call returns, whatever earlier callers left behind.
EveryCallReturns ==
  \A w \in Writer : pc[w] \in {"exists", "look"} ~> pc[w] = "done"
================================================================================

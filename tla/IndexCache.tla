------------------------------- MODULE IndexCache -------------------------------
(***************************************************************************)
(* _write_index (vfy/store.py) and its two callers, the refresh that ends  *)
(* put_record and rebuild_index: how index.json is replaced by several     *)
(* processes at once.  A writer creates a staging slot exclusively, closes *)
(* it, opens the name a second time to write it, and renames it over the   *)
(* index.  The rename frees the slot name for the next writer while the    *)
(* first one is still inside its try block.                                *)
(*                                                                         *)
(* Slots and the index are names of files.  The second open goes through   *)
(* the name, so it may meet a file that another writer created, or create  *)
(* one of its own; a file is therefore identified by its creator and by    *)
(* which of the two opens created it.                                      *)
(***************************************************************************)
EXTENDS Naturals

CONSTANTS
  Writer,
  Id,                \* receipt ids
  _MAX_INDEX_SLOTS,
  LateInterrupts,    \* whether a KeyboardInterrupt may arrive after the rename
  Faults,            \* whether a file-system call may raise OSError
  Absent             \* no directory entry

File == Writer \X {"exclusive", "reopened"}

\* The bytes of a file: nothing yet, one writer's document, or the bytes of two
\* writers over each other.
Content == [form : {"empty", "whole", "torn"}, names : SUBSET Id]
EmptyFile == [form |-> "empty", names |-> {}]
TornFile  == [form |-> "torn", names |-> {}]
Document(names) == [form |-> "whole", names |-> names]

ASSUME IndexAssumption ==
  /\ _MAX_INDEX_SLOTS \in Nat
  /\ LateInterrupts \in BOOLEAN
  /\ Faults \in BOOLEAN
  /\ Absent \notin File

VARIABLES
  at,          \* where each writer stands
  caller,      \* put_record or rebuild_index
  summaries,   \* what the writer's scan of receipts/ found
  indexSlot,   \* the slot it probes or holds
  handle,      \* the file its second open reached
  committed,   \* the committed records
  stagedIndex, \* tmp/index.<slot>.staging
  index,       \* index.json
  content,     \* the bytes of every file
  answer       \* the last listing() a reader was given

indexVars == <<at, caller, summaries, indexSlot, handle, committed, stagedIndex, index, content, answer>>

IndexSlots == 0 .. (_MAX_INDEX_SLOTS - 1)

\* Between the exclusive creation and the rename the slot is the writer's own.
Staging == {"open", "write", "replace"}
\* The try block of _write_index: the rename is not the end of it.
InTry == Staging \union {"replaced"}
Steps == {"scan", "probe"} \union InTry

IndexTypeOK ==
  /\ at \in [Writer -> Steps \union {"idle", "done"}]
  /\ caller \in [Writer -> {"none", "put_record", "rebuild_index"}]
  /\ summaries \in [Writer -> SUBSET Id]
  /\ indexSlot \in [Writer -> 0 .. _MAX_INDEX_SLOTS]
  /\ handle \in [Writer -> File \union {Absent}]
  /\ committed \in SUBSET Id
  /\ stagedIndex \in [IndexSlots -> File \union {Absent}]
  /\ index \in File \union {Absent}
  /\ content \in [File -> Content]
  /\ answer \in [summaries : SUBSET Id, refused : BOOLEAN]

IndexInit ==
  /\ at = [w \in Writer |-> "idle"]
  /\ caller = [w \in Writer |-> "none"]
  /\ summaries = [w \in Writer |-> {}]
  /\ indexSlot = [w \in Writer |-> 0]
  /\ handle = [w \in Writer |-> Absent]
  /\ committed = {}
  /\ stagedIndex = [s \in IndexSlots |-> Absent]
  /\ index = Absent
  /\ content = [f \in File |-> EmptyFile]
  /\ answer = [summaries |-> {}, refused |-> FALSE]

Advance(w, from, to) == at[w] = from /\ at' = [at EXCEPT ![w] = to]

--------------------------------------------------------------------------------
(* The callers                                                                  *)

\* put_record has committed its record and goes on to _refresh_index.
put_record(w) ==
  /\ Advance(w, "idle", "scan")
  /\ caller' = [caller EXCEPT ![w] = "put_record"]
  /\ \E i \in Id \ committed : committed' = committed \union {i}
  /\ UNCHANGED <<summaries, indexSlot, handle, stagedIndex, index, content, answer>>

rebuild_index(w) ==
  /\ Advance(w, "idle", "scan")
  /\ caller' = [caller EXCEPT ![w] = "rebuild_index"]
  /\ UNCHANGED <<summaries, indexSlot, handle, committed, stagedIndex, index, content, answer>>

\* _listing_from_records
Scan(w) ==
  /\ Advance(w, "scan", "probe")
  /\ summaries' = [summaries EXCEPT ![w] = committed]
  /\ UNCHANGED <<caller, indexSlot, handle, committed, stagedIndex, index, content, answer>>

--------------------------------------------------------------------------------
(* _index_staging_slot and _write_index                                         *)

IndexSlotFreeNonExclusive(s) == s \in IndexSlots
IndexSlotFree(s) == s \in IndexSlots /\ stagedIndex[s] = Absent

SlotOpen(w) ==
  /\ Advance(w, "probe", "open")
  /\ IndexSlotFree(indexSlot[w])
  /\ stagedIndex' = [stagedIndex EXCEPT ![indexSlot[w]] = <<w, "exclusive">>]
  /\ UNCHANGED <<caller, summaries, indexSlot, handle, committed, index, content, answer>>

SlotBusy(w) ==
  /\ at[w] = "probe"
  /\ indexSlot[w] \in IndexSlots
  /\ stagedIndex[indexSlot[w]] # Absent
  /\ indexSlot' = [indexSlot EXCEPT ![w] = @ + 1]
  /\ UNCHANGED <<at, caller, summaries, handle, committed, stagedIndex, index, content, answer>>

\* StoreCommitConflict, which _refresh_index swallows and rebuild_index reports.
SlotsExhausted(w) ==
  /\ Advance(w, "probe", "done")
  /\ indexSlot[w] \notin IndexSlots
  /\ UNCHANGED <<caller, summaries, indexSlot, handle, committed, stagedIndex, index, content, answer>>

\* open(staging, "wb"): truncates the file at that name, or creates one.
Reopen(w) ==
  LET f == IF stagedIndex[indexSlot[w]] = Absent THEN <<w, "reopened">> ELSE stagedIndex[indexSlot[w]]
  IN  /\ Advance(w, "open", "write")
      /\ handle' = [handle EXCEPT ![w] = f]
      /\ stagedIndex' = [stagedIndex EXCEPT ![indexSlot[w]] = f]
      /\ content' = [content EXCEPT ![f] = EmptyFile]
      /\ UNCHANGED <<caller, summaries, indexSlot, committed, index, answer>>

\* The bytes go to the open file, wherever its name is by now; bytes written
\* over other bytes do not make a document.
Write(w) ==
  /\ Advance(w, "write", "replace")
  /\ content' = [content EXCEPT ![handle[w]] =
                   IF @ \in {EmptyFile, Document(summaries[w])}
                     THEN Document(summaries[w]) ELSE TornFile]
  /\ UNCHANGED <<caller, summaries, indexSlot, handle, committed, stagedIndex, index, answer>>

\* The rename moves whichever file stands at the slot name.
Replace(w) ==
  /\ Advance(w, "replace", "replaced")
  /\ stagedIndex[indexSlot[w]] # Absent
  /\ index' = stagedIndex[indexSlot[w]]
  /\ stagedIndex' = [stagedIndex EXCEPT ![indexSlot[w]] = Absent]
  /\ UNCHANGED <<caller, summaries, indexSlot, handle, committed, content, answer>>

Return(w) ==
  /\ Advance(w, "replaced", "done")
  /\ UNCHANGED <<caller, summaries, indexSlot, handle, committed, stagedIndex, index, content, answer>>

\* except BaseException: the slot name is unlinked and the exception goes on.
\* A rename whose source is gone is such a failure.
Handler(w, steps) ==
  /\ at[w] \in steps
  /\ at' = [at EXCEPT ![w] = "done"]
  /\ stagedIndex' = [stagedIndex EXCEPT ![indexSlot[w]] = Absent]
  /\ UNCHANGED <<caller, summaries, indexSlot, handle, committed, index, content, answer>>

WriteFails(w) ==
  /\ at[w] \in Staging
  /\ Faults \/ (at[w] = "replace" /\ stagedIndex[indexSlot[w]] = Absent)
  /\ Handler(w, Staging)

_write_index(w) ==
  \/ SlotOpen(w) \/ SlotBusy(w) \/ SlotsExhausted(w)
  \/ Reopen(w) \/ Write(w) \/ Replace(w) \/ Return(w) \/ WriteFails(w)

\* KeyboardInterrupt in the try block, which the rename does not end.
InterruptWriter(w) == Handler(w, IF LateInterrupts THEN InTry ELSE Staging)

WriterDies(w) ==
  /\ at[w] \in Steps
  /\ at' = [at EXCEPT ![w] = "done"]
  /\ UNCHANGED <<caller, summaries, indexSlot, handle, committed, stagedIndex, index, content, answer>>

--------------------------------------------------------------------------------
(* The reader                                                                   *)

\* _check_index accepts a complete document only.
Readable == index # Absent => content[index].form = "whole"

\* listing reads the records, looks at the index for damage, and writes nothing.
listing ==
  /\ answer' = [summaries |-> committed, refused |-> ~ Readable]
  /\ UNCHANGED <<at, caller, summaries, indexSlot, handle, committed, stagedIndex, index, content>>

IndexNext ==
  \/ \E w \in Writer :
       \/ put_record(w) \/ rebuild_index(w) \/ Scan(w) \/ _write_index(w)
       \/ InterruptWriter(w) \/ WriterDies(w)
  \/ listing

IndexSpec == IndexInit /\ [][IndexNext]_indexVars

--------------------------------------------------------------------------------
(* Properties                                                                   *)

\* A writer holds its slot alone from the exclusive creation to the rename:
\* nobody else removes, renames or takes over the name meanwhile.
IndexSlotHeldAlone ==
  \A w \in Writer : at[w] \in Staging => stagedIndex[indexSlot[w]] = <<w, "exclusive">>

\* index.json is absent or one writer's complete document, however many writers
\* publish at once, fail or die: no listing ever refuses it.
IndexIsWhole == Readable /\ ~ answer.refused

\* A rename is a step of one writer with its own bytes: the index it publishes
\* is what this writer's own scan found.
PublishesOwnScan ==
  [][\A w \in Writer : at[w] = "replace" /\ at'[w] = "replaced" =>
       content[index'] = Document(summaries[w])]_indexVars

\* A stale cache is corrected by the next listing, once no writer is left that
\* could still publish.
ListingCorrectsCache ==
  [][/\ index # Absent
     /\ \A w \in Writer : at[w] \in {"idle", "done"}
     /\ answer' # answer
     => content'[index'] = Document(committed')]_indexVars
================================================================================

------------------------------ MODULE Consumption ------------------------------
(***************************************************************************)
(* LocalStore.consume_once (vfy/store.py): how one authorization is spent  *)
(* on a file system shared by several processes.  One step here is one     *)
(* system call there: the exclusive creation of a staging slot, the write  *)
(* of the record, the hard link that publishes it, the read of the entry   *)
(* that is in the way, the unlink of the slot.  Between any two of them    *)
(* another process may run, a call may fail, the process may be            *)
(* interrupted or die.                                                     *)
(*                                                                         *)
(* An attempt creates at most one file, so an attempt also names the file  *)
(* (the inode) it created; `staged' and `consumed' are directories, that   *)
(* is, maps from names to files.  os.link gives the file a second name, it *)
(* does not copy it.                                                       *)
(***************************************************************************)
EXTENDS Naturals

CONSTANTS
  Attempt,                 \* calls of consume_once; a retry is a new attempt
  Nonce,
  Authorization,
  nonceOf,                 \* the nonce each authorization carries
  MAX_CONSUMPTION_SLOTS,   \* slots probed per nonce
  None,                    \* no directory entry, no authorization
  Empty                    \* a file created and not yet written

ASSUME ConsumptionAssumption ==
  /\ nonceOf \in [Authorization -> Nonce]
  /\ MAX_CONSUMPTION_SLOTS \in Nat
  /\ None \notin Attempt
  /\ None \notin Authorization
  /\ Empty \notin Authorization

VARIABLES
  pc,        \* where each attempt stands in consume_once
  request,   \* the authorization it was handed
  slot,      \* the slot it probes or holds
  verdict,   \* what it will report
  data,      \* the content of the file each attempt created
  staged,    \* tmp/consume-<digest>.<slot>
  consumed   \* consumed/<digest>.json

vars == <<pc, request, slot, verdict, data, staged, consumed>>

Slots == 0 .. (MAX_CONSUMPTION_SLOTS - 1)

\* The digest of the nonce names the files; distinct nonces have distinct names.
nonce(c) == nonceOf[request[c]]

Running == {"probe", "write", "link", "compare", "unlink"}
Holding == {"write", "link", "compare", "unlink"}
Verdicts == {"none", "consumed", "nonce_reused", "consumption_conflict", "unreadable",
             "commit_conflict", "path_invalid", "os_error", "interrupted", "crashed"}

TypeOK ==
  /\ pc \in [Attempt -> Running \union {"idle", "done"}]
  /\ request \in [Attempt -> Authorization \union {None}]
  /\ slot \in [Attempt -> 0 .. MAX_CONSUMPTION_SLOTS]
  /\ verdict \in [Attempt -> Verdicts]
  /\ data \in [Attempt -> Authorization \union {Empty}]
  /\ staged \in [Nonce -> [Slots -> Attempt \union {None}]]
  /\ consumed \in [Nonce -> Attempt \union {None}]

Init ==
  /\ pc       = [c \in Attempt |-> "idle"]
  /\ request  = [c \in Attempt |-> None]
  /\ slot     = [c \in Attempt |-> 0]
  /\ verdict  = [c \in Attempt |-> "none"]
  /\ data     = [c \in Attempt |-> Empty]
  /\ staged   = [n \in Nonce |-> [s \in Slots |-> None]]
  /\ consumed = [n \in Nonce |-> None]

Goto(c, from, to) == pc[c] = from /\ pc' = [pc EXCEPT ![c] = to]

Report(c, v) == verdict' = [verdict EXCEPT ![c] = v]

--------------------------------------------------------------------------------
(* stage_consumption: the first free slot, found by exclusive creation.        *)

\* The caller builds the record and enters the probing loop at slot 0.
Call(c) ==
  /\ Goto(c, "idle", "probe")
  /\ \E a \in Authorization : request' = [request EXCEPT ![c] = a]
  /\ UNCHANGED <<slot, verdict, data, staged, consumed>>

\* O_CREAT | O_EXCL succeeds only on a name that is not there.
SlotFree(n, s) == s \in Slots /\ staged[n][s] = None

StageOpen(c) ==
  /\ Goto(c, "probe", "write")
  /\ SlotFree(nonce(c), slot[c])
  /\ staged' = [staged EXCEPT ![nonce(c)][slot[c]] = c]
  /\ UNCHANGED <<request, slot, verdict, data, consumed>>

\* FileExistsError: try the next slot.
StageBusySameSlot(c) ==
  /\ pc[c] = "probe"
  /\ slot[c] \in Slots
  /\ staged[nonce(c)][slot[c]] # None
  /\ UNCHANGED vars
StageBusy(c) ==
  /\ pc[c] = "probe"
  /\ slot[c] \in Slots
  /\ staged[nonce(c)][slot[c]] # None
  /\ slot' = [slot EXCEPT ![c] = @ + 1]
  /\ UNCHANGED <<pc, request, verdict, data, staged, consumed>>

\* Every slot is taken.
StageExhausted(c) ==
  /\ Goto(c, "probe", "done")
  /\ slot[c] \notin Slots
  /\ Report(c, "commit_conflict")
  /\ UNCHANGED <<request, slot, data, staged, consumed>>

\* The creation fails for another reason.
StageOpenFails(c) ==
  /\ Goto(c, "probe", "done")
  /\ slot[c] \in Slots
  /\ Report(c, "commit_conflict")
  /\ UNCHANGED <<request, slot, data, staged, consumed>>

\* The record goes into the file this caller created.
StageWrite(c) ==
  /\ Goto(c, "write", "link")
  /\ data' = [data EXCEPT ![c] = request[c]]
  /\ UNCHANGED <<request, slot, verdict, staged, consumed>>

\* The write is outside every handler: a raw OSError escapes and the slot stays.
StageWriteFails(c) ==
  /\ Goto(c, "write", "done")
  /\ Report(c, "os_error")
  /\ UNCHANGED <<request, slot, data, staged, consumed>>

stage_consumption(c) ==
  \/ StageOpen(c) \/ StageBusy(c) \/ StageExhausted(c) \/ StageOpenFails(c)
  \/ StageWrite(c) \/ StageWriteFails(c)

--------------------------------------------------------------------------------
(* consume_once: publish with one link, compare on failure, unlink always.      *)

\* is_consumed: an entry is there, whatever it holds.
is_consumed(n) == consumed[n] # None

\* os.link creates the name or fails because it exists.
LinkReplaces(c) ==
  /\ Goto(c, "link", "unlink")
  /\ consumed' = [consumed EXCEPT ![nonce(c)] = c]
  /\ Report(c, "consumed")
  /\ UNCHANGED <<request, slot, data, staged>>
Link(c) ==
  /\ Goto(c, "link", "unlink")
  /\ ~ is_consumed(nonce(c))
  /\ consumed' = [consumed EXCEPT ![nonce(c)] = c]
  /\ Report(c, "consumed")
  /\ UNCHANGED <<request, slot, data, staged>>

LinkExists(c) ==
  /\ Goto(c, "link", "compare")
  /\ is_consumed(nonce(c))
  /\ UNCHANGED <<request, slot, verdict, data, staged, consumed>>

LinkFails(c) ==
  /\ Goto(c, "link", "unlink")
  /\ Report(c, "commit_conflict")
  /\ UNCHANGED <<request, slot, data, staged, consumed>>

\* What the entry in the way says.  An empty file does not load.
Judge(c) ==
  LET existing == data[consumed[nonce(c)]]
  IN  IF existing = Empty THEN "unreadable"
      ELSE IF existing # request[c] THEN "consumption_conflict"
      ELSE "nonce_reused"

Compare(c) ==
  /\ Goto(c, "compare", "unlink")
  /\ Report(c, Judge(c))
  /\ UNCHANGED <<request, slot, data, staged, consumed>>

\* The entry in the way cannot be read: StorePathInvalid.
CompareFails(c) ==
  /\ Goto(c, "compare", "unlink")
  /\ Report(c, "path_invalid")
  /\ UNCHANGED <<request, slot, data, staged, consumed>>

\* finally: the name goes, whichever file it now denotes.
Unlink(c) ==
  /\ Goto(c, "unlink", "done")
  /\ staged' = [staged EXCEPT ![nonce(c)][slot[c]] = None]
  /\ UNCHANGED <<request, slot, verdict, data, consumed>>

\* An unlink that fails replaces whatever the caller was about to be told.
UnlinkFails(c) ==
  /\ Goto(c, "unlink", "done")
  /\ Report(c, "os_error")
  /\ UNCHANGED <<request, slot, data, staged, consumed>>

consume_once(c) ==
  \/ stage_consumption(c)
  \/ Link(c) \/ LinkExists(c) \/ LinkFails(c)
  \/ Compare(c) \/ CompareFails(c)
  \/ Unlink(c) \/ UnlinkFails(c)

--------------------------------------------------------------------------------
(* What the environment may do to a caller.                                     *)

\* KeyboardInterrupt: before the try nothing is cleaned up, inside it the
\* finally clause still runs.
Interrupt(c) ==
  /\ \/ pc[c] \in {"probe", "write"} /\ pc' = [pc EXCEPT ![c] = "done"]
     \/ pc[c] \in {"link", "compare", "unlink"} /\ pc' = [pc EXCEPT ![c] = "unlink"]
  /\ Report(c, "interrupted")
  /\ UNCHANGED <<request, slot, data, staged, consumed>>

\* The process dies: whatever it left in the file system stays there.
Crash(c) ==
  /\ pc[c] \in Running
  /\ pc' = [pc EXCEPT ![c] = "done"]
  /\ Report(c, "crashed")
  /\ UNCHANGED <<request, slot, data, staged, consumed>>

Next == \E c \in Attempt : Call(c) \/ consume_once(c) \/ Interrupt(c) \/ Crash(c)

Spec == Init /\ [][Next]_vars

\* The steps a process that is neither hit by a fault nor killed takes.
Progress(c) ==
  \/ StageOpen(c) \/ StageBusy(c) \/ StageExhausted(c) \/ StageWrite(c)
  \/ Link(c) \/ LinkExists(c) \/ Compare(c) \/ Unlink(c)

\* A live process executes its next system call sooner or later.
FairSpec == Spec /\ \A c \in Attempt : WF_vars(Progress(c))

--------------------------------------------------------------------------------
(* Properties                                                                   *)

\* At most one attempt per nonce is ever told that it consumed it, and that one
\* is the file standing in consumed/: the local single-use guarantee that
\* execute_authorized_command launches a process on.
OneConsumerPerNonce ==
  \A c \in Attempt :
    verdict[c] = "consumed" => consumed[nonce(c)] = c

\* consumed/<digest>.json is absent or holds a complete record of the nonce it is
\* named after, so that a losing caller can always read it: the reason why
\* consume_once writes first and links afterwards.
NeverPartial ==
  /\ \A n \in Nonce : is_consumed(n) =>
       LET f == consumed[n] IN data[f] = request[f] /\ nonce(f) = n
  /\ \A c \in Attempt : verdict[c] # "unreadable"

\* A loser can tell AuthorizationNonceReused (its own authorization was already
\* spent, by another call) from StoreConsumptionConflict (a different
\* authorization carries the same nonce).
LoserIsToldWhy ==
  \A c \in Attempt :
    LET winner == consumed[nonce(c)] IN
    /\ verdict[c] = "nonce_reused" =>
         winner \notin {None, c} /\ request[winner] = request[c]
    /\ verdict[c] = "consumption_conflict" =>
         winner \notin {None, c} /\ request[winner] # request[c]

\* From its creation to the finally clause a slot belongs to the caller that
\* created it, which is what makes the unconditional unlink in consume_once safe.
SlotHeldAlone ==
  \A c \in Attempt : pc[c] \in Holding => staged[nonce(c)][slot[c]] = c

\* A published consumption is never withdrawn, replaced or rewritten.
ConsumptionIsPermanent ==
  [][\A n \in Nonce : is_consumed(n) =>
       consumed'[n] = consumed[n] /\ data'[consumed[n]] = data[consumed[n]]]_vars

\* A slot abandoned by a finished or dead caller is never reused or removed by
\* another one: scan can still report it.
AbandonedSlotIsKept ==
  [][\A n \in Nonce, s \in Slots :
       (\E c \in Attempt : staged[n][s] = c /\ pc[c] = "done")
         => staged'[n][s] = staged[n][s]]_vars

\* Every call of consume_once ends, in a verdict or in the death of the caller,
\* however many slots other callers occupy.
EveryCallReturns == \A c \in Attempt : pc[c] = "probe" ~> pc[c] = "done"

\* consume_once implements the single-use specification: the link is the step
\* that spends, and a caller is answered when its call ends.
Reply == [c \in Attempt |-> IF pc[c] = "done" THEN verdict[c] ELSE "pending"]
Abstract == INSTANCE SingleUse WITH spentBy <- consumed, reply <- Reply
SingleUseSpec == Abstract!Spec
================================================================================

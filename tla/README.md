# A TLA+ verification of verify-run

verify-run gates commands: a command line runs only when a pinned rulebook,
evaluated over frozen evidence, allows it; the permission is a signed, single-use
authorization; what happened is kept as a signed receipt that can be replayed.
The code is Python, one process per command, and every guarantee that outlives a
process rests on file-system calls (exclusive creation, link, rename) made by
processes that know nothing of each other and may die anywhere. That is what this
project models. Everything is written against the sources under `src/vfy/`;
`PROJECT.json` gives the lines each definition stands for.

## 1. Inventory

| Component | State | Operations | What is hard | What makes it correct |
|---|---|---|---|---|
| Consumption (`store.py` 382–440, 500–514) | `consumed/<digest>`, staging slots `tmp/consume-*.n` | `consume_once`, `_stage_consumption`, `is_consumed` | races on one nonce, dead callers in slots, failing unlink | one consumer per nonce for ever; a record complete from its first instant; truthful refusals |
| Record store (182–314, 369–378, 442–493) | `receipts/`, `inputs/`, `tmp/*.staging`, `tmp/*.json.staged`, `tmp/*.unrecorded*` | `put_record`, `get_record`, `preserve_unrecorded`, `scan` | three renames, one of them the commit point; check-then-act | committed means complete and final; success means durable; leftovers are reported |
| Index cache (316–367, 516–593) | `index.json`, `index.n.staging` | `_refresh_index`, `rebuild_index`, `listing` | slot names that change owner at a rename | the index is whole and somebody's scan; a failed refresh revokes nothing |
| Gated run (`workflow.py` 377–601, `runner.py`) | objects in hand, child process, the stores above | `_run`, `execute_authorized_command`, `_launch` | several calls on one store, clocks, interrupts, partial failure below the spend | no process without a matching spent authorization; no spend on a refusal; every execution accounted for |
| Authorization (`authorization.py`) | none | `issue_authorization`, `verify_authorization` | objects that do not belong together, interval edges | everything is recomputed from the objects in hand |
| Custody (`custody.py`) | intent, `.claimed`, `.terminal.json` | `validate`, `claim`, `terminal` | two dispatches of one intent | one dispatch per intent, true terminal records |
| Rulebook, expressions (`rulebook.py`, `expr.py`) | none | `parse_expression`, load-time checks | precedence, `not` before parentheses, nesting and depth bounds | the parser accepts the grammar and nothing else, and builds its tree |
| Gate (`gate.py`) | none | `_prepare`, `evaluate` | three-valued logic without short circuits, freshness, decimals as digit text, glob without recursion | a decision is a function of the frozen inputs; losing evidence never gains permission |
| Snapshot, receipt (`snapshot.py`, `receipt.py`) | a record: receipt, bodies, authorization | `build_snapshot`, `issue_receipt`, `verify_receipt`, `replay_receipt`, `timeline_anomalies` | instants, rotated keys, altered bodies | replay reproduces every decision that was made and no other |
| Child ledger (`child_ledger.py`) | locked journal `state.json`/`pending.json` | `reserve`, `dispatch_record`, `complete`, `settle` | crash in publication, budget at its limit | exposure never understated; nothing dispatched twice |
| Common capacity (`common_capacity.py`, `child_observer.py`) | a pool journal, a ledger per partition, an owner marker in each | `reserve`, `bind_dispatch`, `settle`, `dispatch_development` | two journals moved in step by calls that stop anywhere | one launch per child; pool and ledger never contradict each other; one pool per partition |
| Managed capacity, service attempts (`managed_capacity.py`, `service_attempt.py`, `check_execution.py`, `service_accounting_cli.py`) | `state.json` through its common, managed and service epochs; capabilities in memory | grants, guards, `admit`/`consume`/`settle`/`mark_unknown`, sessions, `status` | a capability burnt before the journal changes; lost answers; a launch window | capacity over all epochs; nothing spent twice; UNKNOWN is final |
| Adoption (`service_adoption*.py`) | accounting epoch, nonce store, operation root, managed copy | `attach`, `reserve`, `adopt`, `reconcile` | four stores that cannot change together; threads; crashes between file replacements | nothing written without a spent approval; observed means complete; no half-written copy is taken up again |
| Paid review (`service_review.py`, `service_review_receipt.py`) | review pool, receipt | `attach`, `reserve`, `paid_review`, `verify_receipt` | reading file by file beside a working adopter, on a meter | a receipt verifies unless its plan was altered; OBSERVED_CANDIDATE was adopted |
| Lifecycle and workflow (`service_lifecycle.py`, `service_workflow.py`, `service_obligation.py`) | chain of records at a root, recovery marker | session, `prepare`, `adopt`, `recover` | handlers that publish again after a failed publication | prepared is earned; adopted once; recovered once; told heads are chained |
| Loading, canonical form, schema, evidence adapters, CLI, read CLIs, tools, scripts | none of their own | pure functions, I/O | characters and number forms | checked by the repository's tests |

Components interact by calls inside one process and by the shared file system
between processes. `_run` calls the snapshot, gate and authorization modules, then
`execute_authorized_command`, which calls custody, `consume_once`, `_launch`,
`issue_receipt`, `put_record` and, if that fails, `preserve_unrecorded`.
`put_record` ends by refreshing the index and reading back what it committed.
The service part never waits: an accounting root is locked without blocking, every
change of it replaces one signed record through `pending.json`, and a
`pending.json` that is left behind closes the root. A child dispatch moves a pool
and a ledger; an adoption moves an accounting epoch, the nonce store of the record
store, the operation root and the copy; a review reads what an adoption writes.

## 2. Modules

| Module | Models | Role |
|---|---|---|
| `SingleUse` | – | abstract: a nonce is spent by one request, atomically, before its caller is told |
| `Consumption` | `consume_once`, `_stage_consumption` | one action per system call |
| `RecordStore` | – | abstract: a write-once map from id to (receipt, bodies) |
| `LocalStore` | `put_record`, `_idempotent_or_conflict`, `get_record`, `preserve_unrecorded`, `scan` | one action per system call that another process can see |
| `LocalStoreProofs` | | theorems about `LocalStore`, and about what the records of `Receipt` replay to |
| `IndexCache` | `_refresh_index`, `_write_index`, `_index_staging_slot`, `listing` | index staging with files as inodes |
| `StagingProofs` | | theorems about `Consumption` and `IndexCache`, the two users of staging slots |
| `GatedRun` | `_run`, `execute_authorized_command`, `_launch`, custody | the composition; uses `SingleUse` through a refinement mapping |
| `GatedRunProofs` | | theorems about `GatedRun` |
| `ChildBudget` | – | abstract: a budget kept by running totals, children dispatched at most once |
| `ChildLedger` | `Ledger` of `child_ledger.py` | the locked journal, one action per system call |
| `ChildLedgerProofs` | | theorems about `ChildLedger` |
| `Capacity` | `CapacityOwner`, `dispatch_development` | a pool and child ledgers moved in step; a journal change is one step with the outcomes `ChildLedger` shows it to have |
| `CapacityProofs` | | theorems about `Capacity`, and about sums over finite sets |
| `ServicePool` | `ManagedCapacityOwner`, `ManagedGuard`, `ServicePool`, the accounting session, `check_execution` | the epochs of one accounting root |
| `ServicePoolProofs` | | theorems about `ServicePool` |
| `Adoption` | `service_adoption` (and `_v1`, the same code but for one kind of pool) | four stores, threads and processes |
| `PaidReview` | `service_review`, `service_review_receipt` | extends `Adoption`: reviewers beside adopters |
| `AdoptionProofs` | | theorems about `Adoption` and `PaidReview` |
| `Workflow` | `service_lifecycle`, `service_workflow`, `service_obligation` | the chain of records of a paid attempt |
| `WorkflowProofs` | | theorems about `Workflow` |
| `Expr` | `expr` | the parser as recursive operators on tokens |
| `Grammar` | – | reference: every derivation of a token sequence, by trying every split |
| `Evaluation` | `gate`, `build_snapshot`, the instants of `rulebook` | a rulebook written phrase by phrase, frozen and walked, over a parser and an evaluator it is given |
| `Gate` | `_evaluate_node` and what it calls | extends `Grammar` and `Evaluation`: the three-valued evaluator as recursive operators, and its references |
| `Receipt` | `receipt`, `authorization` | extends `Evaluation`: records, rotation, alteration, replay |
| `MC*` | | instances for TLC |

### Consumption
`pc[c]` is where call `c` stands between two system calls, `staged[n][s]` which
call's file sits in slot `s`, `data` what that file holds, `consumed[n]` which
call's file the published name is linked to. A slot is found by exclusive creation
(`StageOpen`, `StageBusy`, `StageExhausted`), filled (`StageWrite`), linked to the
published name (`Link`, the consumption point, or `LinkExists` followed by
`Compare`), and unlinked (`Unlink`) on every path, also by an `Interrupt` after
staging. A `Crash` leaves everything as it is. Each call that can fail has its
failing action with the error the code turns it into; the `finally` clause has
one too: `UnlinkFails` leaves the nonce spent and raises a plain `OSError`.

### LocalStore
`receipts`, `inputs`, `staging` and `lifted` are the four places a record passes
through (`staging/` directory, lifted receipt, placed inputs, committed receipt);
`account`, `partial` and `unrecorded` the files of `preserve_unrecorded`. File
contents are abstract `Bytes`; those in `Large` exceed the bound every read
applies, `Allowing` and `Naming` are the receipts whose outcome is ALLOW and those
that have an `authorization_id`. `_bodies` stores what the caller hands in, while
`get_record` asks the stored receipt what there must be (`required`): the two differ
for a repeat without the authorization, which succeeds, and for a first commit of
an ALLOW without the authorization it names, which is answered `incomplete`. Success
therefore means `Stands` and `Whole`: every artifact handed in is there byte for
byte, in a record that loads. Writing the staged files is a series of `WriteStaged` steps, so that a
crash leaves any prefix. The index is kept as the set of ids it names; how it is
written is the business of `IndexCache`.

### IndexCache
A staging slot is a name; the file behind it is an inode named after its creator,
because `_write_exact` opens the name a second time after the exclusive creation
and because `replace` moves the file away from the name. Both matter: they decide
whose bytes are published and whose slot a handler unlinks.

### GatedRun
A call is a complete run (`Begin`) or a direct call of
`execute_authorized_command` with an issued authorization and arbitrary objects
beside it (`Present`). `AboveTheLine` and `BelowTheLine` are the steps before and
after the consumption, the line the source draws in comments. Every reading of
the clock yields any instant. Consumption and storage are one step each here;
`SpendsThroughSingleUse` shows that the run uses consumption exactly as
`SingleUse` (which `Consumption` implements) allows. The gate is the constant
`Decide`; cryptography is taken as perfect: an authorization in `granted` is one
whose signature verifies. Refusals for reasons without bearing on the state
(keys, working directory, timeout value, schema) are the one action
`RefusedAbove`.

### ChildLedger
`state` and `pending` are the two files of the journal, `Partial` one that is
created and not yet filled; `holder` is the caller that has the lock file locked.
`Mkdir` to `FillState` are `create`, which does not lock; `Enter` and `Refused` are
`locked`; each operation is one step under the lock that reads, verifies and drafts
(`_change` up to the size check), and `CreatePending`, `FillPending`, `Replace`,
`Return` publish the draft. `Stop` ends a call between any two steps: the lock goes,
the files stay. `goAheads` counts the callers that have seen `dispatch_record`
return: the model's view of what the outside was told. A state is verified by
recomputing everything from the events, as the code does (`_usage`,
`verify_report`); that this agrees with a budget of running totals is the
refinement `BudgetSpec`. Amounts are natural numbers where the code has exact
fractions; `MaxEvents` stands for `MAX_BYTES`, as every event adds to the state.

### Capacity
`pool[p]` and `ledger[l]` are the published records, `marker[l]` the owner file of a
partition (`Torn` when its writing was interrupted), `jammed` the journals closed by
a left `pending.json`. A dispatch is one action per journal call in the order of
`dispatch_development`, and `Stop` ends it anywhere. The first reservation from a
partition is two actions: `pool_look` finds no marker, `pool_reserve` creates it
(`Owns`: only where there is still none) and reserves; the pool's lock is held in
between (`Locked`), but another pool has a lock of its own. A `Legacy` job is a dispatch
without a pool, which the code allows on any partition without a marker.

### ServicePool
`state` is the record of one root; `apply_grant` and `attach` replace it by a new
epoch that keeps the old one as `predecessor`. A capability is in the memory of the
process that was admitted and is burnt before the journal changes; a process that
is `Gone` loses it. Publications have three outcomes (told, published and failing,
interrupted). The common epoch's changes are `common_change`: an entry takes a slot
and the hold on its output, is bound, and is settled for what it used; later epochs
carry both totals on (`usage`). `Launch`, `_execute`, `Callback` and `Classification`
stand for the engineer outside the repository: its adapter launches some time after
`before_launch` has looked at the window.

### Adoption and PaidReview
`root[p]` is the operation root of a plan (INTENT, copy, COMPLETE), `pool` the
accounting epoch, `spent` the nonces, `flock` the lock of the root. Callers are
threads; those of one process share its pool object and its live capabilities, and
`Crash` takes the process. `Edit` changes a file of the copy by hand. `PaidReview`
adds reviewers, each reading one file per step under its meter while adopters go
on; `verify_receipt` is written from the verifier's rules, `Receipt` from the
writer's, so that their agreement is a property and not a definition. The requests in
`Altered` select a copy of the plan edited by hand, whose `task_id` or hashes need not
have their types; the operation's own `PLAN.json` is as `prepare_adoption` wrote it.

### Workflow
`disk[w]` is the head of a root, `mem[w]` what the holder of its lock has in memory.
They differ because `publish` changes the body first and can fail before or after
the replacement, and because handlers publish UNKNOWN from that body. `told[w]` is
the head a client was last told. Reports are inputs. A review may be withdrawn (it
expires, is revoked, or its approval is consumed) at any step of a preparation, and
`withdrawn[w]` keeps the revision at which that happened: the last look at the review,
`refresh_obligation_review`, comes after metered reads and before the publication of the
plan, so a review withdrawn between the two is found too late. What the code keeps, and
`PreparedIsEarned` says, is that it still verified at the head before the plan's.

### Expr, Evaluation, Gate, Receipt
The parser (`Expr`) and the evaluator of an expression (`Gate`) are recursive, the
machine around them is not: `Evaluation` declares them as the operators `Parse`,
`ParseExpression`, `EvidenceIds` and `EvaluateNode`, and `MCGate.cfg` gives them the
definitions of `Expr` and `Gate`. What is proved of the machine therefore holds for
whatever parser and evaluator it is given. A rulebook is written phrase by phrase (`Write`, `AddRule`), frozen with some
acquired evidence (`Freeze`: `build_snapshot` and `_prepare`) and walked (`_walk`).
Tokens, values and digit strings are sequences of characters only where a
comparison, a pattern or a literal depends on them. `Receipt` then lets the decision
be declined or executed, keys be retired or revoked (`Rotate`), one field of the
record be altered (`Alter`) and the record be replayed, each under a clock that may
go back. A digest stands for the value it is of.

## 3. Runs

| Run | Instance | Shows |
|---|---|---|
| `consumption` | 3 calls, 2 authorizations that share a nonce, 2 slots | refinement of `SingleUse`; every call returns |
| `local_store` | 2 writers, 1 id, 8 colliding records, faults | refinement of `RecordStore`, accounts truthful, commits acknowledged, every call returns |
| `index_cache` | 3 writers, 2 ids, 2 slots, faults | whole index, own scan published |
| `gated_run` | 2 calls, 1 command with and without custody, 3 evidences (allowed, held, error), 2 instants, 1 intent, faults; one call is a run of either command with an unusable environment, the other a run of the held command or a direct call with one of 6 mixtures of objects | authorized launches with instants in order, terminal records true, refinement of `SingleUse`, every call ends |
| `child_ledger` | 2 callers, 2 children, 2 attempt ids, 2 axes, 5 events | published states verify, one go-ahead per child, refinement of `ChildBudget`, lock released |
| `capacity` | 2 callers, 2 children, 2 partitions, 2 pools, 3 calls | one launch, journals agree, one owner |
| `service_pool` | 2 processes, 1 managed effect, 2 attempts, 1 slot, 1 byte and a grant of 1 | capacity over all epochs, nothing spent twice, launch window, UNKNOWN final |
| `adoption` | 3 callers in 2 processes, 2 plans of 2 files, 3 approvals, 1 edit | nothing unapproved, observed is complete, one approval per plan, no second hand |
| `paid_review` | 2 reviewers, 3 requests (one ample, one that runs out, one of an altered plan), 1 adopter | receipts verify, reviewed is adopted |
| `workflow` | an original and a repair bound to it, each of which fails or succeeds; the repair reads two files on its meter, one before and one after its copy; its review may be withdrawn | prepared is earned, adopted once, recovered once, told heads chained |
| `gate` | 11 corpora | parser against grammar, evaluation against evidence loss, decimals and glob against references, replay |
| `gated_run_bad_environment` | 1 call | the violation below |

Bounds. The steps of the store protocols look at one name at a time, so two callers
give every race, and a third one is what it takes to use a slot that one caller lost
and another is about to unlink. Two slots give a busy slot, a free one and
exhaustion (the code has more; the number is a constant, and the proofs hold for
any). The records of `MCLocalStore` differ in receipt, in body, in authorization, in
having one, in naming one and in fitting the bound of a read. In `MCGatedRun` the command is allowed under one evidence
only, so that a mixture of two calls' objects is refused; two instants with a time
to live of one give a clock that goes back and an authorization that expires. In
`MCChildLedger` the limit has room for either child, and for both only once one has
settled for less than it reserved; five events stop the ledger before both children
are through. In `MCCapacity` a child can be asked for again through the other
partition and from the other pool, two pools race for one partition's marker, and
three calls let one come back after two stopped. In `MCServicePool` the pool has room for one dispatch and the grant for one
more, so the second attempt competes with the managed effect, and a common dispatch
that keeps its byte leaves none for an attempt although a slot is free. In `MCAdoption` two
threads share a process and a third caller does not, two approvals name one plan,
and one plan's reading bound ends before the last scan. The corpora of `MCGate` are
cut by what each is about: eight phrases up to twelve tokens for predicates with
two rules, three rules that declare ALLOW, BLOCK and HOLD in two more orders, single
tokens for lists and calls, every escape and integers and indexes around their
bounds, all pairs of nineteen decimals, all patterns of three elements on all texts
of three characters, every pair of brackets around up to four characters, instants at
the turns of months, leap years and centuries with offsets, and records around
midnight; the bounds on nesting, depth and digits are small constants, so that both
sides of each are met. The references are written without the operators they check:
`Grammar` has its own escapes, bounds, types and canonical decimals, `Globs` its own
classes. What parser and grammar share is the form of a token, of a tree and of its
depth as a document. Symmetry is used only in runs without liveness properties.

Deadlock is checked for the ledger, whose callers come back; elsewhere callers make
a bounded number of calls and the model ends when all are through.

Interrupts and faults. The constant `Faults` lets system calls fail. A
`KeyboardInterrupt` may always arrive in a `try` block up to its rename;
`LateInterrupts` lets it arrive between the rename and the end of the block too.
Crashes are always possible. `SpentSaysSo` is checked without file-system faults:
with them, the plain `OSError` of a failing unlink in `consume_once`, or of a
selector or a read while `_launch` waits (`WaitFails`), also leaves a spent
authorization whose caller is told something else, and the latter an execution
nobody reports: `ExecutionIsReported` names it beside the death of the caller.

Fairness. Weak fairness of the steps of a call that is running: a process that is
neither killed nor stopped goes on to its next system call, and system calls
return. For `GatedRun` the deadline of `_launch`, measured on the monotonic clock,
is a step of the caller and so fair too; nothing is assumed of the child. In
`ChildLedger` only the steps under the lock are fair: `flock` promises nothing to
those who wait, so the claim is that whoever has the lock gives it up, not that a
given caller gets it. No fairness is put on faults, interrupts, stops or crashes.
The service modules have no liveness claim: their locks are never waited for and
their answer to every stop is to hold what was charged.

### What the code does not keep

`gated_run_bad_environment` expects a violation: an environment name with `=` or NUL
passes `_check_environment`, and `Popen` raises `ValueError` after the spend, so the
caller is not told of it although `spec/execution.md` says every failure below the
consumption says so. `SpentSaysSo` holds, and is proved, without such names and
without file-system faults.

Other sentences of the repository that the modules contradict, each with the change
to a configuration that makes TLC show it:

1. `CommittedIsReturned`, as the one property of `MCLocalStore.cfg`, with
   `Record <- ConsistentRecords` and `Faults = FALSE`: `_write_exact` has no bound and
   every read has one (`store.py:50`, 664, 695), so `put_record` commits a body above
   1 MiB, such as a snapshot that embeds two files of up to 1 MiB each, and then answers
   with the refusal of its own reload; a byte-identical repeat is refused too
   (`spec/local-store.md`: "`put_record` returns the committed record", and the repeat
   "is idempotent and succeeds"). `CommitIsAcknowledged` says, and `local_store` checks
   with such a record among the others, that only a record that does not load makes the
   answer a refusal.
2. `EarlierAccountIsKept` with `Faults = FALSE` in `MCLocalStore.cfg`: two
   `preserve_unrecorded` calls with different receipts under one id both find no
   account, and the second replaces the first one's (`store.py`: "Nothing here
   destroys an earlier account of an action").
3. `IndexSlotHeldAlone` with `LateInterrupts = TRUE` in `MCIndexCache.cfg`: an interrupt
   after the rename makes the handler unlink a slot that belongs to another writer.
4. `ListingCorrectsCache` in `MCIndexCache.cfg`: a stale index is not corrected by a
   listing, which neither reads nor writes it; only the next commit or a rebuild does
   (`store.py`: "A stale cache is corrected by the next listing").
5. `LegacyPathRefused` in `MCCapacity.cfg`: a dispatch without a pool that looked for
   the marker before a pool wrote it goes on beside that pool ("Common-pool partition
   requires common dispatch; legacy path refused.").
6. `spec/expression-language.md` says that a properly paired escape denotes its
   scalar; `_string_literal` refuses every `\u` escape of a surrogate, paired or not.
   `Expr` follows the code, and the reference has no such escape.
7. A nesting within `MAX_NESTING` may still be refused, by the depth bound of the
   loader that the tree has to pass; `ParsesTheGrammar` states both bounds.
8. An integer or an index of more digits than `int` converts (4300 unless the host says
   otherwise) makes `parse_expression`, and so `evaluate`, raise `ValueError`, which is
   no `VerifyError` and no result; an index of fewer, above 2^53 - 1, is refused only
   when the tree is made canonical (`expr.py:375`, `expr.py:397`). `Failed` tells the
   two apart.

The writer and the verifier of a review receipt disagree too, though no document says
that every retained receipt verifies: `paid_review` copies three identities unchecked
from the selected plan (`service_review.py:257`-259) and `verify_receipt` refuses
ill-typed ones (`service_review_receipt.py:93`-94). `RetainedVerifies` admits exactly
these receipts, of an altered plan, and says that they report UNKNOWN.

## 4. Proofs

Checked by TLAPS for every value of the constants that meets the named `ASSUME` of
each module: `None`, `Empty` and the like are not members of the sets they mark
absence in, and counts are natural numbers; sizes are not bounded.

`StagingProofs`, first half: `Consumption`. The inductive invariant adds to the stated invariants which
slot a running call holds, that the slot holds its own file, that the file is
filled before the link, and that a verdict agrees with the published record.
`OneConsumerPerNonce` alone is not inductive: a call at `link` must be known to
hold a filled file of its own. From it: `TypeCorrect`, `SingleConsumer`,
`PublishedComplete`, `RefusalIsTruthful`, `SlotExclusive`, `Permanence`,
`AbandonedKept`, and `ImplementsSingleUse`, where `Link` maps to `Spend`, the
returns to `Answer` and every other step to a stutter.

Second half: `IndexCache`. `IndexSlotHeldAlone` is inductive once a holder's slot is
known to be one; that the published file stays whole needs more: it was created
exclusively by a writer that has renamed it and will not write again, so that no
second open of a slot name can reach it (`IndexPublished`). Every theorem of this half
assumes `~LateInterrupts`: an interrupt after the rename runs the handler on a name
that may be another writer's, and then none of them holds (section 3, "What the code
does not keep"). From it: `IndexTypeCorrect`, `IndexSlotExclusive`, `IndexWhole`,
`OwnScanPublished`. The two halves share the module and no state: the names of
`IndexCache` are its own (`at`, `indexSlot`, `IndexSpec`).

`LocalStoreProofs`. `IInv` is the conjunction of `TypeOK` and, in the order a
record passes through them: who works in a staging directory (`StagingOwned`),
what has been written (`WrittenSoFar`, `StagedContent`), that the inputs name is
free until placed (`InputsFree`), that the lifted receipt is the writer's own
(`LiftedOwn`), that the inputs are complete before the commit (`ReadyToCommit`)
and stand after it (`StandsAfterCommit`), that nothing staged is nowhere
(`StagedIsSomewhere`), and what the index scan may hold (`ScannedCommitted`).
One lemma per action shows it preserved. From it: `TypeCorrect`,
`CommittedComplete`, `SuccessDurable`, `IndexTruthful`, `AbandonedReported`,
`CommitFinal`, `AbandonedKept` and `ImplementsRecordStore`, where `Commit` maps
to `Keep`. `CommitAcknowledged` needs no more than the types and that artifacts
which stand in a record that loads compare equal and load (`StandingIsFound`); its
premise is what `CommittedIsReturned` leaves out. `PreservedTruthful` has an invariant of its own
(`KeepInv`: the partial name is the file of the call filling it, or of one that died,
and an account was filled by a call that is past its rename) and assumes
`~LateInterrupts`, as the run
does: an interrupt after the rename lets the handler unlink another call's file.

`GatedRunProofs`. `IInv` is `TypeOK`, the order of the instants of what was issued,
`TerminalIsTruthful` and, for every call, what it has prepared (`Prepared`), that
what it verified is bound to what it holds (`Bound`), what it spent (`Spent`),
claimed (`Custodied`) and started (`ChildState`), and what was stored for it
(`Accounted`). None of the theorems is inductive alone: that a process runs on an
authorization of its own, say, needs that the objects in hand are still the
verified ones when the nonce is spent three steps later. The argument has two
halves: a step of one call leaves every other call's part alone because spent
nonces, claimed intents and stored receipts only grow (`Confined`, `Framed`), and
a step preserves its own call's part (`OwnRunInv`, one step per action). From it:
`TypeCorrect`, `LaunchAuthorized` (which contains the order of the instants, also
stated alone as `InstantsMonotone`), `OneLaunch`, `OneDispatch`,
`TerminalTruthful`, `RefusalFree`, `ExecutionReported`, `ReceiptsOfSpends`,
`SpendingFinal`; `SpendReported`, which assumes that no file-system call below the
line fails and every environment name is usable, exactly what the run assumes; and
`ImplementsSingleUse`, for which nonces are shown unique and requests stay verified.

`ChildLedgerProofs`. The invariant is the chain behind `OneGoAhead`: the lock is with
the one caller working under it (`LockHeld`); there is one creator and nobody
drafts before it is through (`Creation`); a draft is a verified extension of the
very state it will replace (`Drafted`); `pending.json` is the draft when it is
renamed (`Publication`); a published dispatch that nobody was told of yet was
never told of (`Unconfirmed`). Each operation is reduced to one lemma, that adding
one event in order yields a verified extension (`OneMoreVerifies`). The constants
are as in the model; of the sets only `Child` is assumed finite, because
`verify_report` counts. From it: `TypeCorrect`, `StateVerified`, `SingleGoAhead`,
`QuarantineFinal`, `EventsFinal`. A draft is moreover the state with one event booked
(`BookedOn`), a reservation only of what the usage leaves; a second part of the module
shows what that does to the totals. A fold over the children is a function on their
subsets that takes out one at a time (`IsTotal`): it exists for every finite set,
grows with its terms and changes by as much as one term does (`TotalExists`,
`TotalMonotone`, `TotalChange`, by the induction of `PartByPart`, whose hypothesis is a
set because the prover has no operators to instantiate). `BookedEarns` says what each
event does to a child's phase, its hold and its promise. From these:
`ReservationsWithinBudget` (of `NeverOversold`, which no run repeats; it needs that no
more is promised to a child than is counted for it) and `ImplementsBudget`, where `Replace` maps to the operation whose
event it publishes, a returning `dispatch_record` to `Confirm` and the rest to stutters.

`WorkflowProofs`. None of the properties is inductive, because handlers publish again
from what they have in memory. The invariant says, root by root, how memory relates
to the disk (`Chain`: outside a handler the body is the head; inside one it has the
revision of a head that is still on disk, or was replaced by a newer one nobody was
told of), who holds the recovery allowance (`Recovery`), how far the adoption is
(`Adoption`), what a record's entry and plan rest on (`Observation`) and until when the
obligation's review verified (`Review`). The disk
changes only by publication, so one lemma, `PublishStep`, does the work for all
fifteen actions that publish, one (`MemoryStep`) for those that only load, drop or
move on, and `Framed` for the other roots: a baseline's execution happens once and is
never changed. From it: `TypeCorrect`, `PlanIsEarned`, `AdoptsOnce`, `RecoversOnce`,
`HeadsAreChained`. The bounds of the run (two roots, two cases, two files to read) do
not enter; `None` is assumed to be no entry and no root.

`CapacityProofs`. The module begins with what the totals of the pools rest on: for
every finite set, a sum exists, is a natural number, grows by the new term when one
element is added and changes by the difference when one term changes. The prover
cannot instantiate an induction scheme, so each of these is shown by a smallest
counterexample (`SmallestNumber`, `LeastIsIn`). The invariant then ties the journals to the
callers: at most one caller is past the ledger's reservation of a child (`OneCaller`);
what a caller at each step may assume of the ledger, the pool and the marker
(`CallerInv`, split by stage); that a launch was recorded before (`LaunchInv`); that
every entry of a pool has its child in the ledger its partition names (`EntryInv`);
and that a pool's revision and totals are those of its entries (`PoolInv`).
`OneLaunch` and `JournalsAgree` are each true only because of the other's parts: the
second dispatch of a child stops at the ledger, and the pool is never ahead of it. One
lemma says what a step of a ledger does to all of it (`LedgerStep`), one what a step
of a pool does (`PoolStep`), two what a caller that moves on or leaves does (`Moves`,
`Leaves`). From it: `CapacityTypes`, `AChildIsStartedOnce`, `JournalsNeverDisagree`,
`APartitionHasOneOwner`. Sets of children are assumed finite and amounts natural,
nothing else.

`ServicePoolProofs`. An entry is made once, by the one process that is told of it, and
nothing it says (made, consumed, started, a result) is ever taken back, also not when
the next epoch keeps the record as its predecessor (`Kept`). None of the properties is
inductive: that an attempt runs once needs that whoever is about to run it is alone
with it (`Alone`, `HandsKept`: what a process has in hand it had before, or no entry
existed), that an announced or executed attempt has its start on record and a recorded
result is the exit of the one run (`AttemptInv`, `EffectInv`), and what a process knows
at each step, the launch window included (`CallerInv`). `ValidInv`, that the record's
entries are in order and within capacity, holds because every record is validated
before it is published, and is itself needed: an entry that says ADMITTED must not
have started. Three lemmas carry the actions that publish (`EpochStep`,
`ManagedChange`, `ServedChange`), one those that do not (`QuietStep`); each action has
a lemma that gives the invariant and `UnknownIsFinal` of that step. From it:
`ServicePoolTypes`, `ServicePoolSpentOnce`, `ServicePoolNeverOversold` (runs and
callbacks inject into entries, `CountAtMost`, and entries are within capacity, slots
and bytes),
`ServicePoolLaunchedInTime`, `ServicePoolUnknownIsFinal`. Effects and attempts are
assumed finite and disjoint, amounts natural; processes may be any set, and
`MaxCommon`, the bound of the run on the common epoch, is any number.

`AdoptionProofs`. The four stores are tied together by the one caller that holds the
LOCK of an operation root: `CallerInv` says how far each store is at every step of
that caller, `PlanInv` and `SpentInv` what is left when the caller is gone, be it by a
crash between any two of the four. None of the properties is inductive without it:
that a candidate's file has a spent approval needs that the caller about to write it
spent it after the accounting root consumed the plan with that very approval. From
it: `AdoptionTypes`, `NothingIsWrittenUnapproved`, `ObservationIsComplete`,
`OneApprovalIsSpent` and, as an action property, `NoSecondAdoptionWrites`. A review
adds the books of a reading (`Books`: calls, bytes and trace agree with how far the
reader is and stay within its limits), what it may say of the copy (`Result`), what
its request is left with (`RequestInv`) and that one reviewer reads for a request
(`OneReader`); adopters' steps keep all of it because what they complete stays
complete (`CompleteStays`). From it: `ReviewTypes`, `RetainedReceiptsVerify`,
`ReviewedOperationsAreAdopted`, and `ReviewKeepsTheAdoption`, the adoption's own
properties beside any number of reviewers.

`LocalStoreProofs`, second part: `Receipt`, on any parser and evaluator. A record is
replayed by evaluating the frozen snapshot again in one call, and was decided rule by
rule, so the invariant `ReceiptInv` first says that the two agree: while the walk is
under way no rule it has passed decides (`DecisionInv`), which makes the rule it stops
at the smallest deciding one, the one `evaluate` chooses. It then says what is left of
a record after at most one alteration (`RecordInv`: a signature stays the one made over
the rulebook, snapshot, result and instants in force when it was issued, whatever
becomes of the payload beside it) and that a report is of the record and the trust file
as they are (`ReportInv`). From it: `ReceiptInvariant`, `StoredRecordsReplay` (the
calendar enters here: an authorization expires a time to live after it was issued, and
the anomalies are the comparisons of instants `replay_receipt` reports) and
`ReplayProvesTheDecision`. The clock is assumed to show instants of the calendar and
the time to live to be a natural number.

Only model-checked:
- liveness (`EveryCallReturns`, `EveryRunEnds`, `LockIsReleased`), which is out of the
  prover's reach;
- what the parser and the evaluator compute (`ParsesTheGrammar`, `LosingEvidenceHolds`,
  `EveryGapIsNamed`, `ComparesExactly`, `GlobIsExact`): `RECURSIVE` operators over
  tokens, trees and digits, which need induction over data and are beyond this prover.

## 5. Not modelled

Signatures and hashes are taken as perfect: a signature stands for the payload it was
made for, a digest for its bytes. `fsync` is not modelled: a crash is the death of a
process, not of the machine. The file-kind checks against links and devices appear as
the errors they raise. Of the parts of section 1:

- *Command line*: parsing of arguments, rendering and exit codes over operations that
  are modelled. It keeps no state.
- *Canonicalization, loading, schema*: pure functions whose hard cases are characters
  and Unicode, which a model would abstract away; only the depth bound of `load` and
  the bound canonical form puts on an integer are there, where the parser meets them. The lexer of expressions is left out for the same
  reason.
- *Evidence adapters*: `Gate` and `GatedRun` take any acquired item, acquired or lost,
  so nothing an adapter may return is excluded; how it runs its bounded subprocess
  repeats `_launch`.
- *Workspace initialisation*: writes keys and configuration once, before any run.
- *Service reading and proposals, adoption history, test successor*: stateless
  verification of supplied bytes, or of retained records nobody writes any more.
- *Test observation checker*: only its verdict; the decoding of a runner's report is
  not modelled. *Custody*: descriptor inheritance and worker hashes are not modelled.
- *Conformance tooling, scripts*: not part of the product's state.

## 6. Plan

Done: the core (consumption, store, index, gated run, child ledger), capacity and the
service pools, adoption, review and workflow, the expression parser and the gate with
its records, and proofs for the modules of section 4. Left, in this order:

1. An abstract specification of adoption (all files, or UNKNOWN for ever) and
   `Adoption` shown to implement it; one of an attempt (admitted, spent, observed or
   UNKNOWN) and `ServicePool`.
2. Workspace initialisation and command evidence, should either gain state of its own.

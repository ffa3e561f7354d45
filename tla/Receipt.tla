-------------------------------- MODULE Receipt --------------------------------
(***************************************************************************)
(* receipt and authorization, as the record of what the gate decided: a    *)
(* decision is signed, an allowed one with the authorization it was        *)
(* executed under, and replayed later from the bodies the store kept,      *)
(* under a trust file that has changed since and a clock that may have     *)
(* gone back between any two readings.  How the record gets into the store *)
(* and the command executed is LocalStore's and GatedRun's.                *)
(*                                                                         *)
(* A digest stands for the value it is of, and a signature for the payload *)
(* it was made over.  The order of the items of a snapshot, which is their *)
(* position on both sides, is left out.                                    *)
(***************************************************************************)
EXTENDS Evaluation

CONSTANTS
  Recorded,   \* the corpora whose decisions are recorded
  Clock,      \* the instants the clock may read after the decision
  TTL         \* ttl_seconds of the rulebook, in minutes

ASSUME ReceiptAssumption == Recorded \subseteq Corpora /\ Clock \subseteq Instant /\ TTL \in Nat \ {0}

VARIABLES
  trust,      \* the status of each signing key in the trust file
  record,     \* what the store keeps of the decision
  report      \* what the last replay said, until something changes

receiptVars == <<trust, record, report>>

Unkept == [kept |-> FALSE]
Status == {"active", "retired", "revoked"}

ReceiptTypeOK ==
  /\ phase \in {"writing", "walking", "done"} /\ corpus \in Corpora
  /\ trust \in [{"receipt", "authorization"} -> Status]
  /\ record.kept \in BOOLEAN /\ report.kept \in BOOLEAN

--------------------------------------------------------------------------------
(* Issuing                                                                      *)

\* _add_seconds: the instant, rendered again as a date without an offset.
_add_seconds(at, minutes) ==
  LET total == _instant(at) + minutes
      z == total \div 1440 + 719468
      era == z \div 146097
      day_of_era == z - era * 146097
      year_of_era == (day_of_era - day_of_era \div 1460 + day_of_era \div 36524 - day_of_era \div 146096) \div 365
      day_of_year == day_of_era - (365 * year_of_era + year_of_era \div 4 - year_of_era \div 100)
      month_position == (5 * day_of_year + 2) \div 153
      month == IF month_position < 10 THEN month_position + 3 ELSE month_position - 9 IN
  <<year_of_era + era * 400 + (IF month <= 2 THEN 1 ELSE 0), month,
    day_of_year - (153 * month_position + 2) \div 5 + 1, total % 1440, 0>>

RetiredAuthorizesNothing(key, historical) == trust[key] = "active"
check_key_status(key, historical) == trust[key] # "revoked" /\ (trust[key] = "retired" => historical)

Signed(payload) == [payload |-> payload, signature |-> payload]
issue_authorization(snap, issued_at) ==
  Signed([action |-> candidate, rulebook |-> rules, evidence |-> snap,
          issued_at |-> issued_at, expires_at |-> _add_seconds(issued_at, TTL)])
issue_receipt(authorized, acknowledged_at, created_at) ==
  Signed([candidate |-> candidate, rulebook |-> rules, evidence |-> snapshot, result |-> result,
          authorized |-> authorized, acknowledged_at |-> acknowledged_at, created_at |-> created_at])

--------------------------------------------------------------------------------
(* Verifying                                                                    *)

\* evaluate over bodies that are at hand: _prepare and all rounds of _walk.
evaluate(cand, snap) ==
  LET decided == {i \in DOMAIN rules : _rule_state(cand, snap, i).state \in {"true", "unsettled"}}
      first == _rule_state(cand, snap, Min(decided))
      failure == _prepare(snap.frozen_at) IN
  IF failure # "" THEN Failed(failure)
  ELSE IF decided = {} THEN [outcome |-> default_outcome, reasons |-> {"default_outcome"}]
  ELSE IF first.state = "true" THEN [outcome |-> OutcomeOf(Min(decided)), reasons |-> {"rule"}]
  ELSE [outcome |-> "HOLD", reasons |-> first.causes]

\* verify_snapshot_value, for a snapshot the builder may not have made.
verify_snapshot_value(snap) ==
  /\ Buildable(snap.items, snap.frozen_at)
  /\ \A id \in DOMAIN Declared : Declared[id].required => id \in DOMAIN snap.items

\* verify_authorization; without a verification time (<<>>) nothing is asked of the
\* present, and a retired key still verifies what is historical.
verify_authorization(auth, snap, found, verification_time, historical) ==
  LET a == auth.payload IN
  /\ check_key_status("authorization", historical)
  /\ auth.signature = a
  /\ a.rulebook = rules /\ a.action = candidate /\ a.evidence = snap
  /\ evaluate(candidate, snap) = found /\ found.outcome = "ALLOW"
  /\ _instant(a.issued_at) >= _instant(snap.frozen_at)
  /\ _instant(a.expires_at) > _instant(a.issued_at)
  /\ _instant(a.expires_at) = _instant(a.issued_at) + TTL
  /\ verification_time # <<>> =>
       /\ _instant(verification_time) >= _instant(a.issued_at)
       /\ _instant(verification_time) < _instant(a.expires_at)

\* verify_receipt, with _check_shape_for_outcome.
verify_receipt(r) ==
  /\ check_key_status("receipt", TRUE)
  /\ r.signature = r.payload
  /\ r.payload.result.outcome \in {"ALLOW", "BLOCK", "HOLD"}
  /\ r.payload.result.outcome # "ALLOW" => ~r.payload.authorized /\ r.payload.acknowledged_at = <<>>

ReplayTrustingBodies(s) ==
  /\ verify_receipt(s.receipt)
  /\ verify_snapshot_value(s.snapshot)
  /\ evaluate(s.candidate, s.snapshot) = s.receipt.payload.result
\* replay_receipt, from the bodies as they are stored.
replay_receipt(s) ==
  LET r == s.receipt.payload IN
  /\ verify_receipt(s.receipt)
  /\ s.candidate = r.candidate
  /\ verify_snapshot_value(s.snapshot) /\ s.snapshot = r.evidence
  /\ evaluate(s.candidate, s.snapshot) = r.result
  /\ r.authorized =>
       /\ s.authorization.payload.action = r.candidate
       /\ s.authorization.payload.rulebook = r.rulebook
       /\ s.authorization.payload.evidence = r.evidence
       /\ verify_authorization(s.authorization, s.snapshot, r.result, <<>>, TRUE)

Earlier(first, second) == first # <<>> /\ second # <<>> /\ _instant(first) < _instant(second)
timeline_anomalies(s) ==
  LET r == s.receipt.payload
      issued_at == IF r.authorized THEN s.authorization.payload.issued_at ELSE <<>> IN
  {pair \in {<<r.created_at, issued_at>>, <<r.created_at, s.snapshot.frozen_at>>,
             <<r.acknowledged_at, issued_at>>, <<r.acknowledged_at, s.snapshot.frozen_at>>,
             <<r.acknowledged_at, r.created_at>>} : Earlier(pair[1], pair[2])}

--------------------------------------------------------------------------------
(* The machine                                                                  *)

ReceiptInit ==
  /\ GateInit
  /\ trust = [key \in {"receipt", "authorization"} |-> "active"]
  /\ record = Unkept /\ report = Unkept

Deciding == phase = "done" /\ corpus \in Recorded /\ ~record.kept
Keep(r, auth) ==
  record' = [kept |-> TRUE, receipt |-> r, candidate |-> candidate, snapshot |-> snapshot, authorization |-> auth]

\* _run after the decision: the receipt of a decision that allows nothing.
decline ==
  /\ Deciding /\ result.outcome \in {"BLOCK", "HOLD"}
  /\ check_key_status("receipt", FALSE)
  /\ \E created_at \in Clock : Keep(issue_receipt(FALSE, <<>>, created_at), <<>>)
  /\ UNCHANGED <<gateVars, trust, report>>

\* _run after an ALLOW: issued, verified for the spend, executed, and one reading of the
\* clock for the acknowledgment and the receipt.
execute ==
  /\ Deciding /\ result.outcome = "ALLOW"
  /\ check_key_status("receipt", FALSE) /\ check_key_status("authorization", FALSE)
  /\ \E issued_at \in Clock, verification_time \in Clock, created_at \in Clock :
       LET auth == issue_authorization(snapshot, issued_at) IN
       /\ _instant(issued_at) >= _instant(snapshot.frozen_at)
       /\ verify_authorization(auth, snapshot, result, verification_time, FALSE)
       /\ Keep(issue_receipt(TRUE, created_at, created_at), auth)
  /\ UNCHANGED <<gateVars, trust, report>>

\* The owner of the workspace edits the trust file.
Rotate ==
  \E key \in {"receipt", "authorization"}, status \in Status :
    /\ record.kept /\ status # trust[key]
    /\ trust' = [trust EXCEPT ![key] = status]
    /\ report' = Unkept
    /\ UNCHANGED <<gateVars, record>>

\* The record is what the decision was made of.
Untouched ==
  /\ record.candidate = candidate /\ record.snapshot = snapshot
  /\ record.receipt.signature = record.receipt.payload
  /\ record.authorization # <<>> => /\ record.authorization.signature = record.authorization.payload
                                    /\ record.authorization.payload.evidence = snapshot

\* A file of the record is not the one that was stored: another snapshot, the
\* authorization of another decision or with a later expiry, or another result.
Alternatives ==
  {build_snapshot(acquired, frozen_at) : acquired \in C.acquisitions, frozen_at \in C.frozen}
    \union {[snapshot EXCEPT !.items = <<>>]}
Alter ==
  /\ record.kept /\ Untouched
  /\ \/ \E snap \in Alternatives : record' = [record EXCEPT !.snapshot = snap]
     \/ \E outcome \in {"ALLOW", "BLOCK"} : record' = [record EXCEPT !.receipt.payload.result.outcome = outcome]
     \/ /\ record.receipt.payload.authorized
        /\ \E snap \in Alternatives, later \in Clock :
             record' \in {[record EXCEPT !.authorization = issue_authorization(snap, @.payload.issued_at)],
                          [record EXCEPT !.authorization.payload.expires_at = later]}
  /\ report' = Unkept
  /\ UNCHANGED <<gateVars, trust>>

\* workflow.replay: LocalStore.get_record verifies and replays.
replay ==
  /\ record.kept /\ ~report.kept
  /\ report' = [kept |-> TRUE, replayed |-> replay_receipt(record),
                authorized |-> record.receipt.payload.authorized, anomalies |-> timeline_anomalies(record)]
  /\ UNCHANGED <<gateVars, trust, record>>

ReceiptNext ==
  \/ GateNext /\ UNCHANGED receiptVars
  \/ decline \/ execute \/ Rotate \/ Alter \/ replay
ReceiptSpec == ReceiptInit /\ [][ReceiptNext]_<<gateVars, receiptVars>>

--------------------------------------------------------------------------------
(* Properties                                                                   *)

\* A record that was stored replays for ever: after its authorization has expired and its
\* keys were retired, and although the clock went back before the receipt was dated, which
\* is reported and refuses nothing (replay_receipt, verify_authorization).
EveryRecordReplays ==
  (report.kept /\ Untouched /\ \A key \in DOMAIN trust : trust[key] # "revoked") =>
    /\ report.replayed
    /\ (report.anomalies # {}) <=>
         \/ _instant(record.receipt.payload.created_at) < _instant(snapshot.frozen_at)
         \/ report.authorized /\ _instant(record.receipt.payload.created_at) < _instant(record.authorization.payload.issued_at)

\* What replays is what was decided: the bodies are those the gate had, the result is the
\* one it gave, and the authorization beside an ALLOW is one for that decision and of the
\* rulebook's time to live (replay_receipt).
ReplayedIsDecided ==
  (report.kept /\ report.replayed) =>
    /\ record.candidate = candidate /\ record.snapshot = snapshot
    /\ record.receipt.payload.result = result
    /\ trust["receipt"] # "revoked"
    /\ result.outcome = "ALLOW" =>
         /\ trust["authorization"] # "revoked"
         /\ record.authorization.payload.evidence = snapshot
         /\ _instant(record.authorization.payload.expires_at) = _instant(record.authorization.payload.issued_at) + TTL
================================================================================

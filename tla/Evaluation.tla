------------------------------- MODULE Evaluation -------------------------------
(***************************************************************************)
(* gate.evaluate: a rulebook whose rules are written phrase by phrase, the *)
(* evidence that build_snapshot freezes, the preparation, and the walk of  *)
(* the rules to one ALLOW, BLOCK, HOLD or ERROR.  What an expression is    *)
(* and comes to is declared here and defined in Expr and Gate.             *)
(*                                                                         *)
(* A corpus says which phrases a rulebook is written of, what its rules    *)
(* declare, and which candidates and acquisitions it meets.  Instants are  *)
(* civil dates with a time and an offset, compared in minutes; an item's   *)
(* message, digest and signature are left out, reasons are the causes they *)
(* are made from.                                                          *)
(***************************************************************************)
EXTENDS Integers, SequencesExt

CONSTANTS
  Corpora,              \* names of corpora
  Corpus(_),            \* [phrases, length, declared, candidates, acquisitions, frozen] of each,
                        \* declared the [outcome, requires] of its rules, in order
  Declared,             \* evidence id |-> [required, max_age], max_age in minutes or -1
  adopted_at,           \* the instant the rulebook is adopted
  default_outcome,
  Parse(_),             \* the text of a rule |-> [ok, pos, tree, code]
  ParseExpression(_),   \* the same, refusing a tree that does not load
  EvidenceIds(_),       \* the evidence a tree names
  EvaluateNode(_, _, _) \* candidate, snapshot and tree |-> [state, causes]

\* <<year, month, day, minute of the day, offset in minutes>>
Instant == Int \X Int \X Int \X Int \X Int

ASSUME EvaluationAssumption ==
  /\ default_outcome \in {"BLOCK", "HOLD"}
  /\ adopted_at \in Instant
  /\ \A name \in Corpora :
       /\ Corpus(name).frozen \subseteq Instant
       /\ \A i \in DOMAIN Corpus(name).declared :
            /\ Corpus(name).declared[i].outcome \in {"ALLOW", "BLOCK", "HOLD"}
            /\ Corpus(name).declared[i].requires \subseteq DOMAIN Declared

VARIABLES
  corpus,     \* which corpus
  phase,      \* writing, walking or done
  rules,      \* the `when` of each rule, a sequence of tokens
  candidate,  \* member name |-> value
  snapshot,   \* [frozen_at, items : id |-> item]
  trace,      \* the state of each rule walked
  result      \* [outcome, reasons]

gateVars == <<corpus, phase, rules, candidate, snapshot, trace, result>>

C == Corpus(corpus)
OutcomeOf(ordinal) == C.declared[ordinal].outcome
requires_evidence(ordinal) == C.declared[ordinal].requires
Undecided == [outcome |-> "", reasons |-> {}]
Unfrozen == [frozen_at |-> adopted_at, items |-> <<>>]

--------------------------------------------------------------------------------
(* Instants                                                                     *)

_days_from_civil(y, month, day) ==
  LET year == IF month <= 2 THEN y - 1 ELSE y
      era == year \div 400
      year_of_era == year - era * 400
      day_of_year == (153 * (month + (IF month > 2 THEN -3 ELSE 9)) + 2) \div 5 + day - 1
      day_of_era == year_of_era * 365 + year_of_era \div 4 - year_of_era \div 100 + day_of_year IN
  era * 146097 + day_of_era - 719468
_instant(at) == _days_from_civil(at[1], at[2], at[3]) * 1440 + at[4] - at[5]
rulebook_applies(at) == _instant(at) >= _instant(adopted_at)

--------------------------------------------------------------------------------
(* Snapshots                                                                    *)

\* _check_status_and_value and the order of instants, for one acquisition.
AcceptableItem(item, frozen_at) ==
  /\ item.status = "ok" => item.value # <<>>
  /\ item.status = "missing" => item.value = <<>>
  /\ _instant(item.acquired_at) <= _instant(frozen_at)
\* build_snapshot: what was acquired, and a missing item for each required declaration
\* that was not; declined when the rulebook does not apply or an item is unacceptable.
Buildable(acquired, frozen_at) ==
  /\ rulebook_applies(frozen_at)
  /\ DOMAIN acquired \subseteq DOMAIN Declared
  /\ \A id \in DOMAIN acquired : AcceptableItem(acquired[id], frozen_at)
build_snapshot(acquired, frozen_at) ==
  LET missing == {id \in DOMAIN Declared : Declared[id].required /\ id \notin DOMAIN acquired} IN
  [frozen_at |-> frozen_at,
   items |-> [id \in DOMAIN acquired \union missing |->
                IF id \in missing THEN [status |-> "missing", value |-> <<>>, acquired_at |-> frozen_at] ELSE acquired[id]]]

--------------------------------------------------------------------------------
(* Evaluation of a rule                                                         *)

Ok(snap, id) == id \in DOMAIN snap.items /\ snap.items[id].status = "ok"

\* A state and the causes noted on the way.
Unsettled(id) == [state |-> "unsettled", causes |-> {id}]

\* The required evidence first, then the expression.
_rule_state(cand, snap, ordinal) ==
  LET lacking == {id \in requires_evidence(ordinal) : ~Ok(snap, id)} IN
  IF lacking # {} THEN Unsettled(CHOOSE id \in lacking : TRUE)
  ELSE EvaluateNode(cand, snap, ParseExpression(rules[ordinal]).tree)

--------------------------------------------------------------------------------
(* The machine                                                                  *)

Written == FoldLeft(LAMBDA n, when : n + Len(when), 0, rules)

GateInit ==
  /\ corpus \in Corpora /\ phase = "writing"
  /\ rules = <<<<>>>>
  /\ candidate = <<>> /\ snapshot = Unfrozen
  /\ trace = <<>> /\ result = Undecided

\* The author of the rulebook adds a phrase to the last rule, while what is there can
\* still become an expression, or begins another rule.
Write ==
  \E phrase \in C.phrases, r \in {Parse(rules[Len(rules)])} :
    /\ phase = "writing" /\ Written + Len(phrase) <= C.length
    /\ r.ok \/ r.pos > Len(rules[Len(rules)])
    /\ rules' = [rules EXCEPT ![Len(rules)] = @ \o phrase]
    /\ UNCHANGED <<corpus, phase, candidate, snapshot, trace, result>>
AddRule ==
  /\ phase = "writing" /\ Len(rules) < Len(C.declared) /\ Parse(rules[Len(rules)]).ok
  /\ rules' = Append(rules, <<>>)
  /\ UNCHANGED <<corpus, phase, candidate, snapshot, trace, result>>

\* _prepare: the rulebook applies, and each rule parses and names declared evidence; the
\* first failure, or none.
Refusal(r) ==
  IF ~r.ok THEN r.code
  ELSE IF EvidenceIds(r.tree) \subseteq DOMAIN Declared THEN "" ELSE "undeclared_evidence_id"
_prepare(frozen_at) ==
  LET refused == {i \in DOMAIN rules : Refusal(ParseExpression(rules[i])) # ""} IN
  IF ~rulebook_applies(frozen_at) THEN "rulebook_not_adopted"
  ELSE IF refused = {} THEN "" ELSE Refusal(ParseExpression(rules[Min(refused)]))
\* What the caller of evaluate gets then: an ERROR, or what is no VerifyError as it is.
Failed(failure) == [outcome |-> IF failure = "ValueError" THEN "raised" ELSE "ERROR", reasons |-> {failure}]
Freeze ==
  \E acquired \in C.acquisitions, cand \in C.candidates, frozen_at \in C.frozen :
    /\ phase = "writing" /\ rules[Len(rules)] # <<>>
    /\ Buildable(acquired, frozen_at)
    /\ snapshot' = build_snapshot(acquired, frozen_at)
    /\ candidate' = cand
    /\ \E failure \in {_prepare(frozen_at)} :
         IF failure = "" THEN phase' = "walking" /\ UNCHANGED result
         ELSE phase' = "done" /\ result' = Failed(failure)
    /\ UNCHANGED <<corpus, rules, trace>>

\* One round of _walk.
_walk ==
  LET ordinal == Len(trace) + 1 IN
  /\ phase = "walking"
  /\ \E rule \in {_rule_state(candidate, snapshot, ordinal)} :
       /\ trace' = Append(trace, rule.state)
       /\ result' = CASE rule.state = "true" -> [outcome |-> OutcomeOf(ordinal), reasons |-> {"rule"}]
                      [] rule.state = "unsettled" -> [outcome |-> "HOLD", reasons |-> rule.causes]
                      [] OTHER -> IF ordinal < Len(rules) THEN Undecided
                                  ELSE [outcome |-> default_outcome, reasons |-> {"default_outcome"}]
  /\ phase' = IF result' = Undecided THEN "walking" ELSE "done"
  /\ UNCHANGED <<corpus, rules, candidate, snapshot>>

GateNext == Write \/ AddRule \/ Freeze \/ _walk
GateSpec == GateInit /\ [][GateNext]_gateVars
================================================================================

---------------------------------- MODULE Gate ----------------------------------
(***************************************************************************)
(* What the expression of a rule comes to: values compared exactly, the    *)
(* portable glob, and the evaluation of a tree over a candidate and a      *)
(* snapshot.                                                               *)
(***************************************************************************)
EXTENDS Grammar, Evaluation

CONSTANT MAX_NUMERIC_DIGITS

ASSUME GateAssumption ==
  /\ MAX_NESTING \in Nat /\ MAX_DEPTH \in Nat /\ MAX_SAFE_DIGITS \in Nat /\ MAX_HOST_DIGITS \in Nat
  /\ MAX_NUMERIC_DIGITS \in Nat /\ MAX_SAFE_DIGITS <= MAX_HOST_DIGITS

--------------------------------------------------------------------------------
(* Exact values                                                                 *)

Absent == [k |-> "absent", v |-> <<>>]
RECURSIVE _equal(_, _)
_equal(left, right) ==
  /\ left.k = right.k
  /\ CASE left.k = "list" -> Len(left.v) = Len(right.v) /\ \A i \in DOMAIN left.v : _equal(left.v[i], right.v[i])
       [] OTHER -> left.v = right.v

\* _numeric_parts: the sign and the digits without the zeros that mean nothing.
TrimLeft(d) == SubSeq(d, Min({i \in DOMAIN d : d[i] # "0"} \union {Len(d)}), Len(d))
TrimRight(d) == SubSeq(d, 1, Max({i \in DOMAIN d : d[i] # "0"} \union {0}))
Parts(negative, whole, fraction) ==
  [ok |-> TRUE, sign |-> IF negative /\ (whole # <<"0">> \/ fraction # <<>>) THEN -1 ELSE 1,
   whole |-> whole, fraction |-> fraction]
WithinDigits(d) ==
  IF ~d.ok \/ Len(d.whole) + Len(d.fraction) > MAX_NUMERIC_DIGITS THEN [ok |-> FALSE]
  ELSE Parts(d.negative, TrimLeft(d.whole), TrimRight(d.fraction))
_numeric_parts(value) ==
  IF value.k \in {"integer", "string"} THEN WithinDigits(Decimal(value.v)) ELSE [ok |-> FALSE]

\* Equal-length digit texts order as their first difference does.
Lexical(a, b) ==
  LET differ == {i \in DOMAIN a : a[i] # b[i]} IN
  IF differ = {} THEN 0 ELSE IF Ord[a[Min(differ)]] < Ord[b[Min(differ)]] THEN -1 ELSE 1
Padded(d, width) == [i \in 1..width |-> IF i <= Len(d) THEN d[i] ELSE "0"]
MagnitudeUnpadded(a, b) ==
  IF Len(a.whole) # Len(b.whole) THEN IF Len(a.whole) < Len(b.whole) THEN -1 ELSE 1
  ELSE IF a.whole # b.whole THEN Lexical(a.whole, b.whole)
  ELSE IF Len(a.fraction) # Len(b.fraction) THEN IF Len(a.fraction) < Len(b.fraction) THEN -1 ELSE 1
  ELSE Lexical(a.fraction, b.fraction)
_compare_magnitude(a, b) ==
  LET width == Max({Len(a.fraction), Len(b.fraction)}) IN
  IF Len(a.whole) # Len(b.whole) THEN IF Len(a.whole) < Len(b.whole) THEN -1 ELSE 1
  ELSE IF a.whole # b.whole THEN Lexical(a.whole, b.whole)
  ELSE Lexical(Padded(a.fraction, width), Padded(b.fraction, width))
Incomparable == 2
CompareParts(a, b) ==
  IF ~a.ok \/ ~b.ok THEN Incomparable
  ELSE IF a.sign # b.sign THEN IF a.sign < b.sign THEN -1 ELSE 1
  ELSE a.sign * _compare_magnitude(a, b)
_compare_numeric(left, right) == CompareParts(_numeric_parts(left), _numeric_parts(right))

--------------------------------------------------------------------------------
(* The portable glob                                                            *)

_class_end(pattern, start) ==
  LET at(i, x) == i <= Len(pattern) /\ pattern[i] = x
      first == IF at(start + 1, "!") THEN start + 2 ELSE start + 1
      from == IF at(first, "]") THEN first + 1 ELSE first
      ends == {i \in from..Len(pattern) : pattern[i] = "]"} IN
  IF ends = {} THEN 0 ELSE Min(ends)

\* The ranges and single characters of a class, from an index on.
RECURSIVE InBody(_, _, _)
InBody(body, i, c) ==
  /\ i <= Len(body)
  /\ IF i + 2 <= Len(body) /\ body[i + 1] = "-"
     THEN (Ord[body[i]] <= Ord[c] /\ Ord[c] <= Ord[body[i + 2]]) \/ InBody(body, i + 3, c)
     ELSE body[i] = c \/ InBody(body, i + 1, c)
_in_class(body, c) ==
  LET negated == body # <<>> /\ Head(body) = "!" IN
  InBody(IF negated THEN Tail(body) ELSE body, 1, c) # negated

\* The position after the one element at position that matches, or 0.
SingleClass(pattern, position, end, c) ==
  IF end = 0 THEN IF c = "[" THEN position + 1 ELSE 0
  ELSE IF _in_class(SubSeq(pattern, position + 1, end - 1), c) THEN end + 1 ELSE 0
_single(pattern, position, c) ==
  LET marker == pattern[position] IN
  CASE marker = "*" -> 0
    [] marker = "?" -> position + 1
    [] marker = "[" -> SingleClass(pattern, position, _class_end(pattern, position), c)
    [] OTHER -> IF c = marker THEN position + 1 ELSE 0

\* The loop of _glob: only the latest `*` is resumed.
RECURSIVE GlobLoop(_, _, _)
GlobStep(pattern, text, at, next) ==
  IF next # 0 THEN GlobLoop(pattern, text, [at EXCEPT !.position = next, !.consumed = @ + 1, !.steps = @ + 1])
  ELSE IF at.position <= Len(pattern) /\ pattern[at.position] = "*"
  THEN GlobLoop(pattern, text, [at EXCEPT !.position = @ + 1, !.star = at.position, !.resume = at.consumed, !.steps = @ + 1])
  ELSE IF at.star = 0 THEN [matched |-> FALSE, steps |-> at.steps]
  ELSE GlobLoop(pattern, text, [at EXCEPT !.position = at.star + 1, !.consumed = at.resume + 1, !.resume = @ + 1, !.steps = @ + 1])
GlobLoop(pattern, text, at) ==
  IF at.consumed = Len(text)
  THEN [matched |-> \A i \in at.position..Len(pattern) : pattern[i] = "*", steps |-> at.steps]
  ELSE GlobStep(pattern, text, at,
                IF at.position <= Len(pattern) THEN _single(pattern, at.position, text[at.consumed + 1]) ELSE 0)
GlobFromFirstStar(pattern, text) ==
  GlobLoop(pattern, text, [position |-> 1, consumed |-> 0, star |-> SelectInSeq(pattern, LAMBDA c : c = "*"), resume |-> 0, steps |-> 0])
_glob(pattern, text) == GlobLoop(pattern, text, [position |-> 1, consumed |-> 0, star |-> 0, resume |-> 0, steps |-> 0])

--------------------------------------------------------------------------------
(* Evaluation                                                                   *)

_is_fresh(snap, id) ==
  /\ Ok(snap, id)
  /\ Declared[id].max_age >= 0 =>
       _instant(snap.frozen_at) - _instant(snap.items[id].acquired_at) <= Declared[id].max_age

Settled(holds) == [state |-> IF holds THEN "true" ELSE "false", causes |-> {}]
Operand == "operand_unsettled"

RECURSIVE _descend(_, _)
_descend(value, segments) ==
  IF segments = <<>> THEN value
  ELSE LET s == Head(segments) IN
       IF "member" \in DOMAIN s
       THEN IF value.k = "object" /\ s.member \in DOMAIN value.v THEN _descend(value.v[s.member], Tail(segments)) ELSE Absent
       ELSE IF value.k = "list" /\ s.index < Len(value.v) THEN _descend(value.v[s.index + 1], Tail(segments)) ELSE Absent

\* The value, in a one-element sequence: none is UNSETTLED.
_resolve(cand, snap, node) ==
  IF node.type = "literal" THEN <<node.value>>
  ELSE IF node.root = "evidence"
  THEN IF Ok(snap, node.segments[1].member)
       THEN <<_descend(snap.items[node.segments[1].member].value[1], Tail(node.segments))>> ELSE <<>>
  ELSE LET whole == [k |-> "object", v |-> cand] IN
       <<_descend(whole, IF node.root = "identity" THEN <<[member |-> "identity"]>> \o node.segments
                                                   ELSE node.segments)>>

\* The ids of the operands that do not resolve; a literal always does.
Gap(node, value) == IF value = <<>> THEN {node.segments[1].member} ELSE {}
Ordered(operator, order) ==
  IF order = Incomparable THEN Unsettled(Operand)
  ELSE Settled(CASE operator = "<" -> order < 0 [] operator = "<=" -> order <= 0
                 [] operator = ">" -> order > 0 [] OTHER -> order >= 0)
Compared(node, left, right) ==
  IF left = <<>> \/ right = <<>>
  THEN [state |-> "unsettled", causes |-> Gap(node.left, left) \union Gap(node.right, right)]
  ELSE IF node.operator \in {"==", "!="} THEN Settled(_equal(left[1], right[1]) = (node.operator = "=="))
  ELSE Ordered(node.operator, _compare_numeric(left[1], right[1]))
_evaluate_compare(cand, snap, node) ==
  Compared(node, _resolve(cand, snap, node.left), _resolve(cand, snap, node.right))
Member(node, value) ==
  IF value = <<>> THEN Unsettled(node.operand.segments[1].member)
  ELSE Settled((\E i \in DOMAIN node.list.v : _equal(value[1], node.list.v[i])) = (node.operator = "in"))
_evaluate_membership(cand, snap, node) == Member(node, _resolve(cand, snap, node.operand))
Matched(node, value) ==
  IF value = <<>> THEN Unsettled(node.path.segments[1].member)
  ELSE CASE value[1].k = "absent" -> Settled(FALSE)
         [] value[1].k = "string" -> Settled(_glob(node.pattern, value[1].v).matched)
         [] OTHER -> Unsettled(Operand)
_evaluate_matches(cand, snap, node) == Matched(node, _resolve(cand, snap, node.path))

\* _combine: every operand is evaluated, and one that is unsettled settles it.
CombineUntilKnown(kind, parts) ==
  LET decisive == {i \in DOMAIN parts : parts[i].state = (IF kind = "and" THEN "false" ELSE "true")} IN
  IF decisive # {} /\ \A i \in 1..Min(decisive) : parts[i].state # "unsettled"
  THEN Settled(kind = "or")
  ELSE IF \E i \in DOMAIN parts : parts[i].state = "unsettled"
  THEN parts[Min({i \in DOMAIN parts : parts[i].state = "unsettled"})]
  ELSE Settled(kind = "and")
_combine(kind, parts) ==
  IF \E i \in DOMAIN parts : parts[i].state = "unsettled"
  THEN [state |-> "unsettled", causes |-> UNION {parts[i].causes : i \in DOMAIN parts}]
  ELSE Settled(IF kind = "and" THEN \A i \in DOMAIN parts : parts[i].state = "true"
                               ELSE \E i \in DOMAIN parts : parts[i].state = "true")
NegatedAnyway(inner) == Settled(inner.state # "true")
Negated(inner) == IF inner.state = "unsettled" THEN inner ELSE Settled(inner.state = "false")

RECURSIVE _evaluate_node(_, _, _)
_evaluate_node(cand, snap, node) ==
  CASE node.type \in {"and", "or"} ->
         _combine(node.type, [i \in DOMAIN node.operands |-> _evaluate_node(cand, snap, node.operands[i])])
    [] node.type = "not" -> Negated(_evaluate_node(cand, snap, node.operand))
    [] node.type = "present" -> Settled(Ok(snap, node.evidence_id))
    [] node.type = "fresh" -> Settled(_is_fresh(snap, node.evidence_id))
    [] node.type = "matches" -> _evaluate_matches(cand, snap, node)
    [] node.type = "membership" -> _evaluate_membership(cand, snap, node)
    [] OTHER -> _evaluate_compare(cand, snap, node)

--------------------------------------------------------------------------------
(* Properties                                                                   *)

\* The text of a rule parses exactly if the grammar derives it within the declared
\* nesting and depth and the static checks admit it, and to the one tree the grammar
\* gives it: precedence, `not not`, chained comparisons, the operand that is no predicate.
ParsesTheGrammar ==
  phase = "writing" =>
    LET r == parse_expression(rules[Len(rules)]) IN
    Admitted(rules[Len(rules)]) = IF r.ok THEN {r.tree} ELSE {}

\* What the walk of a rulebook comes to, for comparing two snapshots.
RECURSIVE Decision(_, _)
Decision(snap, ordinal) ==
  IF ordinal > Len(rules) THEN default_outcome
  ELSE LET state == _rule_state(candidate, snap, ordinal).state IN
       CASE state = "true" -> OutcomeOf(ordinal) [] state = "unsettled" -> "HOLD" [] OTHER -> Decision(snap, ordinal + 1)
RECURSIVE AsksFor(_)
AsksFor(node) ==
  CASE node.type \in {"and", "or"} -> UNION {AsksFor(node.operands[i]) : i \in DOMAIN node.operands}
    [] node.type = "not" -> AsksFor(node.operand)
    [] node.type \in {"present", "fresh"} -> {node.evidence_id}
    [] OTHER -> {}
\* Losing a piece of evidence never changes a decision except to HOLD, unless a rule
\* asks whether it is present or fresh: a gap is not taken for a false predicate, under
\* no negation and in no operand.
LosingEvidenceHolds ==
  (phase = "done" /\ result.outcome \in {"ALLOW", "BLOCK", "HOLD"}) =>
    \A id \in DOMAIN snapshot.items :
      (\A i \in DOMAIN rules : id \notin AsksFor(parse(rules[i]).tree)) =>
        Decision([snapshot EXCEPT !.items[id].status = "error"], 1) \in {result.outcome, "HOLD"}

RECURSIVE Reads(_)
Reads(node) ==
  CASE node.type \in {"and", "or"} -> UNION {Reads(node.operands[i]) : i \in DOMAIN node.operands}
    [] node.type \in {"not", "membership"} -> Reads(node.operand)
    [] node.type = "compare" -> Reads(node.left) \union Reads(node.right)
    [] node.type = "matches" -> Reads(node.path)
    [] node.type = "path" /\ node.root = "evidence" -> {node.segments[1].member}
    [] OTHER -> {}
\* A rule that holds names every gap: each piece of evidence its expression reads that is
\* not ok, whichever operand reads it; and no decision rests on a rule with a gap.
EveryGapIsNamed ==
  (phase = "done" /\ trace # <<>>) =>
    LET gaps(i) == {id \in Reads(parse(rules[i]).tree) : ~Ok(snapshot, id)} IN
    /\ \A i \in DOMAIN trace : trace[i] # "unsettled" => gaps(i) = {}
    /\ (trace[Len(trace)] = "unsettled" /\ \A id \in requires_evidence(Len(trace)) : Ok(snapshot, id)) =>
         result.reasons \ {Operand} = gaps(Len(trace)) /\ result.reasons # {}

\* Decimals as numbers: hundredths, and the days of the calendar counted one by one.
Hundredths(value) ==
  LET d == Decimal(value.v) IN
  (IF d.negative THEN -1 ELSE 1) * (100 * Number(d.whole) + Number(Padded(d.fraction, 2)))
Leap(y) == y % 4 = 0 /\ (y % 100 = 0 => y % 400 = 0)
DaysIn(y, m) == CASE m = 2 -> IF Leap(y) THEN 29 ELSE 28 [] m \in {4, 6, 9, 11} -> 30 [] OTHER -> 31
Days(at) ==
  365 * (at[1] - 1890) + Cardinality({y \in 1890..(at[1] - 1) : Leap(y)})
  + Cardinality({d \in (1..(at[2] - 1)) \X (1..31) : d[2] <= DaysIn(at[1], d[1])}) + at[3]
\* Comparisons and ages are exact: the digits order as the numbers they denote (signs,
\* zeros that mean nothing, fractions of unequal length), what is past the bound is not
\* compared, and evidence is fresh by the time that elapsed, whatever the two offsets.
ComparesExactly ==
  phase = "done" =>
    /\ {"x", "y"} \subseteq DOMAIN candidate =>
         LET order == _compare_numeric(candidate.x, candidate.y)
             difference == Hundredths(candidate.x) - Hundredths(candidate.y)
             long(v) == Len(SelectSeq(v.v, LAMBDA c : c \in Digit)) > MAX_NUMERIC_DIGITS IN
         IF ~_is_numeric(candidate.x) \/ ~_is_numeric(candidate.y) \/ long(candidate.x) \/ long(candidate.y)
         THEN order = Incomparable
         ELSE order = IF difference < 0 THEN -1 ELSE IF difference = 0 THEN 0 ELSE 1
    /\ \A id \in DOMAIN snapshot.items :
         LET a == snapshot.items[id].acquired_at
             f == snapshot.frozen_at
             age == 1440 * (Days(f) - Days(a)) + (f[4] - f[5]) - (a[4] - a[5]) IN
         _is_fresh(snapshot, id) = (Ok(snapshot, id) /\ (Declared[id].max_age >= 0 => age <= Declared[id].max_age))

\* What a pattern means: every split at a `*`; a class ends at the first bracket with
\* something before it, an exclamation mark aside, and is the set of characters its ranges and
\* single characters cover, or its complement.
RECURSIVE Covered(_)
Covered(items) ==
  IF items = <<>> THEN {}
  ELSE IF Len(items) >= 3 /\ items[2] = "-"
  THEN {c \in DOMAIN Ord : Ord[c] \in Ord[items[1]]..Ord[items[3]]} \union Covered(SubSeq(items, 4, Len(items)))
  ELSE {Head(items)} \union Covered(Tail(items))
RECURSIVE Globs(_, _)
Globs(p, t) ==
  LET inverted == Len(p) > 1 /\ p[2] = "!"
      from == IF inverted THEN 3 ELSE 2
      closing == {i \in (from + 1)..Len(p) : p[i] = "]"}
      one(set, to) == t # <<>> /\ Head(t) \in set /\ Globs(SubSeq(p, to + 1, Len(p)), Tail(t)) IN
  CASE p = <<>> -> t = <<>>
    [] p # <<>> /\ Head(p) = "*" -> \E i \in 0..Len(t) : Globs(Tail(p), SubSeq(t, i + 1, Len(t)))
    [] p # <<>> /\ Head(p) = "?" -> one(Range(t), 1)
    [] p # <<>> /\ Head(p) = "[" /\ closing # {} ->
         LET set == Covered(SubSeq(p, from, Min(closing) - 1)) IN
         one(IF inverted THEN Range(t) \ set ELSE set, Min(closing))
    [] OTHER -> one({Head(p)}, 1)
\* Resuming the latest `*` only finds a match whenever some split has one, a class is
\* read to its end and covers what its ranges say, and the steps are no more than the
\* pattern's and the text's lengths allow (_glob, _class_end, _in_class).
GlobIsExact ==
  phase = "done" =>
    \A i \in DOMAIN rules :
      LET r == parse(rules[i]) IN
      (r.ok /\ r.tree.type = "matches" /\ candidate.x.k = "string") =>
        \E g \in {_glob(r.tree.pattern, candidate.x.v)} :
          /\ g.matched = Globs(r.tree.pattern, candidate.x.v)
          /\ g.steps <= (Len(r.tree.pattern) + 1) * (Len(candidate.x.v) + 1)
================================================================================

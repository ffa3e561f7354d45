---------------------------------- MODULE Expr ----------------------------------
(***************************************************************************)
(* expr.parse_expression: the recursive-descent parser of a rule's `when`, *)
(* from tokens to the tree the gate evaluates.                             *)
(*                                                                         *)
(* A token is a word, a symbol, an integer or a string with its text as a  *)
(* sequence of characters; blanks and the wording and place of a failure   *)
(* are left out.  A value is its kind and its text, or its members.  Each  *)
(* parsing operator takes the tokens, the cursor and the nesting, and      *)
(* returns the tree and the cursor behind it, or the cursor at which it    *)
(* failed.                                                                 *)
(***************************************************************************)
EXTENDS Integers, Sequences, SequencesExt, FiniteSets, FiniteSetsExt, TLC

CONSTANTS
  MAX_NESTING,    \* of parentheses and lists
  MAX_DEPTH,      \* of the document that holds a tree (load)
  MAX_SAFE_DIGITS,\* of an integer: stands for the bound 2^53 - 1
  MAX_HOST_DIGITS \* of a text that int() converts: sys.get_int_max_str_digits

PATH_ROOTS == {"candidate", "evidence", "identity"}
FUNCTIONS == {"fresh", "present", "matches"}
KEYWORDS == {"and", "or", "not", "in", "true", "false"} \union FUNCTIONS
COMPARISON_OPERATORS == {"==", "!=", "<=", ">=", "<", ">"}

\* The characters the model uses, by code point.
Ord == ("!" :> 33) @@ ("*" :> 42) @@ ("-" :> 45) @@ ("." :> 46) @@ ("0" :> 48) @@ ("1" :> 49)
       @@ ("2" :> 50) @@ ("9" :> 57) @@ ("?" :> 63) @@ ("[" :> 91) @@ ("]" :> 93) @@ ("a" :> 97)
       @@ ("b" :> 98) @@ ("c" :> 99)
Digit == {"0", "1", "2", "9"}
Number(digits) == FoldLeft(LAMBDA n, c : 10 * n + Ord[c] - 48, 0, digits)

\* What is at the cursor: a word, a symbol, or a token of another kind.
Peek(s, p) == IF p <= Len(s) THEN s[p] ELSE [t |-> "end", v |-> <<"">>]
Word(s, p) == IF Peek(s, p).t = "word" THEN s[p].v[1] ELSE ""
Sym(s, p, x) == Peek(s, p).t = "sym" /\ s[p].v[1] = x
Operator(s, p) == Peek(s, p).t = "sym" /\ s[p].v[1] \in COMPARISON_OPERATORS

Parsed(p, tree) == [ok |-> TRUE, pos |-> p, tree |-> tree, code |-> ""]
_fail(p) == [ok |-> FALSE, pos |-> p, tree |-> <<>>, code |-> "expression_parse_error"]
_type_fail(p) == [ok |-> FALSE, pos |-> p, tree |-> <<>>, code |-> "expression_type_error"]
\* int() of too many digits, which is no failure the parser declares.
_value_error(p) == [ok |-> FALSE, pos |-> p, tree |-> <<>>, code |-> "ValueError"]
\* Go on from a result, unless it is a failure.
Then(r, Next(_)) == IF r.ok THEN Next(r) ELSE r
_take_symbol(s, r, x) == Then(r, LAMBDA q : IF Sym(s, q.pos, x) THEN [q EXCEPT !.pos = @ + 1] ELSE _fail(q.pos))

--------------------------------------------------------------------------------
(* Literals, paths and calls                                                    *)

_STRING_ESCAPES == ("\"" :> "\"") @@ ("\\" :> "\\") @@ ("b" :> "backspace") @@ ("t" :> "\t")
                   @@ ("n" :> "\n") @@ ("f" :> "\f") @@ ("r" :> "\r")
\* The text a string literal denotes: escapes are a backslash and a marker, a \u
\* takes the code unit that follows.
RECURSIVE Pieces(_, _)
Pieces(raw, denoted) ==
  LET rest(n) == SubSeq(raw, n + 1, Len(raw)) IN
  CASE raw = <<>> -> [ok |-> TRUE, v |-> denoted]
    [] raw # <<>> /\ raw[1] \notin {"\\", "\n"} -> Pieces(rest(1), Append(denoted, raw[1]))
    [] Len(raw) > 1 /\ raw[1] = "\\" /\ raw[2] \in DOMAIN _STRING_ESCAPES ->
           Pieces(rest(2), Append(denoted, _STRING_ESCAPES[raw[2]]))
    [] Len(raw) > 2 /\ raw[1] = "\\" /\ raw[2] = "u" /\ raw[3] # "D800" -> Pieces(rest(3), Append(denoted, raw[3]))
    [] OTHER -> [ok |-> FALSE, v |-> <<>>]
StringAt(p, text) == IF text.ok THEN Parsed(p + 1, [k |-> "string", v |-> text.v]) ELSE _fail(p)
_string_literal(s, p) == StringAt(p, Pieces(s[p].v, <<>>))

Digits(text) == Cardinality({i \in DOMAIN text : text[i] # "-"})
_integer_literal(s, p) ==
  IF Sym(s, p + 1, ".") THEN _fail(p + 1)
  ELSE IF Digits(s[p].v) > MAX_HOST_DIGITS THEN _value_error(p + 1)
  ELSE IF Digits(s[p].v) > MAX_SAFE_DIGITS THEN _fail(p + 1)
  ELSE Parsed(p + 1, [k |-> "integer", v |-> s[p].v])

RECURSIVE _list_member(_, _, _)
\* The members after an opening bracket, none or separated by commas.
RECURSIVE ListMembers(_, _, _, _)
ListMembers(s, p, n, members) ==
  Then(_list_member(s, p, n), LAMBDA r :
    LET all == Append(members, r.tree) IN
    IF Sym(s, r.pos, ",") THEN IF Sym(s, r.pos + 1, "]") THEN _fail(r.pos + 1)
                                                        ELSE ListMembers(s, r.pos + 1, n, all)
    ELSE _take_symbol(s, Parsed(r.pos, [k |-> "list", v |-> all]), "]"))
_list_literal(s, p, n) ==
  IF n >= MAX_NESTING THEN _fail(p)
  ELSE IF Sym(s, p + 1, "]") THEN Parsed(p + 2, [k |-> "list", v |-> <<>>])
  ELSE ListMembers(s, p + 1, n + 1, <<>>)
_list_member(s, p, n) ==
  CASE Word(s, p) \in {"true", "false"} -> Parsed(p + 1, [k |-> "boolean", v |-> s[p].v])
    [] Peek(s, p).t = "string" -> _string_literal(s, p)
    [] Sym(s, p, "[") -> _list_literal(s, p, n)
    [] Peek(s, p).t = "integer" -> _integer_literal(s, p)
    [] OTHER -> _fail(p)

\* The segments of a path: any word is a member name, a keyword too, and any index that
\* int() converts.
Index(s, p) == Sym(s, p, "[") /\ Peek(s, p + 1).t = "integer" /\ Head(Peek(s, p + 1).v) # "-"
RECURSIVE Segments(_, _, _, _)
Segments(s, p, root, found) ==
  CASE Sym(s, p, ".") /\ Word(s, p + 1) # "" ->
         Segments(s, p + 2, root, Append(found, [member |-> Word(s, p + 1)]))
    [] Index(s, p) /\ Digits(s[p + 1].v) > MAX_HOST_DIGITS -> _value_error(p + 2)
    [] Index(s, p) /\ Digits(s[p + 1].v) <= MAX_HOST_DIGITS /\ Sym(s, p + 2, "]") ->
         Segments(s, p + 3, root, Append(found, [index |-> Number(s[p + 1].v)]))
    [] OTHER -> IF Sym(s, p, ".") \/ Sym(s, p, "[") THEN _fail(Max({i \in p..(p + 2) : i <= Len(s) + 1}))
                ELSE Parsed(p, [type |-> "path", root |-> root, segments |-> found])
_path(s, p) ==
  IF Sym(s, p + 1, ".") /\ Word(s, p + 2) # ""
  THEN Segments(s, p + 3, Word(s, p), <<[member |-> Word(s, p + 2)]>>)
  ELSE _fail(IF Sym(s, p + 1, ".") THEN p + 2 ELSE p + 1)

_operand(s, p, n) ==
  IF Word(s, p) \in PATH_ROOTS THEN _path(s, p)
  ELSE Then(_list_member(s, p, n), LAMBDA r : [r EXCEPT !.tree = [type |-> "literal", value |-> r.tree]])

\* One argument that is an identifier, or a path and a pattern.
_function(s, p) ==
  LET name == Word(s, p) IN
  IF ~Sym(s, p + 1, "(") THEN _fail(p + 1)
  ELSE IF name # "matches"
  THEN IF Word(s, p + 2) \in KEYWORDS \union {""} THEN _type_fail(p + 2)
       ELSE IF ~Sym(s, p + 3, ")") THEN _type_fail(p + 3)
       ELSE Parsed(p + 4, [type |-> name, evidence_id |-> Word(s, p + 2)])
  ELSE IF Word(s, p + 2) \notin PATH_ROOTS THEN _type_fail(p + 2)
  ELSE Then(_path(s, p + 2), LAMBDA path :
         IF ~Sym(s, path.pos, ",") THEN _type_fail(path.pos)
         ELSE IF Peek(s, path.pos + 1).t # "string" THEN _type_fail(path.pos + 1)
         ELSE Then(_string_literal(s, path.pos + 1), LAMBDA text :
                IF ~Sym(s, text.pos, ")") THEN _type_fail(text.pos)
                ELSE Parsed(text.pos + 1, [type |-> "matches", path |-> path.tree, pattern |-> text.tree.v])))

--------------------------------------------------------------------------------
(* Predicates and their combination                                             *)

\* The canonical decimal of a text: its sign and its digits, or not one.
DecimalParts(negative, whole, fraction, dotted) ==
  [ok |-> /\ whole # <<>> /\ (Len(whole) > 1 => Head(whole) # "0") /\ (dotted => fraction # <<>>)
          /\ Range(whole) \union Range(fraction) \subseteq Digit,
   negative |-> negative, whole |-> whole, fraction |-> fraction]
Unsigned(negative, body) ==
  LET dot == SelectInSeq(body, LAMBDA c : c = ".") IN
  IF dot = 0 THEN DecimalParts(negative, body, <<>>, FALSE)
  ELSE DecimalParts(negative, SubSeq(body, 1, dot - 1), SubSeq(body, dot + 1, Len(body)), TRUE)
Decimal(text) ==
  IF text # <<>> /\ Head(text) = "-" THEN Unsigned(TRUE, Tail(text)) ELSE Unsigned(FALSE, text)
_is_numeric(value) == value.k = "integer" \/ (value.k = "string" /\ Decimal(value.v).ok)
\* _check_literal_comparison.
Comparable(operator, left, right) ==
  (left.type = "literal" /\ right.type = "literal") =>
    /\ left.value.k = right.value.k
    /\ operator \in {"==", "!="} \/ (_is_numeric(left.value) /\ _is_numeric(right.value))

_membership(s, p, n, operand, operator) ==
  IF ~Sym(s, p, "[") THEN _type_fail(p)
  ELSE Then(_list_literal(s, p, n), LAMBDA r :
         Parsed(r.pos, [type |-> "membership", operator |-> operator, operand |-> operand, list |-> r.tree]))

_comparison(s, p, n) ==
  IF Word(s, p) \in FUNCTIONS THEN _function(s, p)
  ELSE Then(_operand(s, p, n), LAMBDA left :
    CASE Word(s, left.pos) = "not" ->
           IF Word(s, left.pos + 1) = "in" THEN _membership(s, left.pos + 2, n, left.tree, "not in")
                                           ELSE _fail(left.pos + 1)
      [] Word(s, left.pos) = "in" -> _membership(s, left.pos + 1, n, left.tree, "in")
      [] Operator(s, left.pos) ->
           Then(_operand(s, left.pos + 1, n), LAMBDA right :
             IF Operator(s, right.pos) THEN _fail(right.pos)
             ELSE IF ~Comparable(s[left.pos].v[1], left.tree, right.tree) THEN _type_fail(right.pos)
             ELSE Parsed(right.pos, [type |-> "compare", operator |-> s[left.pos].v[1],
                                     left |-> left.tree, right |-> right.tree]))
      [] OTHER -> _fail(left.pos))

RECURSIVE _or_expression(_, _, _)
\* A parenthesis within the declared nesting, or a comparison, and its negation.
Negatable(s, p, n, negated) ==
  Then(IF ~Sym(s, p, "(") THEN _comparison(s, p, n)
       ELSE IF n >= MAX_NESTING THEN _fail(p)
       ELSE _take_symbol(s, _or_expression(s, p + 1, n + 1), ")"),
       LAMBDA r : IF negated THEN [r EXCEPT !.tree = [type |-> "not", operand |-> r.tree]] ELSE r)
NotRepeatedly(s, p, n) ==
  IF Word(s, p) # "not" THEN Negatable(s, p, n, FALSE)
  ELSE Negatable(s, IF Word(s, p + 1) = "not" THEN p + 2 ELSE p + 1, n, TRUE)
_not_expression(s, p, n) ==
  LET negated == Word(s, p) = "not" IN
  IF negated /\ Word(s, p + 1) = "not" THEN _fail(p + 1)
  ELSE Negatable(s, IF negated THEN p + 1 ELSE p, n, negated)

\* A run of operands is one node, a single operand is itself.
Node(word, operands) == IF Len(operands) = 1 THEN operands[1] ELSE [type |-> word, operands |-> operands]
RECURSIVE Conjuncts(_, _, _, _)
Conjuncts(s, p, n, operands) ==
  Then(_not_expression(s, p, n), LAMBDA r :
    LET all == Append(operands, r.tree) IN
    IF Word(s, r.pos) = "and" THEN Conjuncts(s, r.pos + 1, n, all) ELSE Parsed(r.pos, Node("and", all)))
_and_expression(s, p, n) == Conjuncts(s, p, n, <<>>)
RECURSIVE Disjuncts(_, _, _, _)
Disjuncts(s, p, n, operands) ==
  Then(_and_expression(s, p, n), LAMBDA r :
    LET all == Append(operands, r.tree) IN
    IF Word(s, r.pos) = "or" THEN Disjuncts(s, r.pos + 1, n, all) ELSE Parsed(r.pos, Node("or", all)))
_or_expression(s, p, n) == Disjuncts(s, p, n, <<>>)

parse(s) ==
  IF s = <<>> THEN _fail(1)
  ELSE Then(_or_expression(s, 1, 0), LAMBDA r : IF r.pos <= Len(s) THEN _fail(r.pos) ELSE r)

\* How deep the tree nests as a document of objects and arrays.
RECURSIVE ValueDepth(_)
ValueDepth(value) == IF value.k # "list" THEN 0 ELSE 1 + Max({0} \union {ValueDepth(value.v[i]) : i \in DOMAIN value.v})
RECURSIVE Depth(_)
Depth(node) ==
  CASE node.type = "path" -> 3
    [] node.type = "literal" -> 1 + ValueDepth(node.value)
    [] node.type \in {"and", "or"} -> 2 + Max({Depth(node.operands[i]) : i \in DOMAIN node.operands})
    [] node.type = "not" -> 1 + Depth(node.operand)
    [] node.type = "compare" -> 1 + Max({Depth(node.left), Depth(node.right)})
    [] node.type = "membership" -> 1 + Max({Depth(node.operand), 1 + ValueDepth(node.list)})
    [] node.type = "matches" -> 1 + Depth(node.path)
    [] OTHER -> 1
RECURSIVE Indexes(_)
Indexes(node) ==
  CASE node.type = "path" -> {node.segments[i].index : i \in {i \in DOMAIN node.segments : "index" \in DOMAIN node.segments[i]}}
    [] node.type \in {"and", "or"} -> UNION {Indexes(node.operands[i]) : i \in DOMAIN node.operands}
    [] node.type \in {"not", "membership"} -> Indexes(node.operand)
    [] node.type = "compare" -> Indexes(node.left) \union Indexes(node.right)
    [] node.type = "matches" -> Indexes(node.path)
    [] OTHER -> {}
\* The tree is made canonical, which only its indexes may refuse, and loaded again at
\* every evaluation, so what does not load is refused here.
Unusable(tree) ==
  IF \E index \in Indexes(tree) : index >= 10 ^ MAX_SAFE_DIGITS THEN "canonical_form_invalid"
  ELSE IF Depth(tree) > MAX_DEPTH THEN "source_too_deep" ELSE ""
parse_expression(s) ==
  Then(parse(s), LAMBDA r : [r EXCEPT !.ok = Unusable(r.tree) = "", !.code = Unusable(r.tree)])

RECURSIVE _collect_evidence_ids(_)
_collect_evidence_ids(node) ==
  CASE node.type \in {"fresh", "present"} -> {node.evidence_id}
    [] node.type = "path" -> IF node.root = "evidence" THEN {node.segments[1].member} ELSE {}
    [] node.type \in {"and", "or"} -> UNION {_collect_evidence_ids(node.operands[i]) : i \in DOMAIN node.operands}
    [] node.type \in {"not", "membership"} -> _collect_evidence_ids(node.operand)
    [] node.type = "compare" -> _collect_evidence_ids(node.left) \union _collect_evidence_ids(node.right)
    [] node.type = "matches" -> _collect_evidence_ids(node.path)
    [] OTHER -> {}
================================================================================

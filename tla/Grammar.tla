--------------------------------- MODULE Grammar ---------------------------------
(***************************************************************************)
(* The grammar of spec/expression-language.md as sets: every derivation of *)
(* a sequence of tokens, by trying every split, with the tree it denotes   *)
(* and its nesting.  The reference against which the parser is checked.    *)
(***************************************************************************)
EXTENDS Expr

Derivation(tree, nest) == [tree |-> tree, nest |-> nest]
Nest(a, b) == Max({a.nest, b.nest})
Before(s, i) == SubSeq(s, 1, i - 1)
After(s, i) == SubSeq(s, i + 1, Len(s))
Between(s) == SubSeq(s, 2, Len(s) - 1)
\* Both ends are these symbols and something may stand between.
Enclosed(s, open, close) == Len(s) >= 2 /\ Sym(s, 1, open) /\ Sym(s, Len(s), close)

\* The escapes canonical form emits, beside \u.
Escapes == {<<"\"", "\"">>, <<"\\", "\\">>, <<"b", "backspace">>, <<"t", "\t">>, <<"n", "\n">>, <<"f", "\f">>, <<"r", "\r">>}
\* The texts that a string between quotes spells: what each of its units may be.
Spellings(raw) ==
  {<<<<c>>, c>> : c \in Range(raw) \ {"\\", "\n"}}
  \union {<<<<"\\", e[1]>>, e[2]>> : e \in Escapes}
  \union {<<<<"\\", "u", c>>, c>> : c \in Range(raw) \ {"D800"}}
RECURSIVE Readings(_)
Readings(raw) ==
  IF raw = <<>> THEN {<<>>}
  ELSE UNION {{<<unit[2]>> \o text : text \in Readings(SubSeq(raw, Len(unit[1]) + 1, Len(raw)))} :
              unit \in {unit \in Spellings(raw) : IsPrefix(unit[1], raw)}}

\* literal := string | integer | true | false | list
Safe(text) == Len(text) <= MAX_SAFE_DIGITS + (IF Head(text) = "-" THEN 1 ELSE 0)
RECURSIVE Members(_)
Literals(s) ==
  LET one == Len(s) = 1 IN
  (IF one /\ Word(s, 1) \in {"true", "false"} THEN {Derivation([k |-> "boolean", v |-> s[1].v], 0)} ELSE {})
  \union (IF one /\ s[1].t = "string" THEN {Derivation([k |-> "string", v |-> text], 0) : text \in Readings(s[1].v)} ELSE {})
  \union (IF one /\ s[1].t = "integer" /\ Safe(s[1].v)
          THEN {Derivation([k |-> "integer", v |-> s[1].v], 0)} ELSE {})
  \union (IF Enclosed(s, "[", "]")
          THEN {Derivation([k |-> "list", v |-> m.tree], m.nest + 1) :
                  m \in Members(Between(s)) \union (IF Len(s) = 2 THEN {Derivation(<<>>, 0)} ELSE {})} ELSE {})
Members(s) ==
  {Derivation(<<x.tree>>, x.nest) : x \in Literals(s)}
  \union UNION {{Derivation(Append(m.tree, x.tree), Nest(m, x)) : m \in Members(Before(s, i)), x \in Literals(After(s, i))} :
                i \in {i \in DOMAIN s : Sym(s, i, ",")}}

\* path := root { "." ident | "[" index "]" }, with at least one member
RECURSIVE Steps(_)
Steps(s) ==
  IF s = <<>> THEN {<<>>}
  ELSE (IF Sym(s, 1, ".") /\ Word(s, 2) # "" THEN {<<[member |-> Word(s, 2)]>> \o t : t \in Steps(SubSeq(s, 3, Len(s)))} ELSE {})
       \union (IF Len(s) >= 3 /\ Enclosed(SubSeq(s, 1, 3), "[", "]") /\ s[2].t = "integer" /\ s[2].v[1] # "-" /\ Safe(s[2].v)
               THEN {<<[index |-> Number(s[2].v)]>> \o t : t \in Steps(SubSeq(s, 4, Len(s)))} ELSE {})
Paths(s) ==
  IF Word(s, 1) \in PATH_ROOTS /\ Sym(s, 2, ".")
  THEN {Derivation([type |-> "path", root |-> Word(s, 1), segments |-> t], 0) : t \in Steps(Tail(s))} ELSE {}
Operands(s) == Paths(s) \union {Derivation([type |-> "literal", value |-> x.tree], x.nest) : x \in Literals(s)}

\* comparison := operand op operand | membership | freshness | presence | glob
Comparisons(s) ==
  UNION {{Derivation([type |-> "compare", operator |-> s[i].v[1], left |-> a.tree, right |-> b.tree], Nest(a, b)) :
            a \in Operands(Before(s, i)), b \in Operands(After(s, i))} : i \in {i \in DOMAIN s : Operator(s, i)}}
  \union UNION {LET negated == i > 1 /\ Word(s, i - 1) = "not"
                    list == After(s, i) IN
                {Derivation([type |-> "membership", operator |-> IF negated THEN "not in" ELSE "in",
                             operand |-> a.tree, list |-> b.tree], Nest(a, b)) :
                   a \in Operands(Before(s, IF negated THEN i - 1 ELSE i)),
                   b \in IF Sym(list, 1, "[") THEN Literals(list) ELSE {}} : i \in {i \in DOMAIN s : Word(s, i) = "in"}}
  \union (IF /\ Len(s) = 4 /\ Word(s, 1) \in {"fresh", "present"} /\ Enclosed(Tail(s), "(", ")")
             /\ Word(s, 3) \notin KEYWORDS \union {""}
          THEN {Derivation([type |-> Word(s, 1), evidence_id |-> Word(s, 3)], 0)} ELSE {})
  \union (IF /\ Len(s) >= 8 /\ Word(s, 1) = "matches" /\ Enclosed(Tail(s), "(", ")")
             /\ Sym(s, Len(s) - 2, ",") /\ s[Len(s) - 1].t = "string"
          THEN {Derivation([type |-> "matches", path |-> a.tree, pattern |-> text], 0) :
                  a \in Paths(SubSeq(s, 3, Len(s) - 3)), text \in Readings(s[Len(s) - 1].v)} ELSE {})

\* not_expr := [ "not" ] ( comparison | "(" expr ")" )
RECURSIVE Expressions(_)
Primaries(s) ==
  Comparisons(s) \union (IF Enclosed(s, "(", ")") THEN {[e EXCEPT !.nest = @ + 1] : e \in Expressions(Between(s))} ELSE {})
Negations(s) ==
  Primaries(s) \union (IF Word(s, 1) = "not"
                       THEN {Derivation([type |-> "not", operand |-> e.tree], e.nest) : e \in Primaries(Tail(s))} ELSE {})

\* A run of and_expr or or_expr, flat and in source order.
RECURSIVE Runs(_, _)
Runs(word, s) ==
  LET One(t) == IF word = "and" THEN Negations(t)
                ELSE {Derivation(Node("and", r.tree), r.nest) : r \in Runs("and", t)} IN
  {Derivation(<<e.tree>>, e.nest) : e \in One(s)}
  \union UNION {{Derivation(Append(r.tree, e.tree), Nest(r, e)) : r \in Runs(word, Before(s, i)), e \in One(After(s, i))} :
                i \in {i \in DOMAIN s : Word(s, i) = word}}
Expressions(s) == {Derivation(Node("or", r.tree), r.nest) : r \in Runs("or", s)}

\* An integer, or a string that spells a canonical decimal.
CanonicalDecimal(v) ==
  \E from \in 0..1, to \in 1..Len(v) :
    /\ from < to /\ (from = 1 <=> v[1] = "-")
    /\ \A i \in (from + 1)..to : v[i] \in Digit
    /\ v[from + 1] = "0" => to = from + 1
    /\ to < Len(v) => to + 1 < Len(v) /\ v[to + 1] = "." /\ \A i \in (to + 2)..Len(v) : v[i] \in Digit
Numeric(value) == value.k = "integer" \/ (value.k = "string" /\ CanonicalDecimal(value.v))
\* What the static checks leave of a tree: two literals of one type, and numbers only
\* where an order is asked for.
RECURSIVE WellTyped(_)
WellTyped(node) ==
  CASE node.type \in {"and", "or"} -> \A i \in DOMAIN node.operands : WellTyped(node.operands[i])
    [] node.type = "not" -> WellTyped(node.operand)
    [] node.type = "compare" /\ {node.left.type, node.right.type} = {"literal"} ->
         /\ node.left.value.k = node.right.value.k
         /\ node.operator \in {"<", "<=", ">", ">="} => Numeric(node.left.value) /\ Numeric(node.right.value)
    [] OTHER -> TRUE
Admitted(s) ==
  {e.tree : e \in {e \in Expressions(s) : e.nest <= MAX_NESTING /\ WellTyped(e.tree) /\ Depth(e.tree) <= MAX_DEPTH}}
================================================================================

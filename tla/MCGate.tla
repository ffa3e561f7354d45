--------------------------------- MODULE MCGate ---------------------------------
(***************************************************************************)
(* Eleven corpora: predicates and their combination over evidence that     *)
(* comes and goes, rules in other orders, operands and lists, calls and    *)
(* paths token by token, escapes and bounds of integers, pairs of          *)
(* decimals, instants around the turns of the calendar, patterns, classes, *)
(* and decisions that are recorded and replayed.                           *)
(***************************************************************************)
EXTENDS Gate, Receipt

W(x) == [t |-> "word", v |-> <<x>>]
S(x) == [t |-> "sym", v |-> <<x>>]
I(x) == [t |-> "integer", v |-> x]
T(x) == [t |-> "string", v |-> x]
Path(root, name) == <<W(root), S("."), W(name)>>
One(set) == {<<x>> : x \in set}

Text(x) == [k |-> "string", v |-> x]
Num(x) == [k |-> "integer", v |-> x]
Item(status, value, at) == [status |-> status, value |-> value, acquired_at |-> at]

\* Midnights at which months, leap days and centuries turn, one of them written with an
\* offset of five hours.
Epoch == <<1895, 1, 1, 0, 0>>
Now == <<2000, 3, 1, 0, 0>>
Midnights == {<<1900, 2, 28, 0, 0>>, <<1900, 3, 1, 0, 0>>, <<1999, 12, 31, 0, 0>>, <<2000, 1, 1, 0, 0>>,
              <<2000, 2, 28, 0, 0>>, <<2000, 2, 29, 0, 0>>, <<2000, 3, 1, 0, 0>>, <<2000, 3, 1, 300, 300>>,
              <<2000, 3, 1, 0, 300>>, <<2100, 2, 28, 0, 0>>, <<2100, 3, 1, 0, 0>>}

MCDeclared == ("e1" :> [required |-> TRUE, max_age |-> 1440]) @@ ("e2" :> [required |-> FALSE, max_age |-> -1])

\* Each piece of evidence acquired with one value or another, failed, or not acquired.
Outcome1 == {Item("ok", <<Text(<<"a">>)>>, Now), Item("ok", <<Text(<<"b">>)>>, Epoch), Item("error", <<>>, Now)}
Acquired == {<<>>} \union {"e1" :> x : x \in Outcome1} \union {"e2" :> x : x \in Outcome1}
            \union {("e1" :> x) @@ ("e2" :> y) : x \in Outcome1, y \in Outcome1}
Plain == {"x" :> Text(<<"a">>)}

Decimals == {Num(<<"0">>), Num(<<"-", "1">>), Num(<<"1", "2">>), Num(<<"9">>), [k |-> "boolean", v |-> <<"true">>]}
            \union {Text(d) : d \in {<<"-", "0", ".", "0">>, <<"0", ".", "1">>, <<"0", ".", "0", "2">>, <<"9", ".", "9">>,
                                     <<"1", ".", "1", "0">>, <<"1", ".", "1">>, <<"1", ".", "0", "9">>, <<"-", "1", ".", "0">>,
                                     <<"-", "1", ".", "1">>, <<"-", "0", ".", "2">>, <<"1", "1">>, <<"0", "1">>, <<"1", ".">>,
                                     <<"a">>, <<"1", "1", "9", ".", "1">>}}

Elements == {<<"a">>, <<"*">>, <<"?">>, <<"[">>, <<"]">>, <<"[", "!", "a", "]">>, <<"[", "a", "-", "b", "]">>, <<"[", "]", "a", "]">>}
Patterns == UNION {{FlattenSeq(p) : p \in [1..n -> Elements]} : n \in 1..3}
Texts == UNION {[1..n -> {"a", "b", "["}] : n \in 0..3}

Rule(outcome, requires) == [outcome |-> outcome, requires |-> requires]
Allowing == <<Rule("ALLOW", {})>>

Predicates ==
  [phrases |-> One({W("not"), W("and"), W("or"), S("("), S(")")})
               \union {<<W("present"), S("("), W("e1"), S(")")>>,
                       Path("evidence", "e1") \o <<S("=="), T(<<"a">>)>>,
                       Path("evidence", "e2") \o <<S("!="), T(<<"a">>)>>},
   length |-> 12, declared |-> <<Rule("ALLOW", {}), Rule("BLOCK", {"e2"})>>, candidates |-> Plain, acquisitions |-> Acquired, frozen |-> {Now}]
\* Three rules in two more orders of what they declare.
InOrder(declared) ==
  [phrases |-> One({W("not")})
               \union {<<W("present"), S("("), W("e1"), S(")")>>,
                       Path("evidence", "e1") \o <<S("=="), T(<<"a">>)>>,
                       Path("evidence", "e2") \o <<S("!="), T(<<"a">>)>>},
   length |-> 16, declared |-> declared, candidates |-> Plain, acquisitions |-> Acquired, frozen |-> {Now}]
Lists ==
  [phrases |-> One({W("not"), W("in"), W("true"), S("["), S("]"), S(","), S("<"), S("=="), I(<<"1">>), T(<<"1">>), T(<<"a">>)})
               \union {Path("candidate", "x"), Path("evidence", "e3")},
   length |-> 7, declared |-> Allowing, candidates |-> Plain, acquisitions |-> {<<>>}, frozen |-> {Now}]
Calls ==
  [phrases |-> One({W("fresh"), W("matches"), W("identity"), W("e1"), W("not"), S("("), S(")"), S("["), S("]"), S("."), S(","),
                    I(<<"0">>), T(<<"\\", "*">>), T(<<"\\", "n">>)}),
   length |-> 8, declared |-> Allowing, candidates |-> Plain, acquisitions |-> {<<>>}, frozen |-> {Now}]
Numbers ==
  [phrases |-> {Path("candidate", "x") \o <<S("<")>> \o Path("candidate", "y")},
   length |-> 7, declared |-> Allowing, candidates |-> {("x" :> x) @@ ("y" :> y) : x \in Decimals, y \in Decimals},
   acquisitions |-> {<<>>}, frozen |-> {Now}]
Instants ==
  [phrases |-> {<<W("fresh"), S("("), W("e1"), S(")")>>},
   length |-> 4, declared |-> Allowing, candidates |-> Plain,
   acquisitions |-> {"e1" :> Item("ok", <<Text(<<"a">>)>>, at) : at \in Midnights}, frozen |-> Midnights]
\* One pair of brackets around anything, on single characters.
Bodies == UNION {[1..n -> {"!", "]", "-", "a", "c"}] : n \in 0..4}
Classes ==
  [phrases |-> {<<W("matches"), S("(")>> \o Path("candidate", "x") \o <<S(","), T(<<"[">> \o b \o <<"]">>), S(")")>> : b \in Bodies},
   length |-> 8, declared |-> Allowing,
   candidates |-> {"x" :> Text(t) : t \in One({"!", "]", "-", "a", "b", "c"}) \union {<<"a", "]">>, <<"]", "]">>}},
   acquisitions |-> {<<>>}, frozen |-> {Now}]
\* Every escape, and integers and indexes on both sides of both bounds.
Units == One({"a", "n", "\n"}) \union {<<"\\", m>> : m \in {"\"", "\\", "b", "t", "n", "f", "r", "*"}}
         \union {<<"\\", "u", c>> : c \in {"a", "D800"}}
Whole == {I(<<"0">>), I(<<"-", "1">>), I(<<"9", "9">>), I(<<"-", "9", "9">>), I(<<"1", "0", "0">>),
          I(<<"-", "1", "0", "0">>), I(<<"9", "9", "9", "9">>)}
Spelled ==
  [phrases |-> {Path("candidate", "x") \o <<S("=="), T(u \o v)>> : u \in Units, v \in Units}
               \union {Path("candidate", "x") \o <<S("=="), i>> : i \in Whole}
               \union {Path("candidate", "x") \o <<S("["), i, S("]"), S("=="), j>> : i \in Whole, j \in Whole},
   length |-> 8, declared |-> Allowing,
   candidates |-> {"x" :> Text(<<"n", "\n">>), "x" :> [k |-> "list", v |-> <<Num(<<"9", "9">>)>>]},
   acquisitions |-> {<<>>}, frozen |-> {Now}]
Globbing ==
  [phrases |-> {<<W("matches"), S("(")>> \o Path("candidate", "x") \o <<S(","), T(p), S(")")>> : p \in Patterns},
   length |-> 8, declared |-> Allowing, candidates |-> {"x" :> Text(t) : t \in Texts}, acquisitions |-> {<<>>}, frozen |-> {Now}]
Records ==
  [phrases |-> {Path("evidence", "e1") \o <<S("=="), T(<<"a">>)>>},
   length |-> 5, declared |-> Allowing, candidates |-> Plain,
   acquisitions |-> {<<>>} \union {"e1" :> Item("ok", <<Text(<<x>>)>>, Epoch) : x \in {"a", "b"}},
   frozen |-> {<<1900, 2, 28, 1437, 0>>, <<2000, 12, 31, 1437, -2>>}]
\* The last minutes of a February and of a year, and the first ones after them.
MCClock == {<<1900, 2, 28, 1436, 0>>, <<1900, 2, 28, 1439, 0>>, <<1900, 3, 1, 2, 0>>,
            <<2000, 12, 31, 1439, 0>>, <<2001, 1, 1, 1, 0>>}
MCCorpora == {"predicates", "held", "blocked", "lists", "calls", "spelled", "numbers", "instants", "globs", "classes", "records"}
MCCorpus(name) ==
  CASE name = "predicates" -> Predicates [] name = "lists" -> Lists [] name = "calls" -> Calls
    [] name = "numbers" -> Numbers [] name = "instants" -> Instants [] name = "globs" -> Globbing
    [] name = "classes" -> Classes [] name = "spelled" -> Spelled [] name = "records" -> Records
    [] name = "held" -> InOrder(<<Rule("HOLD", {}), Rule("BLOCK", {"e2"}), Rule("ALLOW", {})>>)
    [] name = "blocked" -> InOrder(<<Rule("BLOCK", {}), Rule("ALLOW", {"e2"}), Rule("HOLD", {})>>)
================================================================================

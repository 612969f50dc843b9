------------------------------ MODULE MCQuery ------------------------------
(* Queries and databases for TLC. *)
EXTENDS SQL

MCSchema == [a |-> <<"x", "y">>, b |-> <<"x", "z">>, c |-> <<"z", "w">>]

\* Tables with no, one and several blocks; with values that occur once and
\* several times; with a record twice, or of another table's; of extreme values.
A == [none |-> <<>>,
      unique |-> <<<<<<1, 1>>, <<2, 0>>>>, <<<<3, 1>>>>>>,
      repeated |-> <<<<<<1, 1>>, <<1, 2>>>>, <<<<2, 2>>>>>>,
      twin |-> <<<<<<1, 1>>, <<1, 1>>>>>>,
      extreme |-> <<<<<<15, 15>>, <<-16, 14>>>>>>]
B == [unique |-> <<<<<<1, 3>>, <<2, 3>>>>>>,
      repeated |-> <<<<<<1, 3>>, <<1, 0>>>>, <<<<2, 3>>>>>>,
      long |-> <<<<<<1, 3>>, <<0, 3>>>>, <<<<3, 0>>, <<2, 3>>>>, <<<<1, 0>>>>>>]
C == [one |-> <<<<<<3, 2>>>>>>,
      three |-> <<<<<<3, 2>>>>, <<<<0, 2>>>>, <<<<0, 0>>>>>>,
      shared |-> <<<<<<3, 1>>>>, <<<<1, 1>>>>>>]

MCDatabases ==
  {[a |-> A[t.a], b |-> B[t.b], c |-> C[t.c]] :
     t \in {[a |-> "none", b |-> "unique", c |-> "one"],
            [a |-> "unique", b |-> "unique", c |-> "one"],
            [a |-> "unique", b |-> "unique", c |-> "three"],
            [a |-> "repeated", b |-> "unique", c |-> "three"],
            [a |-> "unique", b |-> "long", c |-> "three"],
            [a |-> "repeated", b |-> "repeated", c |-> "shared"],
            [a |-> "twin", b |-> "unique", c |-> "one"],
            [a |-> "extreme", b |-> "unique", c |-> "one"]}}

-----------------------------------------------------------------------------
N(n) == [type |-> "INT", data |-> <<n>>]
V(t, f) == [type |-> "VAR", data |-> <<t, f>>]
T(t) == [type |-> "TABLE", data |-> <<t>>]
Agg(f, v) == <<Keyword(f), Keyword("LEFT_PARENTHESIS"), v, Keyword("RIGHT_PARENTHESIS")>>
E(x, op, y) == <<x, Keyword(op), y>>

Where(from, exprs) == [from |-> from, exprs |-> exprs]
Wheres == {
  Where(<<"a">>, <<>>), Where(<<"a", "b">>, <<>>), Where(<<"a", "b", "c">>, <<>>),
  Where(<<"a">>, <<E(V("a", "x"), "GREATER", N(1))>>),
  Where(<<"a", "b">>, <<E(V("a", "x"), "GEQ", N(0)), E(V("a", "y"), "LEQ", N(1))>>),
  Where(<<"a">>, <<E(V("a", "x"), "GEQ", N(0)), E(V("a", "y"), "NOT_EQUAL", N(1))>>),
  Where(<<"a">>, <<E(N(2), "LESS", V("a", "x"))>>),
  Where(<<"a">>, <<E(N(2), "EQUAL", V("a", "x"))>>),
  Where(<<"a">>, <<E(N(1), "EQUAL", N(1))>>),
  Where(<<"a">>, <<E(V("a", "x"), "EQUAL", V("a", "y"))>>),
  Where(<<"a">>, <<E(V("a", "q"), "EQUAL", N(1))>>),
  Where(<<"a">>, <<E(V("d", "q"), "EQUAL", N(1))>>),
  Where(<<"a", "b">>, <<E(V("a", "x"), "EQUAL", V("b", "q"))>>),
  Where(<<"a", "b">>, <<E(V("a", "x"), "LESS", V("b", "q"))>>),
  Where(<<"a", "b">>, <<E(V("a", "x"), "EQUAL", V("b", "x"))>>),
  Where(<<"a", "b">>, <<E(V("a", "x"), "NOT_EQUAL", V("b", "x"))>>),
  Where(<<"a", "b">>, <<E(V("a", "x"), "LEQ", V("b", "x"))>>),
  Where(<<"a", "b">>, <<E(V("a", "x"), "LEQ", V("b", "x")), E(V("a", "y"), "LESS", V("b", "x"))>>),
  Where(<<"a", "b">>, <<E(V("a", "x"), "GREATER", N(0)), E(V("a", "x"), "EQUAL", V("b", "x"))>>),
  Where(<<"a", "b">>, <<E(V("b", "x"), "GREATER", N(1)), E(V("a", "x"), "EQUAL", V("b", "x"))>>),
  Where(<<"a", "b">>, <<E(V("a", "x"), "GREATER", N(1)), E(V("b", "z"), "GREATER", N(0))>>),
  Where(<<"a", "b">>, <<E(V("a", "x"), "GREATER", N(1)), E(V("b", "z"), "GREATER", N(0)),
                        E(V("a", "x"), "EQUAL", V("b", "x"))>>),
  Where(<<"a", "b", "c">>, <<E(V("a", "x"), "EQUAL", V("b", "x")), E(V("b", "z"), "EQUAL", V("c", "z"))>>),
  Where(<<"a", "b", "c">>, <<E(V("b", "z"), "GEQ", V("c", "z")), E(V("b", "x"), "LESS", V("c", "w")),
                             E(V("a", "x"), "GREATER", N(1))>>)}

Ordered(v, direction) == <<Keyword("ORDER"), Keyword("BY"), v>> \o direction
Limit(n) == <<Keyword("LIMIT"), N(n)>>

Lists == {<<<<V("a", "x")>>>>, <<<<V("a", "x")>>, <<V("b", "z")>>>>, <<<<V("c", "w")>>>>}
ListTails == {
  <<>>, Ordered(V("a", "x"), <<Keyword("ASC")>>), Ordered(V("a", "x"), <<Keyword("DESC")>>) \o Limit(2),
  Ordered(V("a", "y"), <<>>), Limit(1), Limit(0)}
Sums == {<<Agg("COUNT", V("a", "x"))>>, <<Agg("SUM", V("a", "y"))>>,
         <<<<V("a", "x")>>, Agg("SUM", V("a", "y"))>>}
GroupTails == {
  <<>>, <<Keyword("GROUP"), Keyword("BY"), V("a", "x")>>,
  <<Keyword("GROUP"), Keyword("BY"), V("a", "x")>> \o Ordered(V("a", "x"), <<Keyword("DESC")>>) \o Limit(1),
  <<Keyword("GROUP"), Keyword("BY"), V("b", "z")>> \o Ordered(V("b", "z"), <<>>)}

Tokens(list, where, tail) ==
  <<Keyword("SELECT")>> \o Separated(list, "COMMA")
  \o <<Keyword("FROM")>> \o Separated([k \in DOMAIN where.from |-> <<T(where.from[k])>>], "COMMA")
  \o Clause(<<"WHERE">>, where.exprs, "AND") \o tail

Statements ==
  {Tokens(l, w, t) : l \in Lists, w \in Wheres, t \in ListTails}
  \cup {Tokens(s, w, t) : s \in Sums, w \in Wheres, t \in GroupTails}

\* A statement with every clause, which is cut at each place, has each of its
\* tokens left out and each of its columns, also with a word out of place
\* after it, below.
Whole ==
  Tokens(<<<<V("a", "x")>>, Agg("COUNT", V("a", "y"))>>,
         Where(<<"a", "b">>, <<E(V("a", "x"), "EQUAL", V("b", "x")), E(V("a", "x"), "GREATER", N(1))>>),
         <<Keyword("GROUP"), Keyword("BY"), V("a", "x")>>
         \o <<Keyword("ORDER"), Keyword("BY")>> \o Agg("COUNT", V("a", "y")) \o <<Keyword("ASC")>>
         \o Limit(2))

Places(type) == {n \in DOMAIN Whole : Whole[n].type = type}
Columnless(n) == [Whole EXCEPT ![n].data = <<@[1]>>]

MCQueries ==
  Statements
  \cup {SubSeq(Whole, 1, n) : n \in 0..Len(Whole)}
  \cup {SubSeq(Whole, 1, n - 1) \o SubSeq(Whole, n + 1, Len(Whole)) : n \in DOMAIN Whole}
  \cup {Columnless(n) : n \in Places("VAR")}
  \cup {SubSeq(Columnless(n), 1, m) \o <<Keyword("SELECT")>> :
          n \in Places("VAR"), m \in DOMAIN Whole}
  \cup {Tokens(<<<<V("a", "q")>>>>, Where(<<"a">>, <<>>), <<>>),
        Tokens(<<<<V("a", "x")>>>>, Where(<<"d">>, <<>>), <<>>)}
=============================================================================

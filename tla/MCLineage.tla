------------------------------- MODULE MCLineage -------------------------------
(* Base tables a and b with a column in common, and statements that derive d1, d2  *)
(* and d3 from them through joins, subselects, WITH and UNION, with a cycle.       *)
EXTENDS Lineage

Rel(t) == [is |-> "rel", name |-> t, alias |-> t]
As(t, alias) == [is |-> "rel", name |-> t, alias |-> alias]
Sub(alias, q) == [is |-> "sub", alias |-> alias, query |-> q]
Join(l, r) == [is |-> "join", l |-> l, r |-> r]
Ref(q, c) == [is |-> "ref", qual |-> q, col |-> c]
Plain(q, c) == [name |-> None, expr |-> Ref(q, c)]
Named(n, refs) == [name |-> n, expr |-> [is |-> "op", args |-> refs]]
Select(targets, from) == [is |-> "select", with |-> <<>>, from |-> from, targets |-> targets, where |-> <<>>]
Value(c, t) == [is |-> "value", query |-> Select(<<Plain(t, c)>>, <<Rel(t)>>)]
With(name, q, body) == [body EXCEPT !.with = <<[name |-> name, query |-> q]>>]
Union(l, r) == [is |-> "union", l |-> l, r |-> r]

MCSchema == [a |-> {"x", "y"}, b |-> {"x", "z"}, d1 |-> {"x"}, d2 |-> {"x"}]

(* every way to name x and z over a relation, an aliased one, a join, a list, a subselect and a WITH *)
Inner == {Select(<<Plain(None, "x")>>, <<Rel("a")>>), Select(<<Named("x", {Ref("a", "x"), Ref("b", "z")})>>, <<Join(Rel("a"), Rel("b"))>>),
          Union(Select(<<Plain(None, "x")>>, <<Rel("a")>>), Select(<<Plain(None, "x")>>, <<Rel("b")>>))}
Arm(c, t) == Select(<<Plain(None, c)>>, <<Rel(t)>>)
MCQueries ==
  {Select(<<Plain(q, "x"), Named("w", {Ref(q, "x"), Ref(q, "y")})>>, <<Rel("a")>>) : q \in {None, "a"}}
  \cup {Select(<<Plain(q, "z"), Named("w", {Ref("k", "x"), Ref(q, "z")}), Named(None, {Ref("k", "y")})>>, f) :
          q \in {None, "b"}, f \in {<<Join(As("a", "k"), Rel("b"))>>, <<As("a", "k"), Rel("b")>>}}
  \cup {Select(<<Plain(q, "x")>>, <<Sub("s", i)>>) : q \in {None, "s"}, i \in Inner}
  \cup {Select(<<Plain("s", "x"), Plain(None, "z")>>, <<Join(Sub("s", i), Rel("b"))>>) : i \in Inner}
  \cup {With("c", i, Select(<<Plain(q, "x")>>, <<Rel("c")>>)) : q \in {None, "c"}, i \in Inner}
  \cup {With("a", i, Select(<<Plain(None, "x")>>, <<Rel("a")>>)) : i \in Inner}
  \cup {Union(Select(<<Plain("a", "x")>>, <<Rel("a")>>), i) : i \in Inner} \cup {Union(Arm("y", "a"), Arm("z", "b"))}
  \cup {Select(<<Named("w", {Ref("a", "x"), Value("z", "b")})>>, <<Rel("a")>>), [Arm("x", "a") EXCEPT !.where = <<Value("z", "b")>>]}

Copy(kind, from, to) == [kind |-> kind, target |-> to, query |-> Select(<<Plain(None, "x")>>, <<Rel(from)>>)]
MCStatements ==
  {Copy("ctas", "a", "d1"), Copy("view", "d1", "d2"), Copy("insert", "d2", "d1"), Copy("merge", "a", "d2"), Copy("select", "a", None),
   [kind |-> "ctas", target |-> "d3", query |-> Select(<<Named("x", {Ref(None, "x"), Value("x", "d2")})>>,
                                                    <<Join(Rel("a"), Rel("d2"))>>)]}

Model(n) == [name |-> n, sql |-> TRUE, model |-> TRUE]
Script == [name |-> "m", sql |-> TRUE, model |-> FALSE]
Line(k, arg) == [k |-> k, arg |-> arg]
MCDiffs ==
  {<<Line("diff", Model("d1")), Line("deleted", None)>>,
   <<Line("diff", Model("d3")), Line("rename", Model("d2"))>>,
   <<Line("other", None), Line("diff", Script), Line("new", None), Line("drop", <<"a", "x">>), Line("drop", <<"d1", "x">>)>>,
   <<Line("diff", Script), Line("deleted", None), Line("diff", Model("a")), Line("other", None)>>}
=============================================================================

----------------------------- MODULE MCPlanner -----------------------------
(* Planner on a small instance: queries over up to four tables, one of them changing. *)
EXTENDS Planner

J(t, c) == [table |-> t, on |-> c]
Q(joins, w) == [from |-> "a", joins |-> joins, where |-> w]

MCTable == {"a", "b", "c", "d"}
MCValue == {-1, 2}

L(s, done) == [rows |-> s, analysed |-> done]

\* c is not analysed: unknown to the disk engine, and analysed by the in-memory
\* engine when a query first asks for it.
MCLoaded ==
  {[b |-> L(<<-1, 2, 2>>, TRUE), c |-> L(<<2, Null>>, FALSE), d |-> L(<<2, 2>>, TRUE)]}

MCQueries ==
  {Q(<<>>, w) : w \in Where}
  \cup {Q(<<J("b", "k")>>, "or"),
        Q(<<J("b", "k"), J("c", "k")>>, "none"),
        Q(<<J("b", "other"), J("c", "k"), J("d", "k")>>, "none"),
        Q(<<J("a", "k")>>, "none"),
        Q(<<J("a", "k"), J("b", "k")>>, "eq"),
        Q(<<J("b", "k"), J("b", "other"), J("c", "k")>>, "none")}

\* Nothing analysed yet, and the queries that read the statistics.
MCFresh == {[b |-> L(<<2, 2>>, FALSE), c |-> L(<<>>, FALSE), d |-> L(<<>>, FALSE)]}
MCReads == {Q(<<>>, "eq"), Q(<<J("b", "k")>>, "or")}
=============================================================================

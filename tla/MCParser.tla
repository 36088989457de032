------------------------------ MODULE MCParser ------------------------------
(* Parser on a small instance: texts of up to seven tokens, and longer ones after a few openings. *)
EXTENDS Parser

MCOpenings ==
  {<<>>,
   <<"DELETE", "FROM", "a", "WHERE">>,
   <<"SELECT", "a", "FROM", "b">>,
   <<"UPDATE", "a", "SET">>,
   <<"INSERT", "INTO", "a", "VALUES">>,
   <<"CREATE", "TABLE", "a", "(">>}

MCOperands == {LeafOf("a"), LeafOf("1"), Node(".", <<LeafOf("b"), LeafOf("a")>>)}
=============================================================================

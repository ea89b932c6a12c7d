------------------------------ MODULE MCWalker ------------------------------
(* The instances of Walker that TLC checks. *)
EXTENDS Walker

\* Four pages, one of them ("alias") a redirect to "a"; two categories. "b" and
\* "c" are reached along paths of two lengths, the links form a cycle and lead to
\* the redirect, and the categories contain one another.
MCPage     == {"a", "b", "c", "alias"}
MCCategory == {"x", "y"}
MCRedirect == [p \in MCPage |-> IF p = "alias" THEN "a" ELSE p]
MCList == [links      |-> [p \in MCPage |-> CASE p \in {"a", "alias"} -> <<"b", "alias", "c">>
                                              [] p = "b" -> <<"c", "a">>
                                              [] p = "c" -> <<"c">>],
           backlinks  |-> [p \in MCPage |-> CASE p = "a" -> <<"b">>
                                              [] p = "b" -> <<"a">>
                                              [] p = "c" -> <<"a", "b", "c">>
                                              [] p = "alias" -> <<"a">>],
           categories |-> [p \in MCPage |-> IF p = "c" THEN <<"x", "y">> ELSE <<"x">>],
           members    |-> [n \in MCCategory |-> IF n = "x" THEN <<"a", "b">> ELSE <<"c">>],
           subcats    |-> [n \in MCCategory |-> IF n = "x" THEN <<"y">> ELSE <<"x">>]]

Presets == {{"links", "categories", "members", "subcats"}, {"links", "backlinks"},
            {"categories", "members", "subcats"}}

MCSeeds   == {<<"a">>, <<"c", "b">>, <<"x">>, <<"b", "b", "y">>, <<"alias", "c">>, <<"a", "alias">>}
MCOptions == [Depth : {0, 1, 2}, Max : {0, 1, 2, 4}, Fanout : {0, 1, 2}, Edges : Presets]

TwoSeeds     == {<<"a", "alias">>, <<"alias", "a">>}
LinkOptions  == [Depth : {0, 1}, Max : {0}, Fanout : {0}, Edges : {{"links"}}]
=============================================================================

------------------------------ MODULE MCStore ------------------------------
(* The instances of Store that TLC checks. *)
EXTENDS Store

\* Two tables, and a name that differs from one of them only in its case. The
\* index of "page" on the column "links" has the name of the table "page_links".
MCName   == {"page", "page_links", "Page"}
MCColumn == {"id", "links"}
MCObject == {"page", "page_links", "page_id", "page_links_id", "page_links_links"}
MCFold   == [n \in MCName |-> IF n = "Page" THEN "page" ELSE n]
MCFoldIndex == [nc \in MCName \X MCColumn |->
                   CASE nc[1] # "page_links" /\ nc[2] = "id"    -> "page_id"
                     [] nc[1] # "page_links" /\ nc[2] = "links" -> "page_links"
                     [] nc[1] = "page_links" /\ nc[2] = "id"    -> "page_links_id"
                     [] nc[1] = "page_links" /\ nc[2] = "links" -> "page_links_links"]

L(n, rows, keep, index) == [name |-> n, rows |-> rows, keep |-> keep, index |-> index,
                            valid |-> TRUE]
AllLoads == {L("page", <<1, 2, 3, 4, 5>>, {1, 2, 3, 5}, <<"id">>),
             L("page", <<1, 2, 3>>, {3}, <<"links", "id">>),
             L("page_links", <<1, 2>>, {1, 2}, <<"links">>),
             L("Page", <<4, 5>>, {4, 5}, <<"id", "id">>),
             [L("page", <<1>>, {1}, <<>>) EXCEPT !.valid = FALSE]}
============================================================================

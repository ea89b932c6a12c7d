---------------------------- MODULE ProjectPages ----------------------------
(***************************************************************************)
(* projectPages of src/wiki/assess.go: list=projectpages is asked again    *)
(* and again with the keys of the last continuation, and fn is called for  *)
(* each page of the namespace, up to the limit. The API is external: it    *)
(* gives its list in parts, and the keys of a continuation say which part  *)
(* comes next. A part maps each of its projects to its pages, of which     *)
(* only the namespace matters here.                                        *)
(*                                                                         *)
(* The place of a page in the list is <<part, project, page>>: the number  *)
(* of its part, the place of its project by name and its own place there.  *)
(***************************************************************************)
EXTENDS Integers, Sequences

CONSTANTS
    Projects,  \* the projects asked for, in the order of their names
    Parts,     \* the parts the API may give: functions from projects to pages
    MaxParts,
    Requests   \* the arguments: a namespace (negative for all) and a limit

VARIABLES
    req, list,   \* the arguments, and the parts of the whole list
    keys,        \* the continuation keys set on the request: key -> part
    asked,       \* the answer of a request is being read
    place,       \* the place of the last page read
    out,         \* the places of the pages fn was called with
    answer       \* "running", "nil" or "error"

vars == <<req, list, keys, asked, place, out, answer>>

Init == /\ req \in Requests
        /\ \E n \in 1 .. MaxParts : list \in [1 .. n -> Parts]
        /\ keys = <<>> /\ asked = FALSE /\ place = <<0, 0, 0>>
        /\ out = <<>> /\ answer = "running"

\* The API, external: the part that the keys of a request ask for, and the
\* keys of its answer. Every answer but the last names the next part.
PartAsked(k)  == IF "wppcontinue" \in DOMAIN k THEN k["wppcontinue"] ELSE 1
ContinueOf(n) == IF n < Len(list) THEN [key \in {"wppcontinue", "continue"} |-> n + 1] ELSE <<>>

\* The places of a part, and the order in which the loops read them: the projects
\* by name, and the pages of each as they come.
PlacesIn(n) == UNION {{<<n, i, k>> : k \in DOMAIN list[n][Projects[i]]} :
                         i \in {j \in DOMAIN Projects : Projects[j] \in DOMAIN list[n]}}

Before(c, d) == \/ c[1] < d[1]
                \/ c[1] = d[1] /\ c[2] < d[2]
                \/ c[1] = d[1] /\ c[2] = d[2] /\ c[3] < d[3]

Unread == {c \in PlacesIn(place[1]) : Before(place, c)}

\* The page is in the namespace asked for.
Keeps(c) == req.ns >= 0 => list[c[1]][Projects[c[2]]][c[3]] = req.ns

----------------------------------------------------------------------------
(* Mutated forms; no specification uses them.                                *)

\* An answer without projects is taken for the end.
Ended_emptyPart == ContinueOf(place[1]) = <<>> \/ DOMAIN list[place[1]] = {}

----------------------------------------------------------------------------
\* One request, with the keys that are set.
Ask == /\ answer = "running" /\ ~asked
       /\ asked' = TRUE /\ place' = <<PartAsked(keys), 0, 0>>
       /\ UNCHANGED <<req, list, keys, out, answer>>

\* The context ends, the request fails or its answer is an error of the API.
AskFails == /\ answer = "running" /\ ~asked
            /\ answer' = "error"
            /\ UNCHANGED <<req, list, keys, asked, place, out>>

\* The loops come to the page c.
Read(c) == /\ answer = "running" /\ asked
           /\ \A d \in Unread : ~Before(d, c)
           /\ place' = c
           /\ UNCHANGED <<req, list, keys, asked>>

\* A page of another namespace.
Skip(c) == /\ Read(c) /\ ~Keeps(c)
           /\ UNCHANGED <<out, answer>>

\* fn takes the page; the limit ends the call.
Take(c) == /\ Read(c) /\ Keeps(c)
           /\ out' = Append(out, c)
           /\ answer' = IF req.limit > 0 /\ Len(out') >= req.limit THEN "nil" ELSE "running"

\* fn fails on the page.
FnFails(c) == /\ Read(c) /\ Keeps(c)
              /\ out' = Append(out, c)
              /\ answer' = "error"

\* The answer has no keys.
Ended == ContinueOf(place[1]) = <<>>

\* The end of a part: the keys of its answer go into those of the request.
Follow == /\ answer = "running" /\ asked /\ Unread = {}
          /\ asked' = FALSE
          /\ IF Ended THEN answer' = "nil" /\ UNCHANGED keys
             ELSE LET next == ContinueOf(place[1])
                  IN  /\ keys' = [k \in DOMAIN keys \cup DOMAIN next |->
                                     IF k \in DOMAIN next THEN next[k] ELSE keys[k]]
                      /\ UNCHANGED answer
          /\ UNCHANGED <<req, list, place, out>>

Next == \/ Ask \/ AskFails \/ Follow
        \/ asked /\ \E c \in Unread : Skip(c) \/ Take(c) \/ FnFails(c)

Spec == Init /\ [][Next]_vars

----------------------------------------------------------------------------
(* Properties                                                                *)

\* The places of the pages asked for, in all parts, and of those fn has seen.
Wanted == {c \in UNION {PlacesIn(n) : n \in DOMAIN list} : Keeps(c)}
Seen   == {out[i] : i \in DOMAIN out}

\* fn sees each page of the namespace once, in the order of the list over all its
\* parts, empty ones included, with none passed over, and not more than the limit;
\* nil means that it has seen them all, or as many as the limit.
EachPageOnce ==
    /\ Seen \subseteq Wanted
    /\ \A i, j \in DOMAIN out : i < j => Before(out[i], out[j])
    /\ \A c \in Wanted : \A w \in Seen : Before(c, w) => c \in Seen
    /\ req.limit > 0 => Len(out) <= req.limit
    /\ answer = "nil" => Seen = Wanted \/ (req.limit > 0 /\ Len(out) = req.limit)
=============================================================================

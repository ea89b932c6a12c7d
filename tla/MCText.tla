------------------------------- MODULE MCText -------------------------------
(***************************************************************************)
(* The readers of wikitext and of mathematics on small texts. A behaviour  *)
(* picks a unit and puts its text together, one fragment or one enclosing  *)
(* construct at a time, with what the unit must find in it in want; what   *)
(* the code finds in the text is compared with that in every state.        *)
(***************************************************************************)
EXTENDS Integers, Sequences, FiniteSets

CONSTANT Units   \* the units to check

\* The bounds: the tokens of a text, the runs of apostrophes, the lines of a
\* page, the parts of a formula.
MaxTokens == [u \in {"inline", "convert", "check"} |->
                 CASE u = "inline" -> 12 [] u = "convert" -> 17 [] u = "check" -> 4]
MaxRuns  == 3
MaxLines == 4
MaxParts == 4

VARIABLES unit, src, want

vars == <<unit, src, want>>

P == INSTANCE Blocks
W == INSTANCE Wikitext
X == INSTANCE Texvc

Has(t, T)   == \E k \in DOMAIN t : t[k] \in T
Times(c, n) == [k \in 1 .. n |-> c]

Fits(t) == Len(t) <= MaxTokens[unit]

----------------------------------------------------------------------------
(* "inline": want.parts are the constructs of the text, with their spans;    *)
(* want.open are the kinds opened without a close, which nothing after them  *)
(* may close.                                                                *)

Shift(parts, n) == {<<p[1], p[2] + n, p[3] + n>> : p \in parts}

Wrap(kind, open, close) == [kind |-> kind, open |-> open, close |-> close]
Wraps == { Wrap("template", <<"{", "{", "a", "|">>, <<"}", "}">>),
           Wrap("template", <<"{", "{", "b", "|", "a", "=">>, <<"}", "}">>),
           Wrap("link", <<"[", "[", "a", "|">>, <<"]", "]">>),
           Wrap("link", <<"[", "[", "file", ":", "b", "|">>, <<"]", "]">>),
           Wrap("tag", <<"<b>">>, <<"</b>">>),
           Wrap("tag", <<"<ref>">>, <<"</ref>">>),
           Wrap("comment", <<"<!--">>, <<"-->">>) }

\* A construct around the text; a comment hides what is in it.
InWrap == \E w \in Wraps :
    LET t == w.open \o src \o w.close
    IN  /\ w.close[1] \notin want.open
        /\ w.kind = "comment" => ~Has(src, {"-->"})
        /\ Fits(t)
        /\ src' = t
        /\ want' = [want EXCEPT !.parts =
                       {<<w.kind, 1, Len(t) + 1>>} \cup
                           IF w.kind = "comment" THEN {} ELSE Shift(@, Len(w.open))]

\* A link at the end of the text, with a trail or without.
AddLink == \E trail \in {<<>>, <<"c">>} :
    LET t == <<"[", "[", "c", "]", "]">> \o trail
    IN  /\ "]" \notin want.open
        /\ Fits(src \o t)
        /\ src' = src \o t
        /\ want' = [want EXCEPT !.parts = @ \cup {<<"link", Len(src) + 1, Len(src \o t) + 1>>}]

AddText == /\ Fits(src \o <<" ", "c">>)
           /\ src' = src \o <<" ", "c">>
           /\ UNCHANGED want

\* An opening that is not closed is text, but a formatting tag stays.
AddOpen == \E o \in {<<"{", "{", "a", "|">>, <<"[", "[", "a", "|">>, <<"<ref>">>, <<"<b>">>} :
    LET close == CASE o[1] = "{" -> "}" [] o[1] = "[" -> "]" [] o[1] = "<ref>" -> "</ref>"
                   [] o[1] = "<b>" -> "</b>"
    IN  /\ close \notin want.open
        /\ Fits(src \o o)
        /\ src' = src \o o
        /\ want' = [parts |-> want.parts \cup (IF o[1] = "<b>" THEN {<<"tag", Len(src) + 1, Len(src) + 2>>}
                                                    ELSE {}),
                    open |-> want.open \cup {close}]

\* A template without a name is text.
AddNameless == /\ unit = "inline"
               /\ "}" \notin want.open
               /\ Fits(src \o <<"{", "{", "}", "}">>)
               /\ src' = src \o <<"{", "{", "}", "}">>
               /\ UNCHANGED <<want, unit>>

Inline == unit = "inline" /\ (InWrap \/ AddLink \/ AddText \/ AddOpen)

RECURSIVE Below(_)
\* The nodes of a list and all nodes below them.
Below(nodes) == UNION {{nodes[k]} \cup Below(nodes[k].kids)
                           \cup UNION {Below(nodes[k].params[j].value) : j \in DOMAIN nodes[k].params}
                       : k \in DOMAIN nodes}

InOrder(nodes, start, end) ==
    /\ \A k \in DOMAIN nodes : start <= nodes[k].start /\ nodes[k].start <= nodes[k].end
                                   /\ nodes[k].end <= end
    /\ \A k \in 1 .. Len(nodes) - 1 : nodes[k].end <= nodes[k + 1].start

Nested(nodes, end) == /\ InOrder(nodes, 1, end)
                      /\ \A n \in Below(nodes) : InOrder(n.kids, n.start, n.end)

\* The nodes cover the text: nothing of it is lost.
Tiled(nodes, end) == /\ nodes = <<>> => end = 1
                     /\ nodes # <<>> => nodes[1].start = 1 /\ nodes[Len(nodes)].end = end
                     /\ \A k \in 1 .. Len(nodes) - 1 : nodes[k].end = nodes[k + 1].start

PartKinds == {"template", "link", "tag", "comment"}
PartsOf(nodes) == {<<n.kind, n.start, n.end>> : n \in {n \in Below(nodes) : n.kind \in PartKinds}}

(* Each construct that is closed, at any depth and next to any that are not,  *)
(* is a node with its span; those that are not closed are text; the spans     *)
(* nest and cover the source (inline.go, tag.go).                             *)
ParsesTheParts == unit = "inline" =>
    LET holds(nodes) == /\ PartsOf(nodes) = want.parts
                        /\ Nested(nodes, Len(src) + 1)
                        /\ Tiled(nodes, Len(src) + 1)
    IN  holds(P!ParseInline(src))

(* node.go:8 says that a construct that does not close is kept as text, and   *)
(* inline.go:170 that a construct stops the run it is in because it found no  *)
(* close token. So one that has its close token is a node.                    *)
ClosedIsFound == unit = "inline" => want.parts \subseteq PartsOf(P!ParseInline(src))

----------------------------------------------------------------------------
(* "quotes": runs of apostrophes with a letter or a line break after each;   *)
(* want is the number of them.                                               *)

Quotes == /\ unit = "quotes"
          /\ want < MaxRuns
          /\ \E n \in 0 .. 6, t \in {"a", "nl"} : src' = src \o Append(Times("'", n), t)
          /\ want' = want + 1

\* The size of the run of apostrophes that starts at p, 0 when none does.
RunSize(p) == LET P1 == {k \in p .. Len(src) : \A j \in p .. k : src[j] = "'"}
              IN  IF p > 1 /\ src[p - 1] = "'" THEN 0 ELSE Cardinality(P1)

\* The runs of these sizes before p on its line.
RunsBefore(p, sizes) ==
    {k \in 1 .. p - 1 : RunSize(k) \in sizes /\ \A j \in k .. p : src[j] # "nl"}

Odd(S) == Cardinality(S) % 2 = 1

(* As the comment of resolveQuotes says: a run of two toggles italic, of three*)
(* bold, of five both, with one more apostrophe as text in a run of four, and *)
(* each format closes at the end of the line. So a letter is in the formats   *)
(* toggled an odd number of times before it on its line, however the formats  *)
(* cross; no format is inside itself, and no token is lost. The line has an   *)
(* end: without one, closeTo leaves a format that a child reaches beyond.     *)
QuotesToggle == unit = "quotes" =>
    LET formats(all, p) == {n.kind : n \in {n \in all : n.start <= p /\ p < n.end}} \ {"text"}
        both == 5 .. Len(src)
        toggled(p) == {f \in {"bold", "italic"} :
                           Odd(RunsBefore(p, both \cup IF f = "bold" THEN {3, 4} ELSE {2}))}
        holds(nodes, all) ==
            /\ \A p \in DOMAIN src : src[p] = "a" => formats(all, p) = toggled(p)
            /\ \A n \in all : n.kind # "text" => n.kind \notin {k.kind : k \in Below(n.kids)}
            /\ Nested(nodes, Len(src) + 2)
            /\ Tiled(nodes, Len(src) + 2)
        parsed(nodes) == holds(nodes, Below(nodes))
    IN  parsed(P!ParseInline(Append(src, "nl")))

----------------------------------------------------------------------------
(* "blocks": a page of lines; want are its headings, with their levels, and  *)
(* the number of its lines.                                                  *)

Heads == [level : 1 .. 3, tail : {<<>>, <<"<!--", "-->">>}]
Others == { <<>>, <<"a">>, <<"*", "a">>, <<" ", "a">>, <<"<!--", "-->">>,
            <<"<b>", "nl", "=", "a", "=", "nl", "</b>">>,
            <<"{", "|", "nl", "|", "a", "nl", "=", "a", "=", "nl", "|", "}">> }

OnLine(t) == (IF want.lines = 0 THEN <<>> ELSE Append(src, "nl")) \o t

AddHead == \E h \in Heads :
    /\ src' = OnLine(Times("=", h.level) \o <<"a">> \o Times("=", h.level) \o h.tail)
    /\ want' = [lines |-> want.lines + 1,
                heads |-> Append(want.heads, [start |-> Len(OnLine(<<>>)) + 1, level |-> h.level])]

AddOther == /\ \E o \in Others : src' = OnLine(o)
            /\ want' = [want EXCEPT !.lines = @ + 1]

Blocks == unit = "blocks" /\ want.lines < MaxLines /\ (AddHead \/ AddOther)

\* Where the section of heading k ends.
EndOf(k) == LET H  == want.heads
                P1 == {j \in k + 1 .. Len(H) : H[j].level <= H[k].level}
            IN  IF P1 = {} THEN Len(src) + 1
                ELSE H[CHOOSE j \in P1 : \A i \in P1 : j <= i].start

(* "A section ends where the next heading of the same or a higher level       *)
(* starts" (block.go:260), whatever the order of the levels, with comments    *)
(* after headings and with lines that only look like headings inside tables   *)
(* and tags; the blocks and sections nest in the order of the page.           *)
SectionsEnd == unit = "blocks" =>
    LET H == want.heads
        holds(kids) ==
            /\ {<<n.start, n.end, n.level>> : n \in {n \in Below(kids) : n.kind = "section"}}
                  = {<<H[k].start, EndOf(k), H[k].level>> : k \in DOMAIN H}
                        \cup {<<1, IF H = <<>> THEN Len(src) + 1 ELSE H[1].start, 0>>}
            /\ Nested(kids, Len(src) + 1)
            /\ Tiled(kids, Len(src) + 1)
    IN  holds(P!Parse(src).kids)

----------------------------------------------------------------------------
(* "convert": a text of parts; want.text and want.md are what is left of it  *)
(* as plain text and as Markdown, without white space; want.open are the     *)
(* opens in it that no close follows.                                        *)

Part(s, text, md) == [src |-> s, text |-> text, md |-> md]
ConvertParts == {
    Part(<<" ", "a">>, <<"a">>, <<"a">>),
    Part(<<"[", "[", "p", "|", "a", "]", "]">>, <<"a">>, <<"[", "a", "]", "(page)">>),
    Part(<<"[", "[", "file", ":", "a", "|", "[", "[", "b", "]", "]", "]", "]">>, <<>>, <<>>),
    Part(<<"[", "http", " ", "a", "]">>, <<"a">>, <<"[", "a", "]", "(url)">>),
    Part(<<"<!--", "{", "{", "-->">>, <<>>, <<>>),
    Part(<<"<ref/>">>, <<>>, <<>>),
    Part(<<"<ref ", ">", "[", "[", "</ref>">>, <<>>, <<>>),
    Part(<<"nl", "=", "=", "a", "=", "=", "nl">>, <<"a">>, <<"#", "#", "a">>),
    Part(<<"nl", "*", "*", "a">>, <<"- ", "a">>, <<"- ", "a">>),
    Part(<<" ", "<code>", "*", "a", "</code>">>, <<"*", "a">>, <<"tick", "*", "a", "tick">>) }

White == {" ", "  ", "nl"}
Solid(t) == SelectSeq(t, LAMBDA c : c \notin White)

AddPart == \E p \in ConvertParts :
    /\ Fits(src \o p.src)
    /\ src' = src \o p.src
    /\ want' = [want EXCEPT !.text = @ \o p.text, !.md = @ \o p.md]

\* The open of a template or a table that no close follows is text.
AddUnclosed == \E o \in {<<"{", "{">>, <<"{", "|">>} :
    /\ Fits(src \o <<" ">> \o o \o <<"a">>)
    /\ src' = src \o <<" ">> \o o \o <<"a">>
    /\ want' = [text |-> want.text \o o \o <<"a">>, md |-> want.md \o o \o <<"a">>,
                open |-> want.open \cup {o}]

\* A template, a table or a file link around the text drops it all. The scan for
\* its end counts the openings of its kind in comments, in references and in what
\* is dropped too, so there is none inside that is not closed.
Drop == \E w \in {[open |-> <<"{", "{", "a", "|">>, close |-> <<" ", "}", "}", " ">>],
                  [open |-> <<"{", "|">>, close |-> <<" ", "|", "}", " ">>],
                  [open |-> <<"[", "[", "file", ":">>, close |-> <<" ", "]", "]", " ">>]} :
    /\ src # <<>>
    /\ ~Has(src, {"-->", "</ref>"})
    /\ SubSeq(w.open, 1, 2) \notin want.open
    /\ Fits(w.open \o src \o w.close)
    /\ src' = w.open \o src \o w.close
    /\ want' = [want EXCEPT !.text = <<>>, !.md = <<>>]

\* Bold and italic around words and links.
Emphasize == \E n \in {2, 3, 5} :
    /\ ~Has(src, {"'", "nl", "http", "<code>", "*"})
    /\ want.text # <<>>
    /\ Fits(src \o Times("'", 2 * n) \o <<" ", " ">>)
    /\ src' = <<" ">> \o Times("'", n) \o src \o Times("'", n) \o <<" ">>
    /\ want' = LET mark == CASE n = 2 -> "*" [] n = 3 -> "**" [] n = 5 -> "***"
               IN  [want EXCEPT !.md = <<mark>> \o @ \o <<mark>>]

ConvertText == unit = "convert" /\ (AddPart \/ AddUnclosed \/ Drop \/ Emphasize)

(* The two scans together keep what a reader sees and drop what he does not:  *)
(* templates, tables, file links and what they hold vanish, in each other as  *)
(* well, and comments and references outside them; links and emphasis become  *)
(* their text or their Markdown. No construct reaches over the text after it: *)
(* not one that vanishes, and not a template or table that no close follows,  *)
(* whose open is text. Comments and references inside what vanishes, and      *)
(* links without an end, are outside this claim.                              *)
ConvertsParts == unit = "convert" => /\ Solid(W!Convert(src, FALSE)) = want.text
                                     /\ Solid(W!Convert(src, TRUE)) = want.md

----------------------------------------------------------------------------
(* "tex": any wikitext of mathematics, well formed or not.                   *)

TexParts == { <<"x">>, <<"mod">>, <<"(">>, <<")">>, <<"'", "'">>, <<"'", "'", "'">>, <<"sup2">>,
              <<"<sup>">>, <<"</sup>">>, <<"<i>">>, <<"</i>">>, <<"<b>">>, <<"|">>, <<"{">>, <<"}">>,
              <<"{", "{", "sqrt", "|">>, <<"{", "{", "su", "|", "p", "=">>, <<"}", "}">>,
              <<"[", "[">>, <<"]", "]">> }

TexText == /\ unit = "tex"
           /\ want < MaxParts
           /\ \E p \in TexParts : src' = src \o p
           /\ want' = want + 1

(* Check "runs a small balance check over tex: braces ... must pair up and    *)
(* nest" (check.go:14). Whatever is open, closed or crossing in the wikitext, *)
(* the TeX made from it has no problem that Check finds.                      *)
TexBalanced == unit = "tex" => /\ X!Check(X!FromMathTemplate(src)) = 0
                               /\ X!Check(X!FromMvar(src)) = 0

----------------------------------------------------------------------------
(* "check": any TeX.                                                         *)

TexTokens == {"{", "}", "\\left", "\\right", "\\begin{align}", "\\end{align}", "\\begin{a}",
              "\\end{a}", "\\text", "\\euro", "\\R", "%", "nl"}

TexCode == /\ unit = "check"
           /\ \E c \in TexTokens : Fits(Append(src, c)) /\ src' = Append(src, c)
           /\ UNCHANGED want

Pairs == {<<"{", "}">>, <<"\\left", "\\right">>, <<"\\begin{a}", "\\end{a}">>,
          <<"\\begin{align}", "\\end{align}">>, <<"\\begin{aligned}", "\\end{aligned}">>}

\* The text without its comments, and of that the marks of groups.
Code(t)  == LET commented == {k \in DOMAIN t : \E p \in 1 .. k : t[p] = "%"
                                                  /\ \A j \in p .. k : t[j] # "nl"}
            IN  [k \in DOMAIN t |-> IF k \in commented THEN "nl" ELSE t[k]]
Marks(t) == SelectSeq(Code(t), LAMBDA c : \E p \in Pairs : c \in {p[1], p[2]})

RECURSIVE PairsUp(_)
\* Pairs that stand side by side are taken out until nothing is left.
PairsUp(t) == \/ t = <<>>
              \/ \E k \in 1 .. Len(t) - 1 :
                    /\ <<t[k], t[k + 1]>> \in Pairs
                    /\ PairsUp(SubSeq(t, 1, k - 1) \o SubSeq(t, k + 2, Len(t)))

(* Check finds no problem just when the groups pair up and nest (how many it  *)
(* finds otherwise is not claimed); and the macros of texvc are expanded into *)
(* groups that pair up as before.                                             *)
ChecksBalance == unit = "check" => /\ (X!Check(src) = 0) = PairsUp(Marks(src))
                                   /\ X!Check(src) = 0 => X!Check(X!ExpandMacros(src)) = 0

----------------------------------------------------------------------------
Init == /\ unit \in Units
        /\ src = <<>>
        /\ want = CASE unit = "inline" -> [parts |-> {}, open |-> {}]
                   [] unit \in {"quotes", "tex", "check"} -> 0
                   [] unit = "blocks" -> [lines |-> 0, heads |-> <<>>]
                   [] unit = "convert" -> [text |-> <<>>, md |-> <<>>, open |-> {}]

Next == (Inline \/ Quotes \/ Blocks \/ ConvertText \/ TexText \/ TexCode) /\ UNCHANGED unit
Spec == Init /\ [][Next]_vars

\* With templates that have no name.
NamelessSpec == Init /\ [][Next \/ AddNameless]_vars
=============================================================================

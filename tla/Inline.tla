------------------------------- MODULE Inline -------------------------------
(***************************************************************************)
(* The inline part of the parser of wikitext, src/wiki/parse: runs of text *)
(* and the constructs in them (inline.go), tags (tag.go), and bold and     *)
(* italic from runs of apostrophes (quotes.go).                            *)
(*                                                                         *)
(* A source is a sequence of tokens: the characters the parser tells       *)
(* apart, words, and whole tags; the offsets of a node are places in it,   *)
(* from start up to, not including, end. The parser keeps memo tables of   *)
(* the constructs it has tried, so every operator that parses takes the    *)
(* tables and gives them back: [nodes, pos, memo] for a run, [node, memo]  *)
(* for a construct. The attributes of tags and the time limit are left out.*)
(***************************************************************************)
EXTENDS Integers, SequencesExt

LOCAL INSTANCE FiniteSetsExt

\* The tags, by mode: parsed ones that stay alone without a close tag, parsed
\* ones that are text then, opaque ones, and void ones.
Loose  == {"<b>", "<sup>"}
Strict == {"<ref>"}
Opaque == {"<nowiki>"}
Void   == {"<br>", "<ref/>", "<ref />"}
Tags   == Loose \cup Strict \cup Opaque \cup Void
CloseOf == [t \in Loose \cup Strict \cup Opaque |->
               CASE t = "<b>" -> "</b>" [] t = "<sup>" -> "</sup>"
                 [] t = "<ref>" -> "</ref>" [] t = "<nowiki>" -> "</nowiki>"]

\* The tokens that findClose counts as an open tag of t: a slash after a space
\* does not tell it that the tag closes itself.
OpensOf(t) == IF t = "<ref>" THEN {t, "<ref />"} ELSE {t}

CloseTags == {CloseOf[t] : t \in DOMAIN CloseOf}

Letters    == {"a", "b", "c"}
Namespaces == {<<"file">>}
ColonWords == {<<"lc">>}
White      == {" ", "nl"}

\* Tokens that no template name holds.
NotInNames == {"[", "]", "{", "}", "-->"} \cup Tags \cup CloseTags

----------------------------------------------------------------------------
(* Helpers over the source.                                                  *)

At(s, i, end, t) == i + Len(t) <= end /\ \A k \in DOMAIN t : s[i + k - 1] = t[k]

\* The first place in i .. end - 1 with one of these tokens, else end.
Next1(s, i, end, T) == Min({end} \cup {k \in i .. end - 1 : s[k] \in T})

\* The place after the run of these tokens that starts at i.
AfterRun(s, i, end, T) == Min({end} \cup {k \in i .. end - 1 : s[k] \notin T})

Cut(s, i, end) == SubSeq(s, i, end - 1)

Trim(t) == LET P == {p \in DOMAIN t : t[p] \notin White}
           IN  IF P = {} THEN <<>> ELSE SubSeq(t, Min(P), Max(P))

RECURSIVE stripComments(_)
stripComments(t) ==
    LET i == Next1(t, 1, Len(t) + 1, {"<!--"})
        j == Next1(t, i + 1, Len(t) + 1, {"-->"})
    IN  IF i > Len(t) THEN t
        ELSE stripComments(SubSeq(t, 1, i - 1) \o SubSeq(t, j + 1, Len(t)))

----------------------------------------------------------------------------
(* Nodes.                                                                    *)

Node(kind, start, end) == [kind |-> kind, start |-> start, end |-> end, name |-> <<>>,
                           level |-> 0, kids |-> <<>>, params |-> <<>>]
Nil == Node("none", 0, 0)

NewLine(i)   == [Node("text", i, i + 1) EXCEPT !.name = <<"nl">>]
isNewline(n) == n.kind = "text" /\ n.name = <<"nl">>

\* Text goes on the last node when that is a text.
appendText(out, i, j) ==
    CASE i = j -> out
      [] i < j /\ out # <<>> /\ Last(out).kind = "text" /\ Last(out).end = i
               /\ ~isNewline(Last(out)) -> [out EXCEPT ![Len(out)].end = j]
      [] OTHER -> Append(out, Node("text", i, j))

RECURSIVE topByte(_, _, _)
\* The first place of token c in the text of this level; 0 when there is none.
topByte(s, nodes, c) ==
    LET place(n) == CASE n.kind = "text" -> LET k == Next1(s, n.start, n.end, {c})
                                            IN  IF k < n.end THEN k ELSE 0
                      [] n.kind \in {"bold", "italic"} -> topByte(s, n.kids, c)
                      [] OTHER -> 0
        P == {place(nodes[k]) : k \in DOMAIN nodes} \ {0}
    IN  IF P = {} THEN 0 ELSE Min(P)

hasText(s, nodes) ==
    \E k \in DOMAIN nodes : \/ nodes[k].kind = "template"
                            \/ /\ nodes[k].kind = "text"
                               /\ Trim(Cut(s, nodes[k].start, nodes[k].end)) # <<>>

\* A template name holds no construct but templates, arguments and comments,
\* and no line break inside its text.
validName(s, nodes) ==
    \A k \in DOMAIN nodes :
        LET n == nodes[k]
        IN  \/ n.kind \in {"template", "argument", "comment"}
            \/ /\ isNewline(n)
               /\ ~ (hasText(s, SubSeq(nodes, 1, k - 1)) /\ hasText(s, SubSeq(nodes, k + 1, Len(nodes))))
            \/ /\ n.kind = "text"
               /\ ~isNewline(n)
               /\ \A p \in n.start .. n.end - 1 : s[p] \notin NotInNames

\* hasNamespace: a name before a colon that is known, or short and lower case.
hasNamespace(target) ==
    LET t == IF target # <<>> /\ target[1] = ":" THEN Tail(target) ELSE target
        i == Next1(t, 1, Len(t) + 1, {":"})
        space == SubSeq(t, 1, i - 1)
    IN  /\ i \in 2 .. Len(t)
        /\ \/ Trim(space) \in Namespaces
           \/ Len(space) <= 3 /\ ToSet(space) \subseteq Letters

----------------------------------------------------------------------------
(* The memo tables: the node of a construct of a kind at a place, the largest*)
(* end before which it does not close, and of links the end before which     *)
(* their label found no close.                                               *)

NoMemo == [ok |-> <<>>, bad |-> <<>>, eof |-> <<>>]

Good(m, kind, i, end) == <<kind, i>> \in DOMAIN m.ok /\ m.ok[<<kind, i>>].end <= end
Bad(m, kind, i, end)  == <<kind, i>> \in DOMAIN m.bad /\ end <= m.bad[<<kind, i>>]

Found(node, m)  == [node |-> node, memo |-> m]
Filled(node, r) == Found([node EXCEPT !.kids = r.nodes], r.memo)
Noted(kind, i, end, r) ==
    Found(r.node, IF r.node = Nil THEN [r.memo EXCEPT !.bad = (<<kind, i>> :> end) @@ @]
                                  ELSE [r.memo EXCEPT !.ok = (<<kind, i>> :> r.node) @@ @])

----------------------------------------------------------------------------
(* resolveQuotes: the open bold and italic nodes are frames on a stack whose *)
(* first frame is the result.                                                *)

add(fs, n) == [fs EXCEPT ![Len(fs)].kids = Append(@, n)]

RECURSIVE closeTo(_, _, _)
closeTo(fs, i, at) ==
    IF Len(fs) <= i THEN fs
    ELSE closeTo(add(Front(fs), [Last(fs) EXCEPT !.end = at]), i, at)

isOpen(fs, kind)  == \E i \in DOMAIN fs : fs[i].kind = kind
placeOf(fs, kind) == CHOOSE i \in DOMAIN fs : fs[i].kind = kind

\* Mutated form: the formats inside the one that closes are not opened again.
toggle_noReopen(fs, kind, start, end) ==
    IF isOpen(fs, kind) THEN closeTo(fs, placeOf(fs, kind) - 1, end)
    ELSE Append(fs, Node(kind, start, end))

\* Closes a format and those inside it, which open again; or opens it.
toggle(fs, kind, start, end) ==
    IF isOpen(fs, kind)
      THEN LET i == placeOf(fs, kind)
           IN  closeTo(fs, i - 1, end)
                   \o [k \in 1 .. Len(fs) - i |-> Node(fs[i + k].kind, end, end)]
      ELSE Append(fs, Node(kind, start, end))

\* A run of five toggles both: what is open, and of two the inner one, first.
ItalicFirst(fs) == /\ isOpen(fs, "italic")
                   /\ isOpen(fs, "bold") => placeOf(fs, "italic") > placeOf(fs, "bold")

QuoteRun(fs, n) ==
    LET size == n.end - n.start
        k    == CASE size = 4 -> 3 [] size > 5 -> 5 [] OTHER -> size
        i    == n.end - k
        gs   == IF k < size THEN add(fs, Node("text", n.start, i)) ELSE fs
    IN  CASE k = 2 -> toggle(gs, "italic", i, n.end)
          [] k = 3 -> toggle(gs, "bold", i, n.end)
          [] k = 5 /\ ItalicFirst(gs) ->
                 toggle(toggle(gs, "italic", i, i + 2), "bold", i + 2, n.end)
          [] k = 5 /\ ~ItalicFirst(gs) ->
                 toggle(toggle(gs, "bold", i, i + 3), "italic", i + 3, n.end)

QuoteStep(fs, n) ==
    IF n.kind = "quote" THEN QuoteRun(fs, n)
    ELSE LET gs == add(IF isNewline(n) THEN closeTo(fs, 1, n.start) ELSE fs, n)
         IN  <<gs[1]>> \o [k \in 1 .. Len(gs) - 1 |-> [gs[k + 1] EXCEPT !.end = Max({@, n.end})]]

RECURSIVE dropEmpty(_)
dropEmpty(nodes) ==
    LET format(n) == n.kind \in {"bold", "italic"}
        kept == SelectSeq(nodes, LAMBDA n : ~ (format(n) /\ n.kids = <<>> /\ n.start = n.end))
    IN  [k \in DOMAIN kept |-> IF format(kept[k]) THEN [kept[k] EXCEPT !.kids = dropEmpty(@)]
                                                  ELSE kept[k]]

resolveQuotes(nodes) ==
    LET fs == FoldLeft(QuoteStep, <<Node("root", 0, 0)>>, nodes)
    IN  IF \E k \in DOMAIN nodes : nodes[k].kind = "quote"
          THEN dropEmpty(closeTo(fs, 1, Last(fs).end)[1].kids) ELSE nodes

----------------------------------------------------------------------------
(* Tags.                                                                     *)

\* Mutated form: an open tag of the same name in the content is not counted.
findClose_flat(s, t, i, end) ==
    LET k == Next1(s, i, end, {CloseOf[t]}) IN IF k = end THEN 0 ELSE k

\* The close tag for the content from i on: of a parsed tag, the first that no
\* open tag of the name in the content needs. 0 when there is none.
findClose(s, t, i, end) ==
    LET count(T, c) == Cardinality({k \in i .. c - 1 : s[k] \in T})
        P == {c \in i .. end - 1 :
                 /\ s[c] = CloseOf[t]
                 /\ t \notin Opaque => count(OpensOf(t), c) <= count({CloseOf[t]}, c)}
    IN  IF P = {} THEN 0 ELSE Min(P)

RECURSIVE Run(_, _, _, _, _, _)

inline(s, i, end, st, m) == Run(s, i, end, st, <<>>, m)

tag1(s, i, end, m) ==
    LET c == findClose(s, s[i], i + 1, end)
    IN  CASE s[i] \notin Tags -> Found(Nil, m)
          [] s[i] \in Void    -> Found(Node("tag", i, i + 1), m)
          [] s[i] \in DOMAIN CloseOf /\ c = 0 ->
                 Found(IF s[i] \in Loose THEN Node("tag", i, i + 1) ELSE Nil, m)
          [] s[i] \in Opaque /\ c > 0 -> Found(Node("tag", i, c + 1), m)
          [] OTHER -> Filled(Node("tag", i, c + 1), inline(s, i + 1, c, {}, m))

comment(s, i, end) == Node("comment", i, Min({end, Next1(s, i + 1, end, {"-->"}) + 1}))

----------------------------------------------------------------------------
(* Templates and arguments.                                                  *)

RECURSIVE Params(_, _, _, _, _, _)

\* The parameters of n from the one whose value is the run r; count of them
\* have no name.
Valued(s, n, name, index, count, start, end, r) ==
    Params(s, [n EXCEPT !.params = Append(@, [name |-> name, index |-> index, start |-> start,
                                              end |-> r.pos, value |-> r.nodes])],
           r.pos, count, end, r.memo)

\* The same from the one at pos on, whose run is val.
Param(s, n, pos, count, end, val) ==
    LET eq == topByte(s, val.nodes, "=")
    IN  CASE val.pos >= end -> Found(Nil, val.memo)
          [] val.pos < end /\ eq = 0 ->
                 Valued(s, n, <<>>, count + 1, count + 1, pos + 1, end, val)
          [] OTHER -> Valued(s, n, Trim(stripComments(Cut(s, pos + 1, eq))), 0, count, pos + 1, end,
                             inline(s, eq + 1, val.pos, {}, val.memo))

\* The parameters from the place pos on, which is after the name or a value.
Params(s, n, pos, count, end, m) ==
    CASE At(s, pos, end, <<"}", "}">>) -> Found([n EXCEPT !.end = pos + 2], m)
      [] At(s, pos, end, <<"|">>) ->
             Param(s, n, pos, count, end, inline(s, pos + 1, end, {"|", "}}"}, m))
      [] OTHER -> Found(Nil, m)

\* The template at i, whose name is the run r.
NamedBy(s, i, end, r) ==
    LET n(t)  == [Node("template", i, i) EXCEPT !.name = t]
        name  == Trim(stripComments(Cut(s, i + 2, r.pos)))
        colon == topByte(s, r.nodes, ":")
        fn    == IF colon = 0 THEN <<>> ELSE Trim(stripComments(Cut(s, i + 2, colon)))
    IN  CASE r.pos >= end -> Found(Nil, r.memo)
          [] r.pos < end /\ fn # <<>> /\ (fn[1] = "#" \/ fn \in ColonWords) ->
                 Valued(s, n(fn), <<>>, 1, 1, colon + 1, end, inline(s, colon + 1, r.pos, {}, r.memo))
          [] OTHER -> IF name = <<>> \/ ~validName(s, r.nodes) THEN Found(Nil, r.memo)
                      ELSE Params(s, n(name), r.pos, 0, end, r.memo)

template1(s, i, end, m) == NamedBy(s, i, end, inline(s, i + 2, end, {"|", "}}"}, m))

template(s, i, end, m) ==
    CASE Good(m, "tpl", i, end) -> Found(m.ok[<<"tpl", i>>], m)
      [] ~Good(m, "tpl", i, end) /\ Bad(m, "tpl", i, end) -> Found(Nil, m)
      [] OTHER -> Noted("tpl", i, end, template1(s, i, end, m))

RECURSIVE ArgumentFrom(_, _, _, _)
\* The argument at i after its name or a default, which is the run r.
ArgumentFrom(s, i, end, r) ==
    CASE At(s, r.pos, end, <<"|">>) ->
             ArgumentFrom(s, i, end, inline(s, r.pos + 1, end, {"}}"}, r.memo))
      [] At(s, r.pos, end, <<"}", "}", "}">>) -> Found(Node("argument", i, r.pos + 3), r.memo)
      [] OTHER -> Found(Nil, r.memo)

argument(s, i, end, m) == ArgumentFrom(s, i, end, inline(s, i + 3, end, {"|", "}}"}, m))

----------------------------------------------------------------------------
(* Links.                                                                    *)

RECURSIVE TargetEnd(_, _, _, _, _)

Target(k, broken, m) == [pos |-> k, broken |-> broken, memo |-> m]

OverTemplate(s, k, end, stop, t) ==
    IF t.node = Nil THEN Target(k, TRUE, t.memo) ELSE TargetEnd(s, t.node.end, end, stop, t.memo)

\* The place where a target or a URL ends, which templates in it do not end;
\* broken when one of those does not close.
TargetEnd(s, k, end, stop, m) ==
    CASE k >= end \/ s[Min({k, Len(s)})] \in stop -> Target(k, FALSE, m)
      [] k < end /\ s[k] \notin stop /\ At(s, k, end, <<"{", "{">>) ->
             OverTemplate(s, k, end, stop, template(s, k, end, m))
      [] OTHER -> TargetEnd(s, k + 1, end, stop, m)

\* The letters after the close of a link are part of it.
Trail(s, n, end) == IF hasNamespace(n.name) THEN n
                    ELSE [n EXCEPT !.end = AfterRun(s, n.end, end, Letters)]

\* A label that finds no close is noted, with its end.
Labelled(s, n, end, label) ==
    IF label.pos < end THEN Filled(Trail(s, [n EXCEPT !.end = label.pos + 2], end), label)
    ELSE Found(Nil, [label.memo EXCEPT !.eof = (n.start :> end) @@ @])

\* The link at i, whose target ends at t.
LinkTo(s, i, end, t) ==
    LET n == [Node("link", i, i) EXCEPT !.name = Trim(stripComments(Cut(s, i + 2, t.pos)))]
    IN  CASE t.broken \/ t.pos >= end \/ n.name = <<>> -> Found(Nil, t.memo)
          [] OTHER ->
             CASE At(s, t.pos, end, <<"]", "]">>) ->
                    Found(Trail(s, [n EXCEPT !.end = t.pos + 2], end), t.memo)
               [] s[t.pos] = "|" ->
                    Labelled(s, n, end, inline(s, t.pos + 1, end, {"]]"}, t.memo))
               [] OTHER -> Found(Nil, t.memo)

link1(s, i, end, m) ==
    LinkTo(s, i, end,
           TargetEnd(s, i + 2, end, {"|", "nl", "[", "]"} \cup Tags \cup CloseTags, m))

link(s, i, end, m) ==
    CASE Good(m, "link", i, end) -> Found(m.ok[<<"link", i>>], m)
      [] ~Good(m, "link", i, end) /\ Bad(m, "link", i, end) -> Found(Nil, m)
      [] OTHER -> Noted("link", i, end, link1(s, i, end, m))

ExtLabelled(s, i, end, label) ==
    IF At(s, label.pos, end, <<"]">>) THEN Filled(Node("extlink", i, label.pos + 1), label)
    ELSE Found(Nil, label.memo)

ExtLinkTo(s, i, end, t) ==
    LET k == AfterRun(s, t.pos, end, {" "})
    IN  IF At(s, k, end, <<"]">>) THEN Found(Node("extlink", i, k + 1), t.memo)
        ELSE ExtLabelled(s, i, end, inline(s, k, end, {"]", "nl"}, t.memo))

\* [url label]; the label ends at the line.
extLink(s, i, end, m) ==
    IF ~At(s, i, end, <<"[", "url">>) THEN Found(Nil, m)
    ELSE ExtLinkTo(s, i, end, TargetEnd(s, i + 1, end,
                                        {" ", "]", "nl", "[", "<!--"} \cup Tags \cup CloseTags, m))

tag(s, i, end, m) ==
    CASE Good(m, "tag", i, end) -> Found(m.ok[<<"tag", i>>], m)
      [] ~Good(m, "tag", i, end) /\ Bad(m, "tag", i, end) -> Found(Nil, m)
      [] OTHER -> Noted("tag", i, end, tag1(s, i, end, m))

----------------------------------------------------------------------------
(* The scan of a run.                                                        *)

\* What is not an argument may be a template.
OrTemplate(s, i, end, arg) == IF arg.node # Nil THEN arg ELSE template(s, i, end, arg.memo)

\* The construct that starts at i.
Construct(s, i, end, m) ==
    LET run == AfterRun(s, i, end, {"'"})
    IN  CASE s[i] = "<!--" -> Found(comment(s, i, end), m)
          [] s[i] \in Tags -> tag(s, i, end, m)
          [] At(s, i, end, <<"{", "{", "{">>) -> OrTemplate(s, i, end, argument(s, i, end, m))
          [] At(s, i, end, <<"{", "{">>) /\ ~At(s, i, end, <<"{", "{", "{">>) -> template(s, i, end, m)
          [] At(s, i, end, <<"[", "[">>) -> link(s, i, end, m)
          [] s[i] = "[" /\ ~At(s, i, end, <<"[", "[">>) -> extLink(s, i, end, m)
          [] s[i] = "'" /\ run - i >= 2 -> Found(Node("quote", i, run), m)
          [] OTHER -> Found(Nil, m)

Stops(s, i, end, st) ==
    \/ s[i] = "|" /\ "|" \in st
    \/ s[i] = "]" /\ "]" \in st
    \/ s[i] = "nl" /\ "nl" \in st
    \/ "}}" \in st /\ At(s, i, end, <<"}", "}">>)
    \/ "]]" \in st /\ At(s, i, end, <<"]", "]">>)

\* The construct at i failed, and so does the run that looks for its close token.
cannotClose(s, i, end, st, m) ==
    \/ /\ "}}" \in st
       /\ At(s, i, end, <<"{", "{">>) /\ ~At(s, i, end, <<"{", "{", "{">>)
       /\ Bad(m, "tpl", i, end)
    \/ /\ "]]" \in st
       /\ At(s, i, end, <<"[", "[">>) /\ ~At(s, i, end, <<"[", "[", "[">>)
       /\ i \in DOMAIN m.eof
       /\ m.eof[i] >= end

\* The run after the construct r at i.
After(s, i, end, st, out, r) ==
    LET next == IF s[i] \in {"{", "["} THEN AfterRun(s, i, end, {s[i]}) ELSE i + 1
    IN  CASE r.node # Nil -> Run(s, r.node.end, end, st, Append(out, r.node), r.memo)
          [] r.node = Nil /\ cannotClose(s, i, end, st, r.memo) ->
                 [nodes |-> resolveQuotes(appendText(out, i, end)), pos |-> end, memo |-> r.memo]
          [] OTHER -> Run(s, next, end, st, appendText(out, i, next), r.memo)

\* The run from i on, with the nodes so far: it stops at the end or at a stop.
Run(s, i, end, st, out, m) ==
    IF i >= end \/ Stops(s, Min({i, Len(s)}), end, st)
      THEN [nodes |-> resolveQuotes(out), pos |-> i, memo |-> m]
    ELSE IF s[i] = "nl" THEN Run(s, i + 1, end, st, Append(out, NewLine(i)), m)
    ELSE After(s, i, end, st, out, Construct(s, i, end, m))

ParseInline(s) == inline(s, 1, Len(s) + 1, {}, NoMemo).nodes
============================================================================

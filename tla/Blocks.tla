------------------------------- MODULE Blocks -------------------------------
(***************************************************************************)
(* The block part of the parser of wikitext, src/wiki/parse: lines into    *)
(* headings, paragraphs, lists and rules, sections from headings           *)
(* (block.go), and tables (table.go). A list, a paragraph or a pre block   *)
(* that goes on is always the last block, so the three pointers of blocks  *)
(* are one value, the kind of the block that is open. Attributes and the   *)
(* limits on the size and the time of a page are left out.                 *)
(***************************************************************************)
EXTENDS Inline

LOCAL INSTANCE FiniteSetsExt

ListMarks == {"*", "#", ":", ";"}

Starts(t, prefix) == At(t, 1, Len(t) + 1, prefix)

TrimLeft(t)  == SubSeq(t, AfterRun(t, 1, Len(t) + 1, {" "}), Len(t))
TrimRight(t) == SubSeq(t, 1, Max({0} \cup {p \in DOMAIN t : t[p] # " "}))

\* A line: its places, up to the line break, and its nodes.
Line(start, end, nodes) == [start |-> start, end |-> end, nodes |-> nodes]
Raw(s, l) == Cut(s, l.start, l.end)

\* lines: the nodes of a run, split at the top-level line breaks.
lines(start, end, nodes) ==
    LET break(ls, n) ==
            IF isNewline(n) THEN Append([ls EXCEPT ![Len(ls)].end = n.start], Line(n.end, end, <<>>))
                            ELSE [ls EXCEPT ![Len(ls)].nodes = Append(@, n)]
    IN  FoldLeft(break, <<Line(start, end, <<>>)>>, nodes)

onlyComments(nodes) == \A k \in DOMAIN nodes : nodes[k].kind = "comment"

----------------------------------------------------------------------------
(* Headings.                                                                 *)

RECURSIVE stripTrailingComments(_)
stripTrailingComments(raw) ==
    LET t == TrimRight(raw)
        O == {p \in DOMAIN t : t[p] = "<!--"}
    IN  IF t = <<>> \/ O = {} THEN raw
        ELSE IF Last(t) # "-->" THEN raw
        ELSE stripTrailingComments(SubSeq(t, 1, Max(O) - 1))

\* The level of a heading, 0 for a line that is none, and the places in the
\* line from and up to which its text is.
headingLevel(raw) ==
    LET t == TrimRight(stripTrailingComments(raw))
        P == {p \in DOMAIN t : t[p] # "="}
        level == Min({6} \cup IF P = {} THEN {(Len(t) - 1) \div 2}
                                        ELSE {Min(P) - 1, Len(t) - Max(P)})
    IN  IF Len(t) < 3 \/ level < 1 THEN [level |-> 0, from |-> 0, to |-> 0]
        ELSE [level |-> level, from |-> level, to |-> Len(t) - level]

heading(s, l, m) ==
    LET h == headingLevel(Raw(s, l))
    IN  Filled([Node("heading", l.start, l.end) EXCEPT !.level = h.level],
               inline(s, l.start + h.from, l.start + h.to, {}, m))

----------------------------------------------------------------------------
(* List lines: a ";" item with a ":" in its text is a term and a definition. *)

\* The items with one more, whose text is the run r.
WithItem(items, i, j, name, r) ==
    [nodes |-> Append(items, [Node("item", i, j) EXCEPT !.name = name, !.level = Len(name),
                                                        !.kids = r.nodes]),
     memo  |-> r.memo]

\* The definition after the term, which ends at c.
Definition(s, l, c, name, term) ==
    WithItem(term.nodes, c, l.end, Append(Front(name), ":"), inline(s, c + 1, l.end, {}, term.memo))

\* The items of a line whose text is the run r from k on; a term that has no
\* definition is read again, with the tables of the first reading.
Items(s, l, k, r) ==
    LET name == Cut(s, l.start, k)
        c    == topByte(s, r.nodes, ":")
    IN  CASE Last(name) # ";" -> WithItem(<<>>, l.start, l.end, name, r)
          [] Last(name) = ";" /\ c > 0 ->
                 Definition(s, l, c, name,
                            WithItem(<<>>, l.start, c, name, inline(s, k, c, {}, r.memo)))
          [] OTHER -> WithItem(<<>>, l.start, l.end, name, inline(s, k, l.end, {}, r.memo))

listItems(s, l, m) == LET k == AfterRun(s, l.start, l.end, ListMarks)
                      IN  Items(s, l, k, inline(s, k, l.end, {}, m))

----------------------------------------------------------------------------
(* Tables.                                                                   *)

\* The line that closes the table of line i, and the last line when none does.
tableEnd(s, ls, i) ==
    LET lead(j)  == TrimLeft(Raw(s, ls[j]))
        opens(j)  == Cardinality({k \in i .. j : Starts(lead(k), <<"{", "|">>)})
        closes(j) == Cardinality({k \in i .. j : Starts(lead(k), <<"|", "}">>)})
    IN  Min({Len(ls)} \cup {j \in i .. Len(ls) : /\ Starts(lead(j), <<"|", "}">>)
                                                 /\ opens(j) = closes(j)})

RECURSIVE walkText(_)
\* The text nodes of this level, those in bold and italic too.
walkText(nodes) ==
    FoldLeft(LAMBDA ts, n : CASE n.kind = "text" -> Append(ts, n)
                              [] n.kind \in {"bold", "italic"} -> ts \o walkText(n.kids)
                              [] OTHER -> ts, <<>>, nodes)

RECURSIVE CutsFrom(_, _, _, _)
CutsFrom(s, k, end, seps) ==
    CASE k + 1 >= end -> <<>>
      [] k + 1 < end /\ Cut(s, k, k + 2) \in seps -> <<k>> \o CutsFrom(s, k + 2, end, seps)
      [] OTHER -> CutsFrom(s, k + 1, end, seps)

\* The cells of a line: where each starts, where its content starts, its end.
cellSegments(s, l, start, end, header) ==
    LET seps == {<<"|", "|">>} \cup (IF header THEN {<<"!", "!">>} ELSE {})
        cuts == FoldLeft(LAMBDA cs, n : cs \o CutsFrom(s, Max({n.start, start}), Min({n.end, end}), seps),
                         <<>>, walkText(l.nodes))
    IN  [k \in 1 .. Len(cuts) + 1 |->
            <<IF k = 1 THEN start - 1 ELSE cuts[k - 1],
              IF k = 1 THEN start ELSE cuts[k - 1] + 2,
              IF k > Len(cuts) THEN end ELSE cuts[k]>>]

\* The place where the content of a cell starts: after a first "|", when only
\* text is before it.
cellAttrs(s, l, start, end) ==
    LET inside == SelectSeq(l.nodes, LAMBDA n : n.end > start /\ n.start < end)
        bar(n) == Next1(s, Max({n.start, start}), Min({n.end, end}), {"|"})
        stops  == {k \in DOMAIN inside : \/ inside[k].kind # "text"
                                         \/ bar(inside[k]) < Min({inside[k].end, end})}
        first  == inside[Min(stops)]
    IN  IF stops = {} THEN start
        ELSE IF first.kind = "text" /\ ~ \E k \in start .. bar(first) - 2 : At(s, k, end, <<"[", "[">>)
          THEN bar(first) + 1 ELSE start

\* A table while its lines are read: its rows and captions, the open row (0
\* for none), and its cells. A cell has its node, the span of its content and
\* the row or caption it is of.
Cell(node, start, end, of) == [node |-> node, start |-> start, end |-> end, of |-> of]

addRow(t, i, j) == [t EXCEPT !.kids = Append(@, Node("row", i, j)), !.row = Len(t.kids) + 1]

RowTo(t, end) == IF t.row = 0 THEN t ELSE [t EXCEPT !.kids[t.row].end = Max({@, end})]

\* extend: the line is part of the last cell.
extend(t, end) ==
    RowTo(IF t.cells = <<>> THEN t
          ELSE [t EXCEPT !.cells[Len(t.cells)].end = end, !.cells[Len(t.cells)].node.end = end], end)

addCells(s, t, l, i, header) ==
    LET u    == IF t.row = 0 THEN addRow(t, i, i) ELSE t
        segs == cellSegments(s, l, i + 1, l.end, header)
        cell(seg) == Cell(Node("cell", seg[1], seg[3]), cellAttrs(s, l, seg[2], seg[3]), seg[3], u.row)
    IN  [u EXCEPT !.cells = @ \o [k \in DOMAIN segs |-> cell(segs[k])], !.kids[u.row].end = l.end]

RECURSIVE TableLines(_, _, _, _, _)
TableLines(s, ls, i, last, t) ==
    LET l    == ls[i]
        raw  == TrimLeft(Raw(s, l))
        at   == l.end - Len(raw)
        end  == tableEnd(s, ls, i)
        goOn(u) == TableLines(s, ls, i + 1, last, u)
    IN  CASE i > last -> t
          [] i <= last /\ Starts(raw, <<"{", "|">>) ->
                TableLines(s, ls, end + 1, last, extend(t, ls[end].end))
          [] i <= last /\ Starts(raw, <<"|", "+">>) ->
                goOn([t EXCEPT !.kids = Append(@, Node("caption", at, l.end)),
                               !.cells = Append(@, Cell(Node("caption", at, l.end),
                                                        cellAttrs(s, l, at + 2, l.end), l.end,
                                                        Len(t.kids) + 1))])
          [] i <= last /\ Starts(raw, <<"|", "-">>) -> goOn(addRow(t, at, l.end))
          [] i <= last /\ Starts(raw, <<"!">>) -> goOn(addCells(s, t, l, at, TRUE))
          [] i <= last /\ Starts(raw, <<"|">>) /\ ~Starts(raw, <<"|", "+">>)
                       /\ ~Starts(raw, <<"|", "-">>) -> goOn(addCells(s, t, l, at, FALSE))
          [] OTHER -> goOn(extend(t, l.end))

RECURSIVE blocks(_, _, _, _)
RECURSIVE CellNodes(_, _, _, _)

FillCell(s, cells, k, r) ==
    CellNodes(s, [cells EXCEPT ![k].node.kids = r.nodes], k + 1, r.memo)

\* The cells from k on get their content: blocks when it has a line break.
CellNodes(s, cells, k, m) ==
    IF k > Len(cells) THEN [cells |-> cells, memo |-> m]
    ELSE LET c == cells[k]
         IN  FillCell(s, cells, k, IF \E p \in c.start .. c.end - 1 : s[p] = "nl"
                                     THEN blocks(s, c.start, c.end, m)
                                     ELSE inline(s, c.start, c.end, {}, m))

\* The table of these lines, from its rows and captions and from its cells.
TableNode(ls, kids, r) ==
    LET of(k) == LET own == SelectSeq(r.cells, LAMBDA c : c.of = k)
                 IN  [j \in DOMAIN own |-> own[j].node]
        filled(k) == IF kids[k].kind = "caption" THEN of(k)[1] ELSE [kids[k] EXCEPT !.kids = of(k)]
    IN  Found([Node("table", ls[1].start, Last(ls).end)
                  EXCEPT !.kids = [k \in DOMAIN kids |-> filled(k)]], r.memo)

ReadTable(s, ls, t, m) == TableNode(ls, t.kids, CellNodes(s, t.cells, 1, m))

\* table: the lines of one table, from "{|" to "|}".
table(s, ls, m) ==
    LET closed == Starts(TrimLeft(Raw(s, Last(ls))), <<"|", "}">>)
    IN  ReadTable(s, ls, TableLines(s, ls, 2, IF closed THEN Len(ls) - 1 ELSE Len(ls),
                                    [kids |-> <<>>, row |-> 0, cells |-> <<>>]), m)

----------------------------------------------------------------------------
(* Blocks.                                                                   *)

\* A line that starts with a space is no pre block when it starts with these.
startsBlockTag(t) ==
    t[1] \in {"|", "<!--"} \cup Tags \cup CloseTags
        \/ Starts(t, <<"{", "{">>) \/ Starts(t, <<"[", "[">>) \/ Starts(t, <<"{", "|">>)

\* The line on the open block of its kind, or in a new one.
OnBlock(out, kind, open, l) ==
    IF open = kind
      THEN [out EXCEPT ![Len(out)].end = l.end,
                       ![Len(out)].kids = Append(@, NewLine(l.start - 1)) \o l.nodes]
      ELSE Append(out, [Node(kind, l.start, l.end) EXCEPT !.kids = l.nodes])

OnList(out, open, l, items) ==
    IF open = "list" THEN [out EXCEPT ![Len(out)].end = l.end, ![Len(out)].kids = @ \o items]
    ELSE Append(out, [Node("list", l.start, l.end) EXCEPT !.kids = items])

RECURSIVE BlocksFrom(_, _, _, _, _, _)

AfterBlock(s, ls, i, out, r) == BlocksFrom(s, ls, i, Append(out, r.node), "none", r.memo)

AfterItems(s, ls, i, out, open, r) ==
    BlocksFrom(s, ls, i + 1, OnList(out, open, ls[i], r.nodes), "list", r.memo)

\* The blocks of the lines from i on, after those of out.
BlocksFrom(s, ls, i, out, open, m) ==
    LET l    == ls[i]
        raw  == Raw(s, l)
        trim == Trim(stripComments(raw))
        j    == tableEnd(s, ls, i)
        goOn(o, kind) == BlocksFrom(s, ls, i + 1, o, kind, m)
    IN  IF i > Len(ls) THEN [nodes |-> out, memo |-> m]
        ELSE IF trim = <<>>
               THEN goOn(out, IF onlyComments(l.nodes) /\ Trim(raw) # <<>> /\ open # "list"
                                THEN open ELSE "none")
        ELSE IF headingLevel(raw).level > 0 THEN AfterBlock(s, ls, i + 1, out, heading(s, l, m))
        ELSE IF Starts(TrimLeft(raw), <<"{", "|">>)
               THEN AfterBlock(s, ls, j + 1, out, table(s, SubSeq(ls, i, j), m))
        ELSE IF Starts(raw, <<"-", "-", "-", "-">>)
               THEN goOn(Append(out, Node("rule", l.start, l.end)), "none")
        ELSE IF raw[1] \in ListMarks THEN AfterItems(s, ls, i, out, open, listItems(s, l, m))
        ELSE LET kind == IF raw[1] = " " /\ ~startsBlockTag(trim) THEN "pre" ELSE "paragraph"
             IN  goOn(OnBlock(out, kind, open, l), kind)

BlocksOf(s, start, end, r) == BlocksFrom(s, lines(start, end, r.nodes), 1, <<>>, "none", r.memo)

blocks(s, start, end, m) == BlocksOf(s, start, end, inline(s, start, end, {}, m))

----------------------------------------------------------------------------
(* Sections: the open ones are frames on a stack, as the formats of a line.  *)

\* Mutated form: a heading of the same level is a subsection.
Deeper_same(fs, level) == Max({1} \cup {k \in DOMAIN fs : k > 1 /\ fs[k].level <= level})

\* The frames that a heading of a level leaves open.
Deeper(fs, level) == Max({1} \cup {k \in DOMAIN fs : k > 1 /\ fs[k].level < level})

topSections(bs, end) ==
    LET step(fs, b) ==
            IF b.kind # "heading" THEN add(fs, b)
            ELSE Append(closeTo(fs, Deeper(fs, b.level), b.start),
                        [Node("section", b.start, end) EXCEPT !.level = b.level, !.kids = <<b>>])
    IN  closeTo(FoldLeft(step, <<Node("root", 0, 0)>>, bs), 1, end)[1].kids

\* The lead, which is the section of level 0, and the top-level sections.
sections(bs, end) ==
    LET P    == {k \in DOMAIN bs : bs[k].kind = "heading"}
        k    == Min({Len(bs) + 1} \cup P)
        lead == [Node("section", 1, IF P = {} THEN end ELSE bs[k].start)
                    EXCEPT !.kids = SubSeq(bs, 1, k - 1)]
    IN  <<lead>> \o topSections(SubSeq(bs, k, Len(bs)), end)

Parse(s) == LET end == Len(s) + 1
            IN  [Node("document", 1, end) EXCEPT !.kids = sections(blocks(s, 1, end, NoMemo).nodes, end)]
=============================================================================

------------------------------ MODULE Wikitext ------------------------------
(***************************************************************************)
(* The converter of wikitext to Markdown and to plain text,                *)
(* src/wiki/wikitext.go. A scan over the source (stripCommon) drops        *)
(* comments, references, templates, tables and the links of special        *)
(* namespaces; a second scan (finish) converts what is left.               *)
(*                                                                         *)
(* A text is a sequence of tokens: the characters that the scans tell      *)
(* apart, and whole tags and words. finishMarkdown and finishText are two  *)
(* copies of one scan and are modelled as one operator with a flag md.     *)
(* Entities, URLs and the language of a code block are left out.           *)
(***************************************************************************)
EXTENDS Integers, SequencesExt

LOCAL INSTANCE FiniteSetsExt

\* The tokens that hold a '>', and those that start with a '<'.
SelfClosed == {"<ref/>", "/>"}
Closing    == {"</ref>", "</nowiki>", "</pre>", "</code>", "</syn>"}
Closed     == SelfClosed \cup Closing \cup
                  {">", "-->", "<ref>", "<nowiki>", "<pre>", "<code>", "<syn>", "<b>"}
Tag        == (Closed \ {">", "-->", "/>"}) \cup {"<", "<!--", "<ref "}

ListMarks == {"*", "#", ":", ";"}
Spaces    == {" ", "nl"}

\* isStripLinkPrefix: the namespaces and interwiki codes that drop a link, as
\* tokens: "file" and "fr". A title before a colon, such as "a", is kept.
StripPrefixes == {<<"file">>, <<"fr">>}

----------------------------------------------------------------------------
(* Searching a text. A position of 0 is "not found".                         *)

From(s, i) == IF i > Len(s) THEN {} ELSE i .. Len(s)

Find(s, i, tokens) == LET P == {p \in From(s, i) : s[p] \in tokens}
                      IN  IF P = {} THEN 0 ELSE Min(P)

\* The first place from i on where the text has the tokens t.
FindSeq(s, i, t) ==
    LET P == {p \in From(s, i) : p + Len(t) - 1 <= Len(s)
                                  /\ \A k \in DOMAIN t : s[p + k - 1] = t[k]}
    IN  IF P = {} THEN 0 ELSE Min(P)

At(s, i, t) == i + Len(t) - 1 <= Len(s) /\ \A k \in DOMAIN t : s[i + k - 1] = t[k]

\* The place after the run of tokens that starts at i.
AfterRun(s, i, tokens) ==
    LET P == {p \in From(s, i) : s[p] \notin tokens} IN IF P = {} THEN Len(s) + 1 ELSE Min(P)

Trim(s) == LET P == {p \in DOMAIN s : s[p] \notin Spaces}
           IN  IF P = {} THEN <<>> ELSE SubSeq(s, Min(P), Max(P))

Repeat(t, n) == [k \in 1 .. n |-> t]

\* The output of a scan: Step gives the output of the construct at a place and
\* the place after it.
Scan(s, Step(_, _)) ==
    LET f[i \in 1 .. Len(s) + 1] ==
            IF i > Len(s) THEN <<>> ELSE LET r == Step(s, i) IN r.out \o f[r.next]
    IN  f[1]

Put(out, next) == [out |-> out, next |-> next]

----------------------------------------------------------------------------
(* Mutated forms; no specification uses them.                                *)

RECURSIVE scanBalanced_flat(_, _, _, _, _)
\* The nesting of a construct is not counted.
scanBalanced_flat(s, j, depth, open, close) ==
    IF FindSeq(s, j, close) = 0 THEN 0 ELSE FindSeq(s, j, close) + 2

\* The text of a link is its target and its label.
writeWikiLink_whole(content, md) == content

----------------------------------------------------------------------------
(* stripCommon                                                               *)

RECURSIVE scanBalanced(_, _, _, _, _)
\* The place after the close that matches an open before j; 0 when there is none.
scanBalanced(s, j, depth, open, close) ==
    CASE depth = 0       -> j
      [] depth > 0 /\ j + 1 > Len(s) -> 0
      [] OTHER -> LET d == CASE At(s, j, open) -> 1 [] At(s, j, close) -> -1 [] OTHER -> 0
                  IN  scanBalanced(s, IF d = 0 THEN j + 1 ELSE j + 2, depth + d, open, close)

\* A construct with nesting is dropped; when it has no end, its open is text.
DropBalanced(s, i, open, close) ==
    LET end == scanBalanced(s, i + 2, 1, open, close)
    IN  IF end > 0 THEN Put(<<>>, end) ELSE Put(open, i + 2)

\* Dropped up to `close`, or to the end of the text.
DropUntil(s, i, close) ==
    Put(<<>>, IF Find(s, i + 1, {close}) = 0 THEN Len(s) + 1 ELSE Find(s, i + 1, {close}) + 1)

\* <ref ...>...</ref> or <ref .../>; without its end only the tag is dropped.
DropRef(s, i) ==
    LET gt  == Find(s, i, Closed)
        end == Find(s, gt + 1, {"</ref>"})
    IN  CASE gt = 0 -> Put(<<s[i]>>, i + 1)
          [] gt > 0 /\ s[gt] \in SelfClosed -> Put(<<>>, gt + 1)
          [] OTHER -> Put(<<>>, IF end > 0 THEN end + 1 ELSE gt + 1)

\* [[prefix:...]] with a prefix that drops the link.
IsStripLink(s, i) == LET stop == Find(s, i + 2, {":", "|", "]", "nl"})
                     IN  stop > 0 /\ s[stop] = ":" /\ SubSeq(s, i + 2, stop - 1) \in StripPrefixes

StripStep(s, i) ==
    CASE s[i] = "<!--"     -> DropUntil(s, i, "-->")
      [] s[i] = "<nowiki>" -> DropUntil(s, i, "</nowiki>")
      [] s[i] \in {"<ref>", "<ref/>", "<ref "} -> DropRef(s, i)
      [] At(s, i, <<"{", "{">>) -> DropBalanced(s, i, <<"{", "{">>, <<"}", "}">>)
      [] At(s, i, <<"{", "|">>) -> DropBalanced(s, i, <<"{", "|">>, <<"|", "}">>)
      [] At(s, i, <<"[", "[">>) -> IF IsStripLink(s, i)
                                     THEN DropBalanced(s, i, <<"[", "[">>, <<"]", "]">>)
                                     ELSE Put(<<"[", "[">>, i + 2)
      [] OTHER -> Put(<<s[i]>>, i + 1)

stripCommon(s) == Scan(s, StripStep)

----------------------------------------------------------------------------
(* The constructs of the second scan. An output token "(" ... ")" stands for *)
(* the URL of a Markdown link. NoStep is a construct that is not there.      *)

NoStep == Put(<<>>, 0)

\* [[page|label]]; Markdown links to the page, but a link to a section of the
\* same page is its label, and a special namespace is dropped.
writeWikiLink(content, md) ==
    LET pipe  == Find(content, 1, {"|"})
        page  == Trim(IF pipe = 0 THEN content ELSE SubSeq(content, 1, pipe - 1))
        label == Trim(IF pipe = 0 THEN content ELSE SubSeq(content, pipe + 1, Len(content)))
    IN  CASE ~md -> label
          [] md /\ At(page, 1, <<"file", ":">>) -> <<>>
          [] md /\ (page = <<>> \/ page[1] = "#") -> label
          [] OTHER -> <<"[">> \o label \o <<"]", "(page)">>

WikiLink(s, i, md) == LET end == FindSeq(s, i + 2, <<"]", "]">>)
                      IN  IF At(s, i, <<"[", "[">>) /\ end > 0
                            THEN Put(writeWikiLink(SubSeq(s, i + 2, end - 1), md), end + 2)
                            ELSE NoStep

\* [url text]
ExtLink(s, i, md) ==
    LET end  == Find(s, i + 1, {"]"})
        rest == SubSeq(s, i + 1, end - 1)
        sp   == Find(rest, 1, {" "})
        text == SubSeq(rest, sp + 1, Len(rest))
    IN  IF ~At(s, i, <<"[", "http">>) \/ end = 0 THEN NoStep
        ELSE Put(CASE md /\ sp > 0  -> <<"[">> \o Trim(text) \o <<"]", "(url)">>
                   [] md /\ sp = 0  -> rest
                   [] ~md /\ sp > 0 -> text
                   [] OTHER -> <<>>, end + 1)

RECURSIVE Emphasis(_, _, _)

\* writeInlineMD and writeInlineText: the text of an emphasis. The text form
\* knows no external links.
InlineStep(s, i, md) ==
    LET link == WikiLink(s, i, md)
        ext  == IF md THEN ExtLink(s, i, md) ELSE NoStep
        em   == Emphasis(s, i, md)
    IN  CASE link # NoStep -> link
          [] link = NoStep /\ ext # NoStep -> ext
          [] link = NoStep /\ ext = NoStep /\ em # NoStep -> em
          [] OTHER -> Put(<<s[i]>>, i + 1)

\* The longest of ''''' ''' '' that starts at i and is closed later.
Emphasis(s, i, md) ==
    LET run   == AfterRun(s, i, {"'"}) - i
        tries == {n \in {2, 3, 5} : n <= run /\ FindSeq(s, i + n, Repeat("'", n)) > 0}
        n     == Max(tries)
        end   == FindSeq(s, i + n, Repeat("'", n))
        inner == Scan(SubSeq(s, i + n, end - 1), LAMBDA t, k : InlineStep(t, k, md))
        mark  == IF md THEN <<IF n = 5 THEN "***" ELSE IF n = 3 THEN "**" ELSE "*">> ELSE <<>>
    IN  IF tries = {} THEN NoStep ELSE Put(mark \o inner \o mark, end + n)

\* A heading is its line without the signs; in it nothing is converted.
Heading(s, i, md) ==
    LET level == AfterRun(s, i, {"="}) - i
        line  == Find(s, i, {"nl"})
        end   == IF line = 0 THEN Len(s) + 1 ELSE line
        text  == SubSeq(s, i + level, end - 1)
        P     == {p \in DOMAIN text : text[p] \notin {"=", " "}}
        title == IF P = {} THEN <<>> ELSE Trim(SubSeq(text, 1, Max(P)))
    IN  IF level \notin 2 .. 6 THEN NoStep
        ELSE Put((IF md THEN Repeat("#", level) \o <<" ">> ELSE <<>>) \o title, end)

listPrefix(marks, md) ==
    Repeat("  ", Len(marks) - 1) \o
        CASE Last(marks) = "#" -> <<"1. ">>
          [] Last(marks) = "*" -> <<"- ">>
          [] Last(marks) = ":" /\ md -> <<"> ">>
          [] OTHER -> <<>>

List(s, i, md) ==
    LET end == AfterRun(s, i, ListMarks)
    IN  IF s[i] \notin ListMarks THEN NoStep
        ELSE Put(listPrefix(SubSeq(s, i, end - 1), md), AfterRun(s, end, {" "}))

CloseOf == [t \in {"<syn>", "<pre>", "<code>"} |->
               CASE t = "<syn>" -> "</syn>" [] t = "<pre>" -> "</pre>" [] t = "<code>" -> "</code>"]

\* The code in a code tag is copied.
CodeBlock(s, i, md) ==
    LET end  == Find(s, i, {CloseOf[s[i]]})
        code == SubSeq(s, i + 1, end - 1)
        mark == IF md THEN <<IF s[i] = "<code>" THEN "tick" ELSE "fence">> ELSE <<>>
    IN  IF s[i] \notin DOMAIN CloseOf \/ end = 0 THEN NoStep
        ELSE Put(mark \o (IF s[i] = "<code>" THEN code ELSE Trim(code)) \o mark, end + 1)

\* Any other tag, up to the next '>', is dropped.
OtherTag(s, i) == IF s[i] \in Tag /\ Find(s, i, Closed) > 0
                    THEN Put(<<>>, Find(s, i, Closed) + 1) ELSE NoStep

Newlines(s, i) == IF At(s, i, Repeat("nl", 3))
                    THEN Put(<<"nl", "nl">>, AfterRun(s, i, {"nl"})) ELSE NoStep

\* finishMarkdown and finishText: the first construct that is there.
FinishStep(s, i, md) ==
    LET lineStart == i = 1 \/ s[i - 1] = "nl"
        steps == SelectSeq(
            <<CodeBlock(s, i, md), OtherTag(s, i),
              IF lineStart THEN List(s, i, md) ELSE NoStep,
              WikiLink(s, i, md), ExtLink(s, i, md),
              IF lineStart THEN Heading(s, i, md) ELSE NoStep,
              Emphasis(s, i, md), Newlines(s, i)>>, LAMBDA r : r # NoStep)
    IN  IF steps = <<>> THEN Put(<<s[i]>>, i + 1) ELSE Head(steps)

finish(s, md) == Trim(Scan(s, LAMBDA t, i : FinishStep(t, i, md)))

\* WikitextToMarkdown, WikitextToText and ConvertBoth
Convert(s, md) == finish(stripCommon(s), md)
============================================================================

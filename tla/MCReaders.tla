------------------------------ MODULE MCReaders ------------------------------
(* The instance of Readers that TLC checks. *)
EXTENDS Readers, SequencesExt

(* SQLReader: up to two rows of two columns, with escapes that mysqldump     *)
(* writes, separators inside a text, and a row that is too short. The text  *)
(* is put together part by part, and the places of the parts counted; the   *)
(* assumption of Readers says that they fit.                                *)

Dump == INSTANCE SQLDump

RawField(t)  == [kind |-> "raw", text |-> t]
TextField(t) == [kind |-> "quoted", text |-> t]
NullField    == [kind |-> "null", text |-> <<>>]
MCRows == { <<NullField, TextField(<<"'", "a">>)>>,
            <<RawField(<<"1">>), TextField(<<"\\", "n", "nul", "nl">>)>>,
            <<TextField(<<")", ",", "'">>), TextField(<<>>)>>,
            <<RawField(<<"1">>)>> }
MCNumCols == 2
MCTokens == {"word", "nl", "CREATE", "col", "INSERT", " ", "INTO", "t", "VALUES", "NULL",
             "(", ")", ",", ";", "'", "\\", "a", "1", "n", "nul", "0"}

MCHead == <<"word", "nl", "CREATE", "nl">>
              \o FlattenSeq([i \in 1 .. MCNumCols |-> <<"col", "nl">>]) \o <<")", "nl">>

\* The text of a field, with what follows it, and of the first j characters of one.
CharsText(d, f, j) == FlattenSeq([i \in 1 .. j |-> Dump!CharText(d, f.text[i])])
FieldText(d, f, sep) ==
    (IF f.kind = "quoted" THEN <<"'">> \o CharsText(d, f, Len(f.text)) \o <<"'">>
     ELSE Dump!Bare(f)) \o <<sep>>
FieldsText(d, r, n) ==
    FlattenSeq([i \in 1 .. n |->
        FieldText(d, d.rows[r][i], IF i = Len(d.rows[r]) THEN ")" ELSE ",")])
RowText(d, r) == Dump!RowStart(d, r) \o FieldsText(d, r, Len(d.rows[r]))
                     \o IF Dump!Ends(d, r) THEN <<";", "nl">> ELSE <<>>
RowsText(d, n) == FlattenSeq([r \in 1 .. n |-> RowText(d, r)])

SQLFile(d) ==
    LET rowAt   == [r \in 1 .. Len(d.rows) + 1 |-> 1 + Len(MCHead \o RowsText(d, r - 1))]
        fieldAt == [r \in DOMAIN d.rows |-> [f \in 1 .. Len(d.rows[r]) + 1 |->
                       rowAt[r] + Len(Dump!RowStart(d, r) \o FieldsText(d, r, f - 1))]]
        charAt  == [r \in DOMAIN d.rows |-> [f \in DOMAIN d.rows[r] |->
                       [j \in 1 .. Len(d.rows[r][f].text) + 1 |->
                           fieldAt[r][f] + 1 + Len(CharsText(d, d.rows[r][f], j - 1))]]]
    IN  [rows |-> d.rows, starts |-> d.starts, doubled |-> d.doubled, lines |-> d.lines,
         text |-> MCHead \o RowsText(d, Len(d.rows)) \o <<"word", ";", "nl">>,
         row |-> rowAt, field |-> fieldAt, char |-> charAt]

MCSQLFiles ==
    UNION { { SQLFile([rows |-> rs, starts |-> st, doubled |-> old, lines |-> ~old]) :
                 rs \in [1 .. n -> MCRows], old \in BOOLEAN,
                 st \in {x \in SUBSET (1 .. n) : n > 0 => 1 \in x} } : n \in 0 .. 2 }

----------------------------------------------------------------------------
(* DumpPages                                                                 *)

Page(ns, text, hit, path) == [decodes |-> TRUE, ns |-> ns, redirect |-> FALSE,
                              text |-> text, hit |-> hit, path |-> path]
MCPages == { Page(0, "prose", "title", "p"), Page(0, "prose", "text", "q"),
             Page(1, "prose", "none", "p"), Page(0, "short", "none", "p"),
             Page(0, "redirect", "text", "q"), Page(0, "markup", "none", "p"),
             [Page(0, "prose", "title", "p") EXCEPT !.decodes = FALSE],
             [Page(0, "blank", "title", "p") EXCEPT !.redirect = TRUE] }

Command(name, namespace, limitOf) ==
    [name |-> name, namespace |-> namespace, limit |-> limitOf, titleOnly |-> FALSE,
     minBytes |-> FALSE, keepRedirects |-> FALSE, outDir |-> FALSE,
     process |-> FALSE, full |-> FALSE, buffers |-> FALSE]
MCCommands == { [Command("pages", 0, 2) EXCEPT !.buffers = TRUE],
                [Command("pages", -1, 0) EXCEPT !.process = TRUE],
                [Command("pages", -1, 1) EXCEPT !.full = TRUE],
                [Command("pages", -1, 0) EXCEPT !.full = TRUE, !.buffers = TRUE],
                Command("grep", 0, 1),
                [Command("grep", -1, 0) EXCEPT !.titleOnly = TRUE],
                [Command("export", 0, 2) EXCEPT !.outDir = TRUE, !.minBytes = TRUE],
                [Command("export", 0, 0) EXCEPT !.outDir = TRUE, !.full = TRUE],
                [Command("export", 0, 1) EXCEPT !.full = TRUE],
                [Command("export", 0, 0) EXCEPT !.outDir = TRUE, !.keepRedirects = TRUE] }

----------------------------------------------------------------------------
(* PagesByID: up to three streams, one of them with a syntax error between   *)
(* its pages, two that do not decode, one without pages.                   *)

MCIDs    == {1, 2, 3, 9}
MCBroken == -1
MCStreamTexts == {<<>>, <<1>>, <<2, 3>>, <<1, Edge, 2>>, <<3, Broken>>, <<Broken>>}
MCIDFiles == {{}, {1}, {2, 9}, {1, 3}, {9}, {1, 2, 3}}
MCLimits  == {0, 1, 2}

----------------------------------------------------------------------------
(* ProjectPages                                                              *)

MCProjects == <<"art", "math">>
MCParts == { <<>>, [math |-> <<0, 1>>], [art |-> <<1, 0>>, math |-> <<0>>], [art |-> <<1>>] }
MCRequests == [ns : {-1, 0}, limit : {0, 1, 3}]

----------------------------------------------------------------------------
(* DumpFiles: four dates, one more than `dump tables` tries.                 *)

File(name, job, status, size, has) ==
    [name |-> name, job |-> job, status |-> status, size |-> size, has |-> has]
PageSQL(status)  == File("page.sql", "pagetable", status, 1, {"sql"})
LinksSQL(status) == File("links.sql", "linkstable", status, 1, {"sql"})
Articles == File("articles.xml", "articlesdump", "done", 3, {"articles", "pages-articles", "combined"})
Index    == File("articles-index.txt", "articles", "done", 1, {"articles", "pages-articles", "index"})
Small    == File("articles-small.xml", "articles", "done", 2, {"articles", "pages-articles", "combined"})
Multi    == File("articles-multi.xml", "multi", "done", 1,
                 {"articles", "pages-articles", "combined", "multistream"})
Part1    == File("articles1.xml", "articles1", "done", 1, {"articles", "pages-articles"})

MCTables    == <<"page", "links">>
MCTableFile == [page  |-> [name |-> "page.sql", job |-> "pagetable"],
                links |-> [name |-> "links.sql", job |-> "linkstable"]]
MCNoAnswer  == <<"no answer">>
MCListings  == { NoAnswer, <<>>,
                 <<Index, Multi, Small, Articles, LinksSQL("done"), PageSQL("done")>>,
                 <<Articles, LinksSQL("done"), PageSQL("running")>>,
                 <<Index, Part1, PageSQL("done")>>,
                 <<File("old-page.sql", "sql", "done", 1, {"sql", "page.sql"}),
                   LinksSQL("done"), PageSQL("done")>> }
MCQueries    == {"page.sql", "articles", "sql", "none"}

----------------------------------------------------------------------------
(* Fetcher: two goroutines, one call each, an interval below the shortest.   *)

MCFetchers    == {"g1", "g2"}
MCAbsent      == -1
MCWaits       == {Absent, 0, 3}
=============================================================================

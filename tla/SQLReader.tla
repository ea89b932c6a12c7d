----------------------------- MODULE SQLReader -----------------------------
(***************************************************************************)
(* The reader of the SQL dumps, src/wiki/dump/sql.go: the head up to the   *)
(* end of CREATE TABLE, then Next, which returns the rows of the INSERT    *)
(* statements one by one. The caller calls Next until it gives an error or *)
(* io.EOF.                                                                 *)
(*                                                                         *)
(* A file is a sequence of tokens (SQLDump). The table it was written      *)
(* from, the place where it is cut and how the bytes end there (the end of *)
(* a file, or an error such as a damaged gzip stream) are chosen in Init.  *)
(***************************************************************************)
EXTENDS SQLDump

CONSTANT SQLFiles  \* the dumps of tables: their rows, and where each part of the text is

----------------------------------------------------------------------------
VARIABLES
    table,  \* the dump that the file is of
    file,   \* the tokens of the file, up to its cut
    tail,   \* how the bytes end: "eof" or "broken"
    pos,    \* the next token
    mode,   \* the part of the reader that reads it
    cols,   \* the columns read
    buf, row,  \* the field and the row being read
    rows    \* the rows returned

vars == <<table, file, tail, pos, mode, cols, buf, row, rows>>

Init == /\ table \in SQLFiles
        /\ \E cut \in 0 .. Len(table.text) : file = SubSeq(table.text, 1, cut)
        /\ tail \in {"eof", "broken"}
        /\ pos = 1 /\ mode = "head" /\ cols = 0
        /\ buf = <<>> /\ row = <<>> /\ rows = <<>>

AtEnd == pos > Len(file)
C     == file[pos]
At(t) == ~AtEnd /\ C = t

\* A line, or a word, that starts at p: it reaches the first newline, or space, at q.
LineTo(p, q) == file[q] = "nl" /\ \A k \in p .. (q - 1) : file[k] # "nl"
WordTo(p, q) == file[q] \in Space /\ \A k \in p .. (q - 1) : file[k] \notin Space

\* The line that starts at p ends in a newline; readLine gives no error.
LineEnds(p) == \E q \in p .. Len(file) : file[q] = "nl"

\* readLine: the place after the next newline, or after the last token.
AfterLine(p) == IF LineEnds(p) THEN 1 + CHOOSE q \in p .. Len(file) : LineTo(p, q)
                ELSE Len(file) + 1

\* The word that starts at p ends before the next space, at the last token otherwise.
AfterWord(p) == IF \E q \in p .. Len(file) : file[q] \in Space
                  THEN CHOOSE q \in p .. Len(file) : WordTo(p, q)
                  ELSE Len(file) + 1

Answer(a) == /\ mode' = a
             /\ UNCHANGED <<table, file, tail, pos, cols, buf, row, rows>>

Move(p, m) == /\ pos' = p /\ mode' = m
              /\ UNCHANGED <<table, file, tail>>

----------------------------------------------------------------------------
(* Mutated forms; no specification uses them.                                *)

\* The error of the last, incomplete statement is taken for the end.
InsideEnds_clean == /\ mode \in {"words", "list", "field", "raw", "quoted", "closed"} /\ AtEnd
                    /\ Answer(IF tail = "eof" THEN "eof" ELSE "error")

\* The character after a backslash is kept as it is.
unescape_none(e) == e

\* unescape
unescape(e) == CASE e = "0" -> "nul"
                 [] e = "n" -> "nl"
                 [] e = "r" -> "cr"
                 [] e = "t" -> "tab"
                 [] e = "b" -> "bs"
                 [] e = "Z" -> "sub"
                 [] OTHER   -> e

----------------------------------------------------------------------------
(* NewSQLReader: readHead and readColumns.                                   *)

\* readHead: a line before the CREATE TABLE.
HeadLine == /\ mode = "head" /\ ~AtEnd /\ C # "CREATE" /\ LineEnds(pos)
            /\ Move(AfterLine(pos), "head")
            /\ UNCHANGED <<cols, buf, row, rows>>

\* readHead: the line of the CREATE TABLE.
HeadCreate == /\ mode = "head" /\ ~AtEnd /\ C = "CREATE"
              /\ Move(AfterLine(pos), "cols")
              /\ UNCHANGED <<cols, buf, row, rows>>

\* readColumns: the line of a column.
ColumnLine == /\ mode = "cols" /\ ~AtEnd /\ C # ")" /\ LineEnds(pos)
              /\ Move(AfterLine(pos), "cols")
              /\ cols' = IF C = "col" THEN cols + 1 ELSE cols
              /\ UNCHANGED <<buf, row, rows>>

\* readColumns: the line that starts with the closing parenthesis.
ColumnsClose == /\ mode = "cols" /\ ~AtEnd /\ C = ")"
                /\ Move(AfterLine(pos), IF cols = 0 THEN "error" ELSE "find")
                /\ UNCHANGED <<cols, buf, row, rows>>

\* The stream ends before the end of the CREATE TABLE.
HeadEnds == /\ \/ mode = "head" /\ ~At("CREATE") /\ ~LineEnds(pos)
               \/ mode = "cols" /\ ~At(")") /\ ~LineEnds(pos)
            /\ Answer("error")

----------------------------------------------------------------------------
(* findInsert                                                                *)

\* The bytes at pos are those of insertPrefix.
AtInsert == /\ pos + 3 <= Len(file)
            /\ file[pos] = "INSERT" /\ file[pos + 1] = " "
            /\ file[pos + 2] = "INTO" /\ file[pos + 3] = " "

InsertFound == /\ mode = "find" /\ AtInsert
               /\ Move(pos, "words")
               /\ UNCHANGED <<cols, buf, row, rows>>

\* A line that is no INSERT statement.
SkipLine == /\ mode = "find" /\ ~AtEnd /\ ~AtInsert /\ LineEnds(pos)
            /\ Move(AfterLine(pos), "find")
            /\ UNCHANGED <<cols, buf, row, rows>>

\* io.EOF between two lines, and in a line that is no INSERT statement.
FindEnds == /\ mode = "find" /\ ~AtInsert /\ ~LineEnds(pos)
            /\ Answer(IF tail = "eof" THEN "eof" ELSE "error")

\* skipSpace, before a word, a tuple, a field and what follows a quoted field.
SkipSpace == /\ mode \in {"words", "list", "field", "closed"} /\ ~AtEnd /\ C \in Space
             /\ Move(pos + 1, mode)
             /\ UNCHANGED <<cols, buf, row, rows>>

\* readWord: one word, which a space ends.
ReadWord == /\ mode = "words" /\ ~AtEnd /\ C \notin Space
            /\ IF AfterWord(pos) > Len(file) THEN Move(AfterWord(pos), "words")
               ELSE Move(AfterWord(pos) + 1,
                         IF AfterWord(pos) = pos + 1 /\ C = "VALUES"
                           THEN "list" ELSE "words")
            /\ UNCHANGED <<cols, buf, row, rows>>

----------------------------------------------------------------------------
(* Next and readTuple                                                        *)

\* A comma between two tuples.
ListComma == /\ mode = "list" /\ At(",")
             /\ Move(pos + 1, "list")
             /\ UNCHANGED <<cols, buf, row, rows>>

ListOpen == /\ mode = "list" /\ At("(")
            /\ Move(pos + 1, "field")
            /\ row' = <<>>
            /\ UNCHANGED <<cols, buf, rows>>

\* A semicolon ends the statement; nothing else may stand between two tuples.
ListClose == /\ mode = "list" /\ ~AtEnd /\ C \notin Space \cup {",", "("}
             /\ Move(pos + 1, IF C = ";" THEN "find" ELSE "error")
             /\ UNCHANGED <<cols, buf, row, rows>>

FieldStart == /\ mode = "field" /\ ~AtEnd /\ C \notin Space
              /\ IF C = "'" THEN Move(pos + 1, "quoted") ELSE Move(pos, "raw")
              /\ buf' = <<>>
              /\ UNCHANGED <<cols, row, rows>>

RawChar == /\ mode = "raw" /\ ~AtEnd /\ C \notin {",", ")"}
           /\ Move(pos + 1, "raw")
           /\ buf' = IF C \in Space THEN buf ELSE Append(buf, C)
           /\ UNCHANGED <<cols, row, rows>>

\* The field ends: the next field, or the row, whose fields are counted.
FieldDone(v) ==
    /\ row' = Append(row, v)
    /\ CASE C = "," -> Move(pos + 1, "field") /\ UNCHANGED rows
         [] C = ")" /\ Len(row') = cols -> Move(pos + 1, "list") /\ rows' = Append(rows, row')
         [] OTHER -> Move(pos + 1, "error") /\ UNCHANGED rows
    /\ UNCHANGED <<cols, buf>>

RawDone == /\ mode = "raw" /\ ~AtEnd /\ C \in {",", ")"}
           /\ FieldDone(IF buf = <<"NULL">> THEN Null ELSE Raw(buf))

\* readQuoted
QuotedChar == /\ mode = "quoted" /\ ~AtEnd /\ C \notin {"'", "\\"}
              /\ Move(pos + 1, "quoted")
              /\ buf' = Append(buf, C)
              /\ UNCHANGED <<cols, row, rows>>

QuotedEscape == /\ mode = "quoted" /\ ~AtEnd /\ C = "\\"
                /\ IF pos = Len(file) THEN Move(pos + 1, "quoted") /\ UNCHANGED buf
                   ELSE /\ Move(pos + 2, "quoted")
                        /\ buf' = Append(buf, unescape(file[pos + 1]))
                /\ UNCHANGED <<cols, row, rows>>

CloseQuote == /\ mode = "quoted" /\ ~AtEnd /\ C = "'"
              /\ IF pos < Len(file) /\ file[pos + 1] = "'"
                   THEN Move(pos + 2, "quoted") /\ buf' = Append(buf, "'")
                   ELSE Move(pos + 1, "closed") /\ UNCHANGED buf
              /\ UNCHANGED <<cols, row, rows>>

QuotedDone == /\ mode = "closed" /\ ~AtEnd /\ C \notin Space
              /\ FieldDone(Quoted(buf))

\* The bytes end inside a statement: io.ErrUnexpectedEOF or the error of the stream.
InsideEnds == /\ mode \in {"words", "list", "field", "raw", "quoted", "closed"} /\ AtEnd
              /\ Answer("error")

Next == \/ HeadLine \/ HeadCreate \/ ColumnLine \/ ColumnsClose \/ HeadEnds
        \/ InsertFound \/ SkipLine \/ FindEnds \/ SkipSpace \/ ReadWord
        \/ ListComma \/ ListOpen \/ ListClose \/ FieldStart
        \/ RawChar \/ RawDone \/ QuotedChar \/ QuotedEscape \/ CloseQuote \/ QuotedDone
        \/ InsideEnds

Spec == Init /\ [][Next]_vars

----------------------------------------------------------------------------
(* Properties                                                                *)

\* The rows returned are the first rows of the table, each field as it was
\* written, whatever quotes, escapes and delimiters its text holds, wherever
\* the file is cut: the reader loses and invents no row.
RowsArePrefix == /\ Len(rows) <= Len(table.rows)
                 /\ \A r \in 1 .. Len(rows) : rows[r] = table.rows[r]

\* The CREATE TABLE is in the file.
HeadWhole == Len(file) >= 2 * NumCols + 5

\* The rows of the statement that row s begins; the file has its first words; it
\* has its semicolon.
Statement(s) == {r \in s .. Len(table.rows) : \A k \in (s + 1) .. r : k \notin table.starts}
Begun(s)     == Len(file) >= table.row[s] + 3
Closed(s)    == \E e \in Statement(s) : Ends(table, e) /\ Len(file) >= EndAt(table, e)

\* io.EOF means that the file holds no more rows: the bytes ended without an
\* error, and every statement that was begun has been read to its end. An error
\* has a reason: a file that is whole gives io.EOF.
EofIsWhole ==
    /\ mode = "eof" => /\ tail = "eof" /\ HeadWhole
                       /\ \A s \in table.starts : Begun(s) =>
                             Closed(s) /\ \A r \in Statement(s) : r <= Len(rows)
    /\ mode = "error" => \/ tail = "broken" \/ ~HeadWhole
                         \/ \E s \in table.starts : Begun(s) /\ ~Closed(s)
                         \/ \E r \in 1 .. Len(table.rows) : Len(table.rows[r]) # NumCols
============================================================================

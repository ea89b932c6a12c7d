------------------------------ MODULE SQLDump ------------------------------
(***************************************************************************)
(* The text of a table dump, as mysqldump writes it: for a dump d, what    *)
(* its text has at the place of each part. A character that the reader     *)
(* of these dumps tells apart is a token, and so is a word of which only   *)
(* the whole matters ("INSERT", "VALUES", "NULL", "CREATE", the line of a  *)
(* column "col").                                                          *)
(***************************************************************************)
EXTENDS Integers, Sequences

CONSTANTS
    Tokens,    \* the characters and words of the dumps
    NumCols    \* the columns of the CREATE TABLE

Space == {" ", "nl", "cr", "tab"}

\* A field is NULL, a number or a text; the text is a sequence of characters.
Null      == [kind |-> "null", text |-> <<>>]
Raw(t)    == [kind |-> "raw", text |-> t]
Quoted(t) == [kind |-> "quoted", text |-> t]

----------------------------------------------------------------------------
(* What mysqldump writes for a table d: d.rows, where the rows of d.starts   *)
(* begin a statement; d.doubled says that a quote is doubled and not         *)
(* escaped, d.lines that each row is on a line of its own. The text is       *)
(* d.text; row r begins (with its INSERT or its comma) at d.row[r], its      *)
(* field f at d.field[r][f], and the character j of a quoted field at        *)
(* d.char[r][f][j]; the last line begins at d.row[Len(d.rows) + 1].          *)

Fields == [kind : {"null", "raw", "quoted"}, text : Seq(Tokens)]

\* A field that is written without quotes holds nothing that could end it.
IsBare(f) == \/ f = Null
             \/ /\ f.kind = "raw" /\ f.text # <<>> /\ f.text # <<"NULL">>
                /\ \A i \in DOMAIN f.text : f.text[i] \notin Space \cup {",", ")", "'"}

Bare(f) == IF f.kind = "null" THEN <<"NULL">> ELSE f.text

\* The characters that are written with a backslash, and what stands after it.
Escaped == {"'", "\"", "\\", "nl", "cr", "nul", "sub"}

EscapeOf(c) == CASE c = "nul" -> "0"
                 [] c = "nl"  -> "n"
                 [] c = "cr"  -> "r"
                 [] c = "sub" -> "Z"
                 [] OTHER     -> c

CharText(d, c) == IF c \notin Escaped THEN <<c>>
                  ELSE <<IF c = "'" /\ d.doubled THEN "'" ELSE "\\", EscapeOf(c)>>

\* What stands before the first field of a row.
RowStart(d, r) ==
    IF r \in d.starts
      THEN <<"INSERT", " ", "INTO", " ", "t", " ", "VALUES", IF d.lines THEN "nl" ELSE " ", "(">>
      ELSE IF d.lines THEN <<",", "nl", "(">> ELSE <<",", "(">>

\* Row r is the last of its statement, which ends at EndAt.
Ends(d, r)  == r = Len(d.rows) \/ r + 1 \in d.starts
EndAt(d, r) == d.field[r][Len(d.rows[r]) + 1]

\* The text has the tokens s at p.
Has(d, p, s) == \A i \in 1 .. Len(s) : d.text[p + i - 1] = s[i]

CharWritten(d, r, f, j) ==
    LET c == d.rows[r][f].text[j]
    IN  /\ Has(d, d.char[r][f][j], CharText(d, c))
        /\ d.char[r][f][j + 1] = d.char[r][f][j] + Len(CharText(d, c))

QuotedWritten(d, r, f) ==
    LET len == Len(d.rows[r][f].text)
    IN  /\ d.text[d.field[r][f]] = "'" /\ d.char[r][f][1] = d.field[r][f] + 1
        /\ \A j \in 1 .. len : CharWritten(d, r, f, j)
        /\ d.text[d.char[r][f][len + 1]] = "'"
        /\ d.field[r][f + 1] = d.char[r][f][len + 1] + 2

BareWritten(d, r, f) ==
    /\ IsBare(d.rows[r][f]) /\ Has(d, d.field[r][f], Bare(d.rows[r][f]))
    /\ d.field[r][f + 1] = d.field[r][f] + Len(Bare(d.rows[r][f])) + 1

\* A comma follows each field but the last, a parenthesis the last.
FieldWritten(d, r, f) ==
    /\ IF d.rows[r][f].kind = "quoted" THEN QuotedWritten(d, r, f) ELSE BareWritten(d, r, f)
    /\ d.text[d.field[r][f + 1] - 1] = IF f = Len(d.rows[r]) THEN ")" ELSE ","

RowWritten(d, r) ==
    /\ Has(d, d.row[r], RowStart(d, r)) /\ d.field[r][1] = d.row[r] + Len(RowStart(d, r))
    /\ \A f \in 1 .. Len(d.rows[r]) : FieldWritten(d, r, f)
    /\ Ends(d, r) => Has(d, EndAt(d, r), <<";", "nl">>)
    /\ d.row[r + 1] = EndAt(d, r) + IF Ends(d, r) THEN 2 ELSE 0

\* The CREATE TABLE: a line before it, its own, one per column, the closing one.
HeadWritten(d) ==
    /\ Has(d, 1, <<"word", "nl", "CREATE", "nl">>)
    /\ \A i \in 1 .. NumCols : Has(d, 2 * i + 3, <<"col", "nl">>)
    /\ Has(d, 2 * NumCols + 5, <<")", "nl">>)
    /\ d.row[1] = 2 * NumCols + 7

\* The parts of the text come one after the other.
InOrder(d) ==
    /\ \A r, k \in 1 .. Len(d.rows) + 1 : r < k => d.row[r] < d.row[k]
    /\ \A r \in 1 .. Len(d.rows) : \A f \in 1 .. Len(d.rows[r]) :
          /\ d.field[r][f] < d.field[r][f + 1] /\ d.field[r][f + 1] <= EndAt(d, r)
          /\ d.rows[r][f].kind = "quoted" =>
                \A j \in 1 .. Len(d.rows[r][f].text) + 1 :
                   d.char[r][f][j] \in Nat /\ d.char[r][f][j] < d.field[r][f + 1]

IsSQLFile(d) ==
    /\ d.rows \in Seq(Seq(Fields)) /\ d.text \in Seq(Tokens)
    /\ d.starts \subseteq 1 .. Len(d.rows) /\ (d.rows # <<>> => 1 \in d.starts)
    /\ d.doubled \in BOOLEAN /\ d.lines \in BOOLEAN
    /\ \A r \in 1 .. Len(d.rows) + 1 : d.row[r] \in Nat
    /\ \A r \in 1 .. Len(d.rows) :
          /\ d.rows[r] # <<>> /\ RowWritten(d, r)
          /\ \A f \in 1 .. Len(d.rows[r]) + 1 : d.field[r][f] \in Nat
    /\ HeadWritten(d) /\ InOrder(d)
    /\ Has(d, d.row[Len(d.rows) + 1], <<"word", ";", "nl">>)
    /\ Len(d.text) = d.row[Len(d.rows) + 1] + 2
============================================================================

------------------------------- MODULE Texvc -------------------------------
(***************************************************************************)
(* The converter of the mathematics of articles to TeX, src/wiki/texvc:    *)
(* conv turns the wikitext of {{math}} and {{mvar}} into TeX (template.go),*)
(* ExpandMacros rewrites the macros of texvc (macros.go), and Check says   *)
(* whether the groups of a TeX text pair up and nest (check.go).           *)
(*                                                                         *)
(* A text is a sequence of tokens: characters, words of letters, whole     *)
(* tags, and in TeX control words. "\\" starts the name of a control word; *)
(* "\\begin{a}" is the opening of the environment a. Spaces, entities and  *)
(* symbols, which become one control word each, are left out, as are the   *)
(* messages of the errors. Of the many templates that put the same kind of *)
(* TeX around their parameters, one of each kind is here.                  *)
(***************************************************************************)
EXTENDS Integers, SequencesExt

LOCAL INSTANCE FiniteSetsExt

Words == {"x", "p", "R", "mod", "sin", "word", "mvar", "math", "sqrt", "sfrac", "abs",
          "su", "sup", "unknown", "file"}
Functions == {"sin"}
SupDigits == {"sup2", "sup3"}

OpenTag  == [t \in {"<sup>", "<sub>", "<i>", "<b>", "<u>", "<ref>", "<x>"} |->
                CASE t = "<sup>" -> "</sup>" [] t = "<sub>" -> "</sub>" [] t = "<i>" -> "</i>"
                  [] t = "<b>" -> "</b>" [] t = "<u>" -> "</u>" [] t = "<ref>" -> "</ref>"
                  [] t = "<x>" -> "</x>"]
CloseTags == {OpenTag[t] : t \in DOMAIN OpenTag}

At(s, i, t)     == i + Len(t) - 1 <= Len(s) /\ \A k \in DOMAIN t : s[i + k - 1] = t[k]
Find(s, i, T)   == LET P == {p \in i .. Len(s) : s[p] \in T} IN IF P = {} THEN 0 ELSE Min(P)
AfterRun(s, i, T) == LET P == {p \in i .. Len(s) : s[p] \notin T}
                     IN  IF P = {} THEN Len(s) + 1 ELSE Min(P)

----------------------------------------------------------------------------
(* Mutated forms; no specification uses them.                                *)

\* A quote run that ends bold closes a group that this text did not open.
setBold_anyGroup(st, on) ==
    CASE on /\ ~st.bold -> [st EXCEPT !.b = @ \o <<"\\mathbf", "{">>, !.scripts = {},
                                      !.opened = @ + 1, !.bold = on]
      [] ~on /\ st.bold -> [st EXCEPT !.b = Append(@, "}"), !.scripts = {}, !.bold = on]
      [] OTHER -> [st EXCEPT !.bold = on]

\* A closing brace closes whatever was opened last.
CloserIn_top(stack, t) == Len(stack)

----------------------------------------------------------------------------
(* The matching of braces, tags and templates.                               *)

RECURSIVE matchBraceFrom(_, _, _)
matchBraceFrom(s, i, depth) ==
    IF i > Len(s) THEN 0
    ELSE LET d == CASE s[i] = "{" -> depth + 1 [] s[i] = "}" -> depth - 1 [] OTHER -> depth
         IN  IF s[i] = "}" /\ d = 0 THEN i ELSE matchBraceFrom(s, i + 1, d)

\* The brace that closes the one at i; 0 (in the code len(s)) when there is none.
matchBrace(s, i) == matchBraceFrom(s, i, 0)

RECURSIVE matchDoubleFrom(_, _, _, _, _)
matchDoubleFrom(s, k, depth, open, close) ==
    CASE k + 1 > Len(s) -> 0
      [] k + 1 <= Len(s) /\ At(s, k, <<open, open>>) ->
            matchDoubleFrom(s, k + 2, depth + 1, open, close)
      [] k + 1 <= Len(s) /\ At(s, k, <<close, close>>) ->
            IF depth = 1 THEN k ELSE matchDoubleFrom(s, k + 2, depth - 1, open, close)
      [] OTHER -> matchDoubleFrom(s, k + 1, depth, open, close)

matchDouble(s, i, open, close) == matchDoubleFrom(s, i, 0, open, close)

RECURSIVE matchTagFrom(_, _, _, _)
\* The end tag that closes the tag t whose content starts at i; Len(s) + 1 when none does.
matchTagFrom(s, i, depth, t) ==
    CASE i > Len(s) -> Len(s) + 1
      [] i <= Len(s) /\ s[i] = t -> matchTagFrom(s, i + 1, depth + 1, t)
      [] i <= Len(s) /\ s[i] = OpenTag[t] ->
            IF depth = 1 THEN i ELSE matchTagFrom(s, i + 1, depth - 1, t)
      [] OTHER -> matchTagFrom(s, i + 1, depth, t)

matchTag(s, i, t) == matchTagFrom(s, i, 1, t)

Opens(s, i)  == At(s, i, <<"{", "{">>) \/ At(s, i, <<"[", "[">>)
Closes(s, i) == At(s, i, <<"}", "}">>) \/ At(s, i, <<"]", "]">>)

RECURSIVE splitFrom(_, _, _, _)
splitFrom(s, i, depth, last) ==
    CASE i > Len(s) -> <<SubSeq(s, last, Len(s))>>
      [] i <= Len(s) /\ Opens(s, i) -> splitFrom(s, i + 2, depth + 1, last)
      [] i <= Len(s) /\ Closes(s, i) /\ depth > 0 -> splitFrom(s, i + 2, depth - 1, last)
      [] i <= Len(s) /\ s[i] = "|" /\ depth = 0 ->
            <<SubSeq(s, last, i - 1)>> \o splitFrom(s, i + 1, depth, i + 1)
      [] OTHER -> splitFrom(s, i + 1, depth, last)

\* The parts between the pipes that are in no nested template or link.
splitTop(s) == splitFrom(s, 1, 0, 1)

\* params: the positional parameters, and the named ones of namedParams.
Key(part)   == SubSeq(part, 1, Find(part, 1, {"="}) - 1)
Value(part) == SubSeq(part, Find(part, 1, {"="}) + 1, Len(part))
IsNamed(part) == Key(part) \in {<<"p">>, <<"b">>}

RECURSIVE Positional(_, _)
Positional(parts, pos) ==
    IF parts = <<>> THEN pos
    ELSE LET part == Head(parts)
         IN  Positional(Tail(parts),
                CASE IsNamed(part) -> pos
                  [] Key(part) \in {<<"1">>, <<"2">>} ->
                       LET n == IF Key(part) = <<"1">> THEN 1 ELSE 2
                       IN  [k \in 1 .. Max({n, Len(pos)}) |->
                               CASE k = n -> Value(part)
                                 [] k # n /\ k <= Len(pos) -> pos[k]
                                 [] OTHER -> <<>>]
                  [] OTHER -> Append(pos, part))

Named(parts, name) == LET P == {k \in DOMAIN parts : Key(parts[k]) = <<name>>}
                      IN  IF P = {} THEN <<>> ELSE <<Value(parts[Max(P)])>>

----------------------------------------------------------------------------
(* conv: the state of a conversion is the TeX written, the scripts on its    *)
(* last atom, the quote state and the bold groups opened.                    *)

Fresh(italic, bold) == [b |-> <<>>, scripts |-> {}, italic |-> italic, bold |-> bold, opened |-> 0]

write(st, t) == IF t = <<>> THEN st ELSE [st EXCEPT !.b = @ \o t, !.scripts = {}]

\* A script of a kind that the last atom has goes on an empty group.
script(st, op, inner) ==
    LET again == op \in st.scripts \/ st.b = <<>>
    IN  [st EXCEPT !.b = @ \o (IF again THEN <<"{", "}">> ELSE <<>>)
                           \o <<op, "{">> \o inner \o <<"}">>,
                   !.scripts = (IF again THEN {} ELSE @) \cup {op}]

prime(st, n) == [st EXCEPT !.b = @ \o (IF "^" \in st.scripts THEN <<"{", "}">> ELSE <<>>)
                                   \o [k \in 1 .. n |-> "'"],
                           !.scripts = {}]

setBold(st, on) ==
    CASE on /\ ~st.bold ->
           [write(st, <<IF st.italic THEN "\\boldsymbol" ELSE "\\mathbf", "{">>)
               EXCEPT !.opened = @ + 1, !.bold = on]
      [] ~on /\ st.bold /\ st.opened > 0 ->
           [write(st, <<"}">>) EXCEPT !.opened = @ - 1, !.bold = on]
      [] OTHER -> [st EXCEPT !.bold = on]

\* A run of n quotes.
Quotes(st, n) ==
    LET primed == CASE n \in {1, 4} -> prime(st, 1) [] n > 5 -> prime(st, n - 5) [] OTHER -> st
        flip(t) == [t EXCEPT !.italic = ~@]
    IN  CASE n = 1 -> primed
          [] n = 2 -> flip(st)
          [] n \in {3, 4} -> setBold(primed, ~st.bold)
          [] n >= 5 /\ st.bold -> flip(setBold(primed, FALSE))
          [] OTHER -> setBold(flip(primed), TRUE)

RECURSIVE Peel(_, _)
\* The scripts that a template starts with go on the last atom.
Peel(st, tex) ==
    LET close == matchBrace(tex, 2)
    IN  IF Len(tex) > 1 /\ tex[1] \in {"^", "_"} /\ tex[2] = "{" /\ close > 0
          THEN Peel(script(st, tex[1], SubSeq(tex, 3, close - 1)), SubSeq(tex, close + 1, Len(tex)))
          ELSE write(st, tex)

\* word: letters that are no variable are a function or an operator name.
word(w, variable) ==
    CASE variable \/ w \in {<<"x">>, <<"p">>, <<"R">>} -> w
      [] w = <<"sin">> -> <<"\\sin">>
      [] OTHER -> <<"\\operatorname", "{">> \o w \o <<"}">>

\* char
char(c) == CASE c = "{" -> "\\{" [] c = "}" -> "\\}" [] c = "%" -> "\\%" [] OTHER -> c

RECURSIVE convert(_, _, _)

Arg(pos, n, italic, bold) == IF n <= Len(pos) THEN convert(pos[n], italic, bold) ELSE <<>>

Group(name, t) == <<name, "{">> \o t \o <<"}">>

\* template: a template inside the text.
template(body, italic, bold) ==
    LET parts == splitTop(body)
        name  == parts[1]
        pos   == Positional(Tail(parts), <<>>)
        arg(n) == Arg(pos, n, italic, bold)
        su(n, op) == LET v == Named(Tail(parts), n)
                     IN  IF v = <<>> THEN <<>> ELSE Group(op, convert(v[1], italic, bold))
    IN  CASE name = <<"=">>    -> <<"=">>
          [] name = <<"mvar">> -> Arg(pos, 1, TRUE, bold)
          [] name = <<"sqrt">> ->
               (IF Len(pos) > 1 /\ pos[2] # <<>> THEN <<"\\sqrt", "[">> \o arg(2) \o <<"]", "{">>
                                                ELSE <<"\\sqrt", "{">>) \o arg(1) \o <<"}">>
          [] name = <<"sfrac">> ->
               CASE Len(pos) = 0 -> <<"/">>
                 [] Len(pos) = 1 -> Group("\\tfrac", <<"1">>) \o <<"{">> \o arg(1) \o <<"}">>
                 [] Len(pos) = 2 -> Group("\\tfrac", arg(1)) \o <<"{">> \o arg(2) \o <<"}">>
                 [] OTHER -> arg(1) \o Group("\\tfrac", arg(2)) \o <<"{">> \o arg(3) \o <<"}">>
          [] name = <<"abs">> -> <<"\\lvert">> \o arg(1) \o <<"\\rvert">>
          [] name = <<"sup">> -> Group("^", arg(1))
          [] name = <<"su">>  -> su("p", "^") \o su("b", "_")
          [] OTHER -> arg(1)   \* math, and a template that is not converted

\* link: the label, converted; a file or category is dropped.
link(body, italic, bold) ==
    IF At(body, 1, <<"file", ":">>) THEN <<>> ELSE convert(Last(splitTop(body)), italic, bold)

\* tag: what the tag t with this content does to the state.
tag(st, t, inner) ==
    LET c(italic, bold) == convert(inner, italic, bold)
    IN  CASE t = "<sup>" -> script(st, "^", c(st.italic, st.bold))
          [] t = "<sub>" -> script(st, "_", c(st.italic, st.bold))
          [] t = "<i>"   -> write(st, c(TRUE, st.bold))
          [] t = "<b>"   -> write(st, IF st.bold THEN c(st.italic, TRUE)
                                      ELSE Group(IF st.italic THEN "\\boldsymbol" ELSE "\\mathbf",
                                                 c(st.italic, TRUE)))
          [] t = "<u>"   -> write(st, Group("\\underline", c(st.italic, st.bold)))
          [] t = "<ref>" -> st
          [] OTHER       -> write(st, c(st.italic, st.bold))

To(st, i) == [st |-> st, next |-> i]

\* mod: "(mod n)" is \pmod{n}, and a bare mod is \bmod.
mod(st, s, i) ==
    LET end == Find(s, i, {")"})
    IN  IF st.b # <<>> /\ Last(st.b) = "(" /\ end > 0 /\ "(" \notin {s[k] : k \in i .. end}
          THEN To(write([st EXCEPT !.b = Front(@)],
                        Group("\\pmod", convert(SubSeq(s, i, end - 1), FALSE, FALSE))), end + 1)
          ELSE To(write(st, <<"\\bmod">>), i)

\* One construct of the text.
ConvStep(st, s, i) ==
    LET double(open, close) == matchDouble(s, i, open, close)
        upright == ~st.italic /\ ~st.bold
    IN  CASE s[i] = "<!--" -> To(st, IF Find(s, i, {"-->"}) = 0 THEN Len(s) + 1
                                     ELSE Find(s, i, {"-->"}) + 1)
          [] At(s, i, <<"{", "{">>) ->
               LET end == double("{", "}")
               IN  IF end = 0 THEN To(write(st, <<"\\{">>), i + 1)
                   ELSE To(Peel(st, template(SubSeq(s, i + 2, end - 1), st.italic, st.bold)), end + 2)
          [] At(s, i, <<"[", "[">>) ->
               LET end == double("[", "]")
               IN  IF end = 0 THEN To(write(st, <<"[">>), i + 1)
                   ELSE To(write(st, link(SubSeq(s, i + 2, end - 1), st.italic, st.bold)), end + 2)
          [] s[i] = "'" -> To(Quotes(st, AfterRun(s, i, {"'"}) - i), AfterRun(s, i, {"'"}))
          [] s[i] \in CloseTags -> To(st, i + 1)
          [] s[i] \in DOMAIN OpenTag ->
               LET end == matchTag(s, i + 1, s[i])
               IN  To(tag(st, s[i], SubSeq(s, i + 1, end - 1)), end + 1)
          [] s[i] \in Words ->
               LET end == AfterRun(s, i, Words)
                   w   == SubSeq(s, i, end - 1)
               IN  IF w = <<"mod">> /\ upright THEN mod(st, s, end)
                   ELSE To(write(st, word(w, ~upright)), end)
          [] s[i] \in SupDigits ->
               LET end == AfterRun(s, i, SupDigits)
               IN  To(script(st, "^", SubSeq(s, i, end - 1)), end)
          [] OTHER -> To(write(st, <<char(s[i])>>), i + 1)

RECURSIVE ConvFrom(_, _, _)
ConvFrom(st, s, i) == IF i > Len(s) THEN st
                      ELSE LET r == ConvStep(st, s, i) IN ConvFrom(r.st, s, r.next)

\* The groups still open at the end are closed.
convert(s, italic, bold) ==
    LET st == ConvFrom(Fresh(italic, bold), s, 1)
    IN  st.b \o [k \in 1 .. st.opened |-> "}"]

\* templateArg: the first parameter of the call, or of the text between its braces.
templateArg(s, name) ==
    LET whole == At(s, 1, <<"{", "{">>) /\ matchDouble(s, 1, "{", "}") = Len(s) - 1
        all   == splitTop(SubSeq(s, 3, Len(s) - 2))
        pos   == Positional(IF whole /\ all[1] = <<name>> THEN Tail(all)
                            ELSE splitTop(s), <<>>)
    IN  IF pos = <<>> THEN <<>> ELSE pos[1]

FromMathTemplate(s) == convert(templateArg(s, "math"), FALSE, FALSE)
FromMvar(s)         == convert(templateArg(s, "mvar"), TRUE, FALSE)

----------------------------------------------------------------------------
(* ExpandMacros                                                              *)

Aliases == [m \in {"\\R", "\\and"} |-> IF m = "\\R" THEN <<"\\mathbb", "{", "R", "}">>
                                                   ELSE <<"\\land">>]
Environments == [e \in {"\\begin{align}", "\\end{align}"} |->
                    IF e = "\\begin{align}" THEN "\\begin{aligned}" ELSE "\\end{aligned}"]

RECURSIVE expandInto(_, _)
expandInto(s, inText) ==
    IF s = <<>> THEN <<>>
    ELSE LET c    == Head(s)
             end  == matchBrace(s, 2)
             stop == IF end = 0 THEN Len(s) + 1 ELSE end
         IN  CASE c = "\\euro" -> (IF inText THEN <<"e">> ELSE <<"\\text", "{", "e", "}">>)
                                     \o expandInto(Tail(s), inText)
               [] ~inText /\ c \in DOMAIN Aliases -> Aliases[c] \o expandInto(Tail(s), inText)
               [] ~inText /\ c = "\\text" /\ At(s, 2, <<"{">>) ->
                    <<c, "{">> \o expandInto(SubSeq(s, 3, stop - 1), TRUE)
                        \o (IF end = 0 THEN <<>> ELSE <<"}">>)
                        \o expandInto(SubSeq(s, stop + 1, Len(s)), inText)
               [] ~inText /\ c \in DOMAIN Environments ->
                    <<Environments[c]>> \o expandInto(Tail(s), inText)
               [] OTHER -> <<c>> \o expandInto(Tail(s), inText)

ExpandMacros(s) == expandInto(s, FALSE)

----------------------------------------------------------------------------
(* Check: the number of its messages.                                        *)

Openers == {"{", "\\left", "\\begin{a}", "\\begin{align}", "\\begin{aligned}"}
OpenerOf == [t \in {"}", "\\right", "\\end{a}", "\\end{align}", "\\end{aligned}"} |->
                CASE t = "}" -> "{" [] t = "\\right" -> "\\left" [] t = "\\end{a}" -> "\\begin{a}"
                  [] t = "\\end{align}" -> "\\begin{align}"
                  [] t = "\\end{aligned}" -> "\\begin{aligned}"]
IsEnv(open) == open \notin {"{", "\\left"}

\* The place in the stack of the opener that the closer t closes; 0 for none.
\* \right closes only the last one.
CloserIn(stack, t) ==
    IF t = "\\right" THEN IF stack # <<>> /\ Last(stack) = "\\left" THEN Len(stack) ELSE 0
    ELSE Max({0} \cup {k \in DOMAIN stack : stack[k] = OpenerOf[t]})

RECURSIVE CheckFrom(_, _, _, _)
CheckFrom(s, i, stack, errs) ==
    CASE i > Len(s) -> errs + Len(stack)
      [] i <= Len(s) /\ s[i] = "%" -> CheckFrom(s, (IF Find(s, i, {"nl"}) = 0 THEN Len(s)
                                                    ELSE Find(s, i, {"nl"})) + 1, stack, errs)
      [] i <= Len(s) /\ s[i] \in Openers -> CheckFrom(s, i + 1, Append(stack, s[i]), errs)
      [] i <= Len(s) /\ s[i] \in DOMAIN OpenerOf ->
           LET k == CloserIn(stack, s[i])
           IN  CASE k > 0 -> CheckFrom(s, i + 1, SubSeq(stack, 1, k - 1), errs + Len(stack) - k)
                 [] k = 0 /\ IsEnv(OpenerOf[s[i]]) /\ stack # <<>> /\ IsEnv(Last(stack)) ->
                      CheckFrom(s, i + 1, Front(stack), errs + 1)
                 [] OTHER -> CheckFrom(s, i + 1, stack, errs + 1)
      [] i <= Len(s) /\ s[i] = "\\begin" -> CheckFrom(s, i + 1, stack, errs + 1)
      [] OTHER -> CheckFrom(s, i + 1, stack, errs)

Check(s) == CheckFrom(s, 1, <<>>, 0)
============================================================================

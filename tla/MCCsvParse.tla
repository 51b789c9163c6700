----------------------------- MODULE MCCsvParse -----------------------------
(* Small files for CsvParse: how they are written, and which ones. *)
EXTENDS CsvParse

MCNumeral == [n \in 1 .. MaxColumns |-> <<ToString(n)>>]

MCSymbols ==
    NameSymbols \cup Spaces
        \cup {Quote, Comma, Mark, Minus, Point, "F", "date", "nodate", "stamp"}

Special == {Quote, Comma, CarriageReturn, Newline}

\* The symbols of a sheet's text, each with its place; the second of two quotes
\* that stand for one has none.
Placed(s, r, c, done, quoted) ==
    [symbol |-> s, place |-> [row |-> r, cell |-> c, done |-> done, quoted |-> quoted]]
Doubled == [symbol |-> Quote, place |-> CellStart(0, 0)]

\* A cell as a spreadsheet writes it: quoted when it has to be.
CellMarks(cell, r, c) ==
    IF ToSet(cell) \cap Special = {}
    THEN [k \in DOMAIN cell |-> Placed(cell[k], r, c, k - 1, FALSE)]
    ELSE <<Placed(Quote, r, c, 0, FALSE)>>
         \o FlattenSeq([k \in DOMAIN cell |-> <<Placed(cell[k], r, c, k - 1, TRUE)>>
                           \o (IF cell[k] = Quote THEN <<Doubled>> ELSE <<>>)])
         \o <<Placed(Quote, r, c, Len(cell), TRUE)>>

\* The text of a sheet: what ends a line, a byte order mark or none, and
\* whether the last line is ended.
Write(sheet, eol, mark, ended) ==
    LET n == Len(sheet)
        Cells(r) == FlattenSeq([c \in DOMAIN sheet[r] |-> CellMarks(sheet[r][c], r, c)
            \o (IF c < Len(sheet[r]) THEN <<Placed(Comma, r, c, Len(sheet[r][c]), FALSE)>> ELSE <<>>)])
        Ends(r) == [k \in DOMAIN eol |->
            Placed(eol[k], r, Len(sheet[r]), Len(Last(sheet[r])), FALSE)]
        marks == FlattenSeq([r \in DOMAIN sheet |->
            Cells(r) \o (IF r < n \/ ended THEN Ends(r) ELSE <<>>)])
        first == Len(mark)
        end == first + Len(marks) + 1
    IN  [sheet |-> sheet,
         text |-> mark \o [k \in DOMAIN marks |-> marks[k].symbol],
         places |-> [p \in {first + k : k \in {j \in DOMAIN marks : marks[j] # Doubled}} \cup {end} |->
             IF p # end THEN marks[p - first].place
             ELSE IF ended \/ sheet = <<>> THEN CellStart(n + 1, 1)
             ELSE [row |-> n, cell |-> Len(sheet[n]), done |-> Len(Last(sheet[n])), quoted |-> FALSE]]]

Saved(sheet) == Write(sheet, <<Newline>>, <<>>, TRUE)

\* Files that differ in how cells and lines are written.
Awkward == {<<>>, <<"f">>, <<Space>>, <<Quote>>, <<Comma>>, <<Newline>>, <<CarriageReturn>>,
            <<"f", Quote, Quote>>, <<Quote, Comma, "f">>}
AwkwardSheets ==
    {<< <<<<"f">>, <<"d">>>>, <<x, y>> >> : x \in Awkward, y \in Awkward}
        \cup {<< <<<<"f">>>>, <<x>>, <<y>> >> : x \in Awkward, y \in Awkward}
AwkwardFiles ==
    {Write(s, eol, mark, ended) :
        s \in AwkwardSheets, eol \in {<<Newline>>, <<CarriageReturn, Newline>>},
        mark \in {<<>>, <<Mark>>}, ended \in BOOLEAN}

\* Files that differ in their headers.
Headers == {<<>>, <<"f">>, <<"F">>, <<"f", Underscore, "2">>, <<"f", Space, "2">>, <<"f", Underscore, "2", "d">>,
            <<"f", Underscore, "2", Underscore, "2">>, <<Underscore, "i", "d">>, <<"i", "d">>, <<"2">>, <<Minus>>,
            <<"column", Underscore, "2">>}
HeaderFiles ==
    {Saved(<< <<a, b, c>>, << <<"1">> >> >>) : a \in Headers, b \in Headers, c \in Headers}

\* Files that differ in the values of a column.
Values == {<<>>, <<"1">>, <<Space, "1">>, <<Minus, "2">>, <<"1", Point, "2">>, <<"yes">>, <<"date">>,
           <<"nodate">>, <<"ymd">>, <<"stamp">>, <<"f">>, <<"d">>}
ValueFiles ==
    {Saved(<< <<<<"f">>>>, <<a>>, <<b>>, <<c>>, << <<"1">> >> >>) :
        a \in Values, b \in Values, c \in Values}

\* Files with short, long and repeated rows.
RaggedRows == {<< <<"1">> >>, << <<"1">>, <<>> >>, << <<"1">>, <<"2">>, <<Space>> >>,
               << <<"1">>, <<"2">>, <<"f">> >>, << <<"f">>, <<"2">> >>, << <<Space, "1">> >>}
RaggedFiles ==
    {Saved(<< <<<<"f">>, <<"d">>>>, a, b, c, a >>) :
        a \in RaggedRows, b \in RaggedRows, c \in RaggedRows}

\* Files that are no table, or too long.
OddFiles ==
    {Saved(s) : s \in {<<>>, << <<<<"f">>>> >>, << <<<<>>, <<Space>>>>, <<<<"1">>, <<"2">>>> >>,
                       [k \in 1 .. MaxRows + 2 |-> << <<"1">> >>]}}

MCFiles == AwkwardFiles \cup HeaderFiles \cup ValueFiles \cup RaggedFiles \cup OddFiles

\* The texts are what RoundTripHolds is about.
ASSUME FilesAreWritten == \A f \in Files : Written(f)
=============================================================================

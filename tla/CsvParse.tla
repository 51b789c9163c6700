------------------------------ MODULE CsvParse ------------------------------
(***************************************************************************)
(* A CSV file on its way to typed rows (csv_parse.py, and the casting loop *)
(* of dynamic_loader.py): the reader's state machine, one action per       *)
(* branch; the naming of the columns, one action per turn of its loop; the *)
(* types the preview suggests; and the cast of every row under the types   *)
(* the upload uses.                                                        *)
(*                                                                         *)
(* A text is a sequence of symbols.  A symbol is a character, or one of a  *)
(* few runs of characters that matter as a whole: the words of a boolean,  *)
(* a date, a date no calendar has, eight digits that name a day, an ISO    *)
(* timestamp, and the words the sanitiser adds to a name.                  *)
(***************************************************************************)
EXTENDS Naturals, SequencesExt, FiniteSetsExt

CONSTANTS
    Symbols,     \* what a text is made of
    Files,       \* the uploads: what was written (sheet), the text it became, and
                 \* what of the sheet was written before a symbol of it (places)
    MaxStem,     \* characters kept of a header, 55 in the code
    MaxName,     \* characters of an identifier, 63 in the code
    MaxColumns,  \* bound: columns of a header that is followed
    Numeral,     \* the digits of a number up to MaxColumns
    InferRows,   \* infer_rows: data rows the preview looks at
    MaxRows,     \* settings.MAX_ROWS
    MaxErrors    \* settings.MAX_ROW_ERRORS_REPORTED

Quote == "quote"
Comma == "comma"
CarriageReturn == "cr"
Newline == "lf"
Mark == "bom"
Space == "space"
Underscore == "underscore"
Minus == "minus"
Point == "point"

Spaces == {Space, CarriageReturn, Newline}
Digits == {"0", "1", "2", "3", "4", "5", "6", "7", "8", "9", "ymd"}
NameSymbols == Digits \cup {Underscore, "f", "i", "d", "col", "column", "yes"}
Reserved == {<<Underscore, "i", "d">>}
AllowedTypes == {"int8", "numeric", "boolean", "date", "timestamptz", "text"}

ASSUME BoundsAssumption ==
    /\ MaxStem \in Nat \ {0} /\ MaxName \in Nat /\ InferRows \in Nat
    /\ MaxRows \in Nat /\ MaxErrors \in Nat /\ MaxColumns \in Nat \ {0}

\* Numerals differ, and leave room for the stem they are added to.
ASSUME NumeralAssumption ==
    /\ Numeral \in [1 .. MaxColumns -> Seq(Digits)]
    /\ \A n \in 1 .. MaxColumns :
          Numeral[n] # <<>> /\ MaxStem + 1 + Len(Numeral[n]) <= MaxName
    /\ \A m, n \in 1 .. MaxColumns : Numeral[m] = Numeral[n] => m = n

ASSUME FilesAssumption ==
    /\ NameSymbols \subseteq Symbols /\ "end" \notin Symbols
    /\ \A f \in Files : f.text \in Seq(Symbols)

VARIABLES
    file,     \* what was uploaded
    phase,    \* what is being done with it
    reader,   \* parse_csv's locals
    naming,   \* sanitize_columns's locals
    preview,  \* what the preview told the user
    load      \* the casting loop's locals, and the outcome of the upload

csvVars == <<file, phase, reader, naming, preview, load>>

Phases == {"reading", "parsed", "previewed", "casting", "done"}
Outcomes == {"none", "ok", "invalid_structure", "error"}

-----------------------------------------------------------------------------
(* Column names. *)

\* s without the symbols of S at its two ends.
StripOf(s, S) ==
    LET kept == {k \in DOMAIN s : s[k] \notin S}
    IN  IF kept = {} THEN <<>> ELSE SubSeq(s, Min(kept), Max(kept))

Strip(s) == StripOf(s, Spaces)

Lower(s) == [k \in DOMAIN s |-> IF s[k] = "F" THEN "f" ELSE s[k]]

\* Every run of symbols a name may not have becomes one underscore.
Underscored(s) ==
    LET kept == {k \in DOMAIN s : s[k] \in NameSymbols \/ k = 1 \/ s[k - 1] \in NameSymbols}
        Nth(n) == CHOOSE k \in kept : Cardinality({j \in kept : j <= k}) = n
    IN  [n \in 1 .. Cardinality(kept) |-> IF s[Nth(n)] \in NameSymbols THEN s[Nth(n)] ELSE Underscore]

Positional(idx) == <<"column", Underscore>> \o Numeral[idx]

\* The name a header asks for, before it is told apart from the others.
Stem(h, idx) ==
    LET clean == Underscored(Strip(Lower(IF h = <<>> THEN Positional(idx) ELSE h)))
        guarded == IF clean \in Reserved THEN clean \o <<Underscore, "col">> ELSE clean
        bare == StripOf(guarded, {Underscore})
        named == IF bare = <<>> THEN Positional(idx) ELSE bare
        safe == IF Head(named) \in Digits THEN <<"col", Underscore>> \o named ELSE named
    IN  SubSeq(safe, 1, Min({Len(safe), MaxStem}))

\* The names tried for a stem: the stem itself, then with the numbers from 2.
Name(stem, n) == IF n = 1 THEN stem ELSE stem \o <<Underscore>> \o Numeral[n]

ValidIdentifier(name) ==
    /\ Len(name) \in 1 .. MaxName
    /\ ToSet(name) \subseteq NameSymbols
    /\ Head(name) \notin Digits

-----------------------------------------------------------------------------
(* Types: what a column's cells suggest, and what a cast accepts. *)

IsInt(v) ==
    LET digits == IF v # <<>> /\ Head(v) = Minus THEN Tail(v) ELSE v
    IN  digits # <<>> /\ ToSet(digits) \subseteq Digits

IsNumber(v) ==
    \/ IsInt(v)
    \/ \E k \in 2 .. Len(v) - 1 :
          /\ v[k] = Point
          /\ IsInt(SubSeq(v, 1, k - 1))
          /\ ToSet(SubSeq(v, k + 1, Len(v))) \subseteq Digits

IsBoolean(v) == Lower(v) \in {<<"1">>, <<"0">>, <<"yes">>, <<"f">>}
LooksLikeDate(v) == v \in {<<"date">>, <<"nodate">>}
ValidDate(v) == v = <<"date">>
ValidTimestamp(v) == v \in {<<"date">>, <<"ymd">>, <<"stamp">>}

\* Mutant: a date is recognised by its shape.
InferTypeByShape(values) ==
    LET V == {Strip(v) : v \in ToSet(values)} \ {<<>>}
    IN  CASE V = {} -> "text"
          [] \A v \in V : IsInt(v) -> "int8"
          [] \A v \in V : IsNumber(v) -> "numeric"
          [] \A v \in V : IsBoolean(v) -> "boolean"
          [] \A v \in V : LooksLikeDate(v) -> "date"
          [] \A v \in V : ValidTimestamp(v) -> "timestamptz"
          [] OTHER -> "text"

\* The first type, narrowest first, that every non-blank value has.
InferType(values) ==
    LET V == {Strip(v) : v \in ToSet(values)} \ {<<>>}
        All(Test(_)) == \A v \in V : Test(v)
    IN  IF V = {} THEN "text"
        ELSE IF All(IsInt) THEN "int8"
        ELSE IF All(IsNumber) THEN "numeric"
        ELSE IF All(IsBoolean) THEN "boolean"
        ELSE IF \A v \in V : LooksLikeDate(v) /\ ValidDate(v) THEN "date"
        ELSE IF All(ValidTimestamp) THEN "timestamptz"
        ELSE "text"

\* The browser's preview (csv-preview.ts): the types each cell may have.
BrowserTypes(v) ==
    IF v = <<>> THEN AllowedTypes
    ELSE {"text"}
         \cup {t \in {"int8"} : IsInt(v)}
         \cup {t \in {"numeric"} : IsNumber(v)}
         \cup {t \in {"boolean"} : IsBoolean(v)}
         \cup {t \in {"date"} : LooksLikeDate(v) /\ ValidDate(v)}
         \cup {t \in {"timestamptz"} : v \in {<<"date">>, <<"stamp">>}}

BrowserOrder == <<"boolean", "int8", "numeric", "date", "timestamptz", "text">>

\* The first in the browser's order that no cell rules out.
BrowserInfer(values) ==
    LET Allowed(t) == \A k \in DOMAIN values : t \in BrowserTypes(Strip(values[k]))
    IN  BrowserOrder[Min({i \in DOMAIN BrowserOrder : Allowed(BrowserOrder[i])})]

\* cast_value accepts the cell; a blank one is NULL in every type.
Casts(cell, type) ==
    LET v == Strip(cell)
    IN  \/ v = <<>>
        \/ type = "int8" /\ IsInt(v)
        \/ type = "numeric" /\ IsNumber(v)
        \/ type = "boolean" /\ IsBoolean(v)
        \/ type = "date" /\ LooksLikeDate(v) /\ ValidDate(v)
        \/ type = "timestamptz" /\ ValidTimestamp(v)
        \/ type = "text"

\* The cell of row r in column c; a short row is read as if padded.
Cell(r, c) == IF c <= Len(r) THEN r[c] ELSE <<>>

ExtraCells(r, width) == SelectSeq(SubSeq(r, width + 1, Len(r)), LAMBDA c : Strip(c) # <<>>)

-----------------------------------------------------------------------------
(* parse_csv: one symbol, or an escaped quote, per step. *)

Text == file.text
At(k) == IF k <= Len(Text) THEN Text[k] ELSE "end"
Char == At(reader.pos)

Advance(r, n) ==
    /\ reader' = [r EXCEPT !.pos = reader.pos + n]
    /\ UNCHANGED <<file, phase, naming, preview, load>>

Reading(quoted) == phase = "reading" /\ Char # "end" /\ reader.quoted = quoted

Take(c) == [reader EXCEPT !.field = Append(@, c)]
EndField == [reader EXCEPT !.row = Append(@, reader.field), !.field = <<>>]

EscapedQuote ==
    /\ Reading(TRUE) /\ Char = Quote /\ At(reader.pos + 1) = Quote
    /\ Advance(Take(Quote), 2)

CloseQuote ==
    /\ Reading(TRUE) /\ Char = Quote /\ At(reader.pos + 1) # Quote
    /\ Advance([reader EXCEPT !.quoted = FALSE], 1)

QuotedSymbol ==
    /\ Reading(TRUE) /\ Char # Quote
    /\ Advance(Take(Char), 1)

OpenQuote ==
    /\ Reading(FALSE) /\ Char = Quote
    /\ Advance([reader EXCEPT !.quoted = TRUE], 1)

NextField ==
    /\ Reading(FALSE) /\ Char = Comma
    /\ Advance(EndField, 1)

SkipReturn ==
    /\ Reading(FALSE) /\ Char = CarriageReturn
    /\ Advance(reader, 1)

NextRow ==
    /\ Reading(FALSE) /\ Char = Newline
    /\ Advance([EndField EXCEPT !.rows = Append(@, EndField.row), !.row = <<>>], 1)

\* Mutant: an unquoted carriage return is an ordinary symbol.
PlainSymbolOrReturn ==
    /\ Reading(FALSE) /\ Char \notin {Quote, Comma, Newline}
    /\ Advance(Take(Char), 1)

PlainSymbol ==
    /\ Reading(FALSE) /\ Char \notin {Quote, Comma, CarriageReturn, Newline}
    /\ Advance(Take(Char), 1)

BlankRow(r) == \A c \in DOMAIN r : r[c] = <<>>

\* rows without the blank ones at its end.
DropBlankEnd(rows) ==
    SubSeq(rows, 1, Max({0} \cup {k \in DOMAIN rows : ~BlankRow(rows[k])}))

EndOfText ==
    /\ phase = "reading" /\ Char = "end"
    /\ LET flushed == IF reader.field # <<>> \/ reader.row # <<>>
                      THEN Append(reader.rows, EndField.row) ELSE reader.rows
       IN  reader' = [reader EXCEPT !.rows = DropBlankEnd(flushed),
                                    !.row = <<>>, !.field = <<>>]
    /\ phase' = "parsed"
    /\ UNCHANGED <<file, naming, preview, load>>

-----------------------------------------------------------------------------
(* sanitize_columns: one name tried per step. *)

Rows == reader.rows
Data == Tail(Rows)

\* What keeps a file from being read as a table: nothing, or the reason.
Structure(rows) ==
    IF rows = <<>> THEN "empty"
    ELSE IF Len(rows) = 1 THEN "header_only"
    ELSE IF \A c \in DOMAIN rows[1] : Strip(rows[1][c]) = <<>> THEN "no_columns"
    ELSE "ok"

Naming ==
    /\ phase = "parsed" /\ Structure(Rows) = "ok"
    /\ Len(naming.names) < Len(Rows[1]) /\ Len(Rows[1]) <= MaxColumns

HeaderStem ==
    LET idx == Len(naming.names) + 1 IN Stem(Rows[1][idx], idx)

Candidate == Name(HeaderStem, naming.number)

\* Mutant: the number is counted per stem and not compared with the names
\* already given, as before BUG-036.
GiveNamePerStem ==
    /\ Naming
    /\ LET before == {k \in DOMAIN naming.names : Stem(Rows[1][k], k) = HeaderStem}
       IN  naming' = [naming EXCEPT
               !.names = Append(@, Name(HeaderStem, Cardinality(before) + 1)), !.number = 1]
    /\ UNCHANGED <<file, phase, reader, preview, load>>

GiveName ==
    /\ Naming /\ Candidate \notin ToSet(naming.names)
    /\ naming' = [naming EXCEPT !.names = Append(@, Candidate), !.number = 1]
    /\ UNCHANGED <<file, phase, reader, preview, load>>

\* A name already assigned: the next number of its stem is tried.
Count(stem) == IF stem \in DOMAIN naming.counter THEN naming.counter[stem] ELSE 1

TryNumber ==
    /\ Naming /\ Candidate \in ToSet(naming.names)
    /\ LET n == Count(HeaderStem) + 1
       IN  naming' = [naming EXCEPT
               !.number = n,
               !.counter = [s \in DOMAIN @ \cup {HeaderStem} |-> IF s = HeaderStem THEN n ELSE @[s]]]
    /\ UNCHANGED <<file, phase, reader, preview, load>>

-----------------------------------------------------------------------------
(* The preview, and the upload that follows it. *)

BuildPreview ==
    /\ phase = "parsed"
    /\ Structure(Rows) = "ok" => Len(naming.names) = Len(Rows[1])
    /\ phase' = "previewed"
    /\ preview' =
         IF Structure(Rows) # "ok"
         THEN [status |-> Structure(Rows), columns |-> <<>>, types |-> <<>>, browser |-> <<>>]
         ELSE LET columns == naming.names
                  sample == SubSeq(Data, 1, Min({InferRows, Len(Data)}))
                  Column(c) == [r \in DOMAIN sample |-> Cell(sample[r], c)]
              IN  [status |-> "ok", columns |-> columns,
                   types |-> [c \in DOMAIN columns |-> InferType(Column(c))],
                   browser |-> [c \in DOMAIN columns |-> BrowserInfer(Column(c))]]
    /\ UNCHANGED <<file, reader, naming, load>>

Conclude(outcome) ==
    /\ phase' = "done"
    /\ load' = [load EXCEPT !.outcome = outcome]
    /\ UNCHANGED <<file, reader, naming, preview>>

RefuseStructure ==
    /\ phase = "previewed" /\ Structure(Rows) # "ok"
    /\ Conclude("invalid_structure")

\* A file the upload goes on with: not too long, and names a table can have.
Loadable(columns) ==
    /\ Len(Data) <= MaxRows
    /\ IsInjective(columns)
    /\ \A c \in DOMAIN columns : ValidIdentifier(columns[c])

RefuseUpload ==
    /\ phase = "previewed" /\ Structure(Rows) = "ok"
    /\ ~Loadable(naming.names)
    /\ Conclude("error")

\* The upload parses the text and names the columns again, to the same end, and
\* uses the types it is given: those the API or the browser suggested, or text
\* throughout when it is given none.
StartCasting ==
    /\ phase = "previewed" /\ Structure(Rows) = "ok"
    /\ Loadable(naming.names)
    /\ \E types \in {preview.types, preview.browser, [c \in DOMAIN naming.names |-> "text"]} :
          load' = [load EXCEPT !.columns = naming.names, !.types = types]
    /\ phase' = "casting"
    /\ UNCHANGED <<file, reader, naming, preview>>

Width == Len(load.columns)

\* A row's cells as it is hashed: padded, and not stripped.
Padded(r) == [c \in 1 .. Width |-> Cell(r, c)]

\* The first column whose cell the cast refuses, 0 when it has cells beyond
\* the header, none otherwise.
Faults(r) ==
    IF ExtraCells(r, Width) # <<>> THEN {0}
    ELSE {c \in 1 .. Width : ~Casts(Cell(r, c), load.types[c])}

Report(n, fault) ==
    IF Len(load.errors) < MaxErrors
    THEN Append(load.errors, [row |-> n, column |-> fault]) ELSE load.errors

\* Mutant: a row is looked up among those seen before it is cast.
CastRowSeenFirst ==
    /\ phase = "casting" /\ load.next <= Len(Data)
    /\ LET r == Data[load.next]
       IN  load' =
             IF Padded(r) \in load.seen
             THEN [load EXCEPT !.next = @ + 1, !.duplicates = @ + 1]
             ELSE IF Faults(r) # {}
             THEN [load EXCEPT !.next = @ + 1, !.failed = @ + 1,
                               !.errors = Report(load.next, Min(Faults(r))),
                               !.seen = @ \cup {Padded(r)}]
             ELSE [load EXCEPT !.next = @ + 1, !.seen = @ \cup {Padded(r)},
                               !.kept = Append(@, Padded(r))]
    /\ UNCHANGED <<file, phase, reader, naming, preview>>

\* One row: failed, skipped as a duplicate of one kept, or kept.
CastRow ==
    /\ phase = "casting" /\ load.next <= Len(Data)
    /\ LET r == Data[load.next]
       IN  load' =
             IF Faults(r) # {}
             THEN [load EXCEPT !.next = @ + 1, !.failed = @ + 1,
                               !.errors = Report(load.next, Min(Faults(r)))]
             ELSE IF Padded(r) \in load.seen
             THEN [load EXCEPT !.next = @ + 1, !.duplicates = @ + 1]
             ELSE [load EXCEPT !.next = @ + 1, !.seen = @ \cup {Padded(r)},
                               !.kept = Append(@, Padded(r))]
    /\ UNCHANGED <<file, phase, reader, naming, preview>>

\* When every row failed nothing is saved.
FinishCasting ==
    /\ phase = "casting" /\ load.next > Len(Data)
    /\ Conclude(IF load.failed = Len(Data) THEN "error" ELSE "ok")

-----------------------------------------------------------------------------
CsvInit ==
    /\ file \in Files
    /\ phase = "reading"
    /\ reader = [pos |-> IF Text # <<>> /\ Head(Text) = Mark THEN 2 ELSE 1,
                 rows |-> <<>>, row |-> <<>>, field |-> <<>>, quoted |-> FALSE]
    /\ naming = [names |-> <<>>, counter |-> <<>>, number |-> 1]
    /\ preview = [status |-> "none", columns |-> <<>>, types |-> <<>>, browser |-> <<>>]
    /\ load = [outcome |-> "none", columns |-> <<>>, types |-> <<>>, next |-> 1,
               seen |-> {}, kept |-> <<>>, failed |-> 0, duplicates |-> 0, errors |-> <<>>]

Read ==
    \/ EscapedQuote \/ CloseQuote \/ QuotedSymbol \/ OpenQuote
    \/ NextField \/ SkipReturn \/ NextRow \/ PlainSymbol \/ EndOfText

Import ==
    \/ GiveName \/ TryNumber \/ BuildPreview \/ RefuseStructure \/ RefuseUpload
    \/ StartCasting \/ CastRow \/ FinishCasting

CsvNext == Read \/ Import

CsvSpec == CsvInit /\ [][CsvNext]_csvVars

-----------------------------------------------------------------------------
(* What the readers and the users of a file rely on. *)

\* A text as a spreadsheet writes it (RFC 4180).  Before the symbol at p the cell
\* places[p].cell of a row is being written, done symbols of it are, and quoted
\* says whether it is between quotes.
CellStart(r, c) == [row |-> r, cell |-> c, done |-> 0, quoted |-> FALSE]

WrittenAt(f, p) ==
    LET a == f.places[p]
        s == f.text[p]
        row == f.sheet[a.row]
        cell == row[a.cell]
        whole == a.done = Len(cell)
        Then(b, n) == p + n \in DOMAIN f.places /\ f.places[p + n] = b
        Put(n) == /\ ~whole /\ s = cell[a.done + 1]
                  /\ Then([a EXCEPT !.done = @ + 1], n)
        doubled == p < Len(f.text) /\ f.text[p + 1] = Quote
    IN  /\ a.row \in DOMAIN f.sheet /\ a.cell \in DOMAIN row /\ a.done \in 0 .. Len(cell)
        /\ \/ a.quoted /\ s # Quote /\ Put(1)
           \/ a.quoted /\ s = Quote /\ doubled /\ Put(2)
           \/ a.quoted /\ s = Quote /\ ~doubled /\ whole /\ Then([a EXCEPT !.quoted = FALSE], 1)
           \/ ~a.quoted /\ s = Quote /\ a.done = 0 /\ Then([a EXCEPT !.quoted = TRUE], 1)
           \/ ~a.quoted /\ s \notin {Quote, Comma, CarriageReturn, Newline} /\ Put(1)
           \/ ~a.quoted /\ s = Comma /\ whole /\ a.cell < Len(row) /\ Then(CellStart(a.row, a.cell + 1), 1)
           \/ ~a.quoted /\ s = CarriageReturn /\ whole /\ a.cell = Len(row) /\ Then(a, 1)
           \/ ~a.quoted /\ s = Newline /\ whole /\ a.cell = Len(row) /\ Then(CellStart(a.row + 1, 1), 1)

\* The whole of the sheet is written, after a byte order mark or none, its last
\* line ended or not.
Written(f) ==
    LET first == IF f.text # <<>> /\ Head(f.text) = Mark THEN 2 ELSE 1
        end == Len(f.text) + 1
        n == Len(f.sheet)
        width == Len(f.sheet[n])
    IN  /\ f.sheet \in Seq(Seq(Seq(Symbols)) \ {<<>>})
        /\ {first, end} \subseteq DOMAIN f.places /\ DOMAIN f.places \subseteq 1 .. end
        /\ f.places[first] = CellStart(1, 1)
        /\ \A p \in DOMAIN f.places \ {end} : WrittenAt(f, p)
        /\ \/ f.places[end] = CellStart(n + 1, 1)
           \/ n > 0 /\ f.places[end] = [row |-> n, cell |-> width, done |-> Len(f.sheet[n][width]),
                                        quoted |-> FALSE]

\* What the reader returns is what was written, whatever the cells hold and
\* however lines end, less the blank rows at the end (parse_csv 70-119).
RoundTrip == phase # "reading" => reader.rows = DropBlankEnd(file.sheet)

\* Every header gets a name of its own that PostgreSQL takes unquoted and that
\* is none of the table's own columns, whatever the headers have in common
\* after they are lowered, cut and numbered (sanitize_columns 122-157, #36).
NamesUsable ==
    preview.status = "ok" =>
        /\ Len(preview.columns) = Len(Rows[1])
        /\ IsInjective(preview.columns)
        /\ \A c \in DOMAIN preview.columns :
              /\ ValidIdentifier(preview.columns[c])
              /\ preview.columns[c] \notin Reserved

\* An upload that takes the types the API or the browser suggests never refuses a
\* cell of a row the suggestion was made from: two inferences and the cast agree
\* (infer_type 179-198, cast_value 217-249, csv-preview.ts 77-107).
SuggestionHolds ==
    phase \in {"casting", "done"} /\ load.types \in {preview.types, preview.browser} =>
        \A k \in DOMAIN load.errors :
            load.errors[k].row <= InferRows => load.errors[k].column = 0

\* A finished upload has one row for each different row that can be cast,
\* counts every row it was given exactly once, and reports the first of those
\* that failed by their numbers (dynamic_loader.py 266-334).
RowsAccounted ==
    phase = "done" /\ load.next > 1 =>
        LET castable == {n \in DOMAIN Data : Faults(Data[n]) = {}}
            wrong == DOMAIN Data \ castable
        IN  /\ ToSet(load.kept) = {Padded(Data[n]) : n \in castable}
            /\ IsInjective(load.kept)
            /\ load.failed = Cardinality(wrong)
            /\ Len(load.kept) + load.duplicates + load.failed = Len(Data)
            /\ Len(load.errors) = Min({MaxErrors, load.failed})
            /\ \A k \in DOMAIN load.errors :
                  /\ load.errors[k].row \in wrong
                  /\ Cardinality({n \in wrong : n < load.errors[k].row}) = k - 1
=============================================================================

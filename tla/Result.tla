------------------------------- MODULE Result -------------------------------
(***************************************************************************)
(* From an answer to the frame a user is given: the body read line by line *)
(* (ndjson.py), the dropped fields (arrow.py), then normalize(): totals    *)
(* rows, sidecars, reserved columns, formatted grains and renames, and     *)
(* the names DataFrame.columns, .schema and collect() give for them.       *)
(*                                                                         *)
(* The server is external.  Its model may be edited between two requests,  *)
(* so each request is answered as of then: which fields exist, which       *)
(* grains are formatted, and in which of its styles it writes the answer.  *)
(* A table is its columns, each with what it holds in the row of data and  *)
(* in the row of totals, and the rows it has.                              *)
(***************************************************************************)
EXTENDS Naming

CONSTANTS
    Bases,          \* what fields and columns can be called
    Measures,       \* the fields that are governed measures
    StoredFields,   \* the fields of a stored query, which totals its measures or not
    Selections,     \* the first select()s
    Narrowings,     \* the select()s over them
    Columns,        \* the with_column()s
    MaxSelects, MaxDerived,
    Requests        \* what a request can meet: the model at that time (known fields,
                    \* formatted grains), the style of the answer, the lines that arrive

VARIABLES
    frame,
    schema,         \* DataFrame._schema: the names of the planned schema
    told,           \* history: every sequence of names this frame has been said to have
    outcome

vars == <<frame, schema, told, outcome>>

NoSchema == <<NoAlias>>
NoRequest == [model |-> "none"]
Outcome(kind) == [kind |-> kind, names |-> <<>>, rows |-> <<>>, request |-> NoRequest]
None == Outcome("none")

RowType == Name("row_type")

Cell(what, e) == [what |-> what, ref |-> e.ref, calc |-> e.calc]
Nothing == [ref |-> NoAlias, calc |-> 0]
Null == Cell("null", Nothing)
Blank == Cell("blank", Nothing)
Grand == Cell("::total::", Nothing)
Other == Cell("other", Nothing)

-----------------------------------------------------------------------------
(* The wire *)

\* TOTAL_INDICATOR_COLUMNS, in the order they are read
Indicators ==
    [i \in 1 .. 4 |-> [base |-> IF i <= 2 THEN "column_total" ELSE "row_total",
                       part |-> IF i % 2 = 1 THEN "$omni" ELSE "__omni", nth |-> 0]]

IsMeasured(item) == item.ref.base \in Measures /\ item.calc = 0
IsFormatted(item, model) == item.ref.base \in model.formatted /\ item.calc = 0

Column(name, data, total) == [name |-> name, data |-> data, total |-> total]

\* The totals of a measure are in its own column, or in a sidecar beside it
ItemColumn(item, model, style) ==
    Column(IF IsFormatted(item, model) THEN [item.name EXCEPT !.part = "raw"] ELSE item.name,
           Cell("data", item),
           IF ~IsMeasured(item) THEN Null
           ELSE IF style.sidecar = "kept" THEN Other ELSE Cell("total", item))

Sidecar(item, part, value) == Column([item.ref EXCEPT !.part = part], Other, value)

\* A measure may have two, of which the first is the one that counts
SidecarsOf(items, style) ==
    LET measured == Chosen(items, {i \in DOMAIN items : IsMeasured(items[i])})
    IN  IF style.sidecar = "none" THEN <<>>
        ELSE [i \in DOMAIN measured |-> Sidecar(measured[i], "summ",
                 IF style.sidecar = "kept" THEN Cell("total", measured[i]) ELSE Null)]
             \o [i \in DOMAIN measured |-> Sidecar(measured[i], "summ_1", Other)]

FormattedOf(items, model) ==
    LET asked == Chosen(items, {i \in DOMAIN items : IsFormatted(items[i], model)})
    IN  [i \in DOMAIN asked |-> Column(asked[i].name, Cell("text", asked[i]), Null)]

IndicatorColumns(style) ==
    LET used == Chosen(Indicators, {i \in DOMAIN Indicators : Indicators[i] \in style.indicators})
    IN  [i \in DOMAIN used |->
            Column(used[i], style.empty, IF used[i] = style.flag THEN Grand ELSE style.empty)]

SortColumn == Column([Name("sort") EXCEPT !.part = "sort"], Other, Other)

\* The table a query is answered with, formatted grains after every other column; only a
\* query that asks for totals gets them
WireTable(query, request) ==
    LET items == query.items
        style == request.style
    IN  [columns |-> [i \in DOMAIN items |-> ItemColumn(items[i], request.model, style)]
                     \o SidecarsOf(items, style) \o <<SortColumn>> \o IndicatorColumns(style)
                     \o FormattedOf(items, request.model),
         rows |-> IF style.total /\ query.totals THEN {"data", "total"} ELSE {"data"}]

\* What users write, and what a server answers with
FieldNames == [base : Bases, part : {"name"}, nth : {0}]
PlainNames == FieldNames \cup {NoAlias}
SelectColumns == [ref : FieldNames, calc : Nat, measured : BOOLEAN, alias : PlainNames]
DerivedColumns == [name : FieldNames, ref : FieldNames, calc : Nat]
Lines == {"header", "job", "footer", "junk", "torn", "message"}

\* A style marks the totals row it adds in one of the indicators it has
IsStyle(style) ==
    /\ style.indicators \subseteq Range(Indicators)
    /\ style.total => style.flag \in style.indicators
    /\ style.empty \in {Null, Blank}
    /\ style.sidecar \in {"none", "null", "kept"}

\* Names are what users write, a formatted grain is no measure, and nothing else is given
\* the name of a field that is asked for as a measure
ASSUME ResultAssumption ==
    /\ "none" \notin Bases
    /\ MaxSelects \in Nat /\ MaxDerived \in Nat
    /\ StoredFields \in Seq(FieldNames)
    /\ \A i, j \in DOMAIN StoredFields : StoredFields[i] = StoredFields[j] => i = j
    /\ Selections \cup Narrowings \subseteq Seq(SelectColumns)
    /\ Columns \subseteq DerivedColumns
    /\ \A one, other \in Selections \cup Narrowings : \A c \in Range(one), m \in Range(other) :
          m.measured /\ c.alias = m.ref => c.ref = m.ref /\ c.calc = 0
    /\ \A request \in Requests :
          /\ request.body \in Seq(Lines)
          /\ request.model.formatted \cap Measures = {}
          /\ IsStyle(request.style)

-----------------------------------------------------------------------------
(* Reading the body *)

Malformed(line) == line \in {"junk", "torn"}

\* Mutant of Upstream: a last line that is no JSON is dropped.
MutUpstream(body) == "message" \in Range(body)

\* parse_response: what does not parse is fatal, except as the last line, where it is the
\* upstream failure the stream was cut off by; _absorb raises either
Upstream(body) == "message" \in Range(body) \/ \E i \in DOMAIN body : Malformed(body[i])

Dropped(query, model) == {i \in DOMAIN query.items : query.items[i].ref.base \notin model.known}

\* run(): no job line, an upstream failure or a dropped field is an error, not an answer
Answered(query, request) ==
    /\ ~Upstream(request.body)
    /\ "job" \in Range(request.body)
    /\ Dropped(query, request.model) = {}

-----------------------------------------------------------------------------
(* normalize() *)

NamesOf(columns) == [i \in DOMAIN columns |-> columns[i].name]

IsIndicator(name) == name \in Range(Indicators)

\* _totals_mask: a row where some indicator carries a value, and "" is none
Flagged(table, row) ==
    \E c \in Range(table.columns) : IsIndicator(c.name) /\ c[row] \notin {Null, Blank}

IsReserved(name) == name.part \in {"$omni", "__omni", "sort", "summ", "summ_1"}

\* Mutant of SidecarFor: the last of several sidecars wins.
MutSidecarFor(columns, name) ==
    {i \in DOMAIN columns :
        /\ columns[i].name.part \in {"summ", "summ_1"} /\ Name(columns[i].name.base) = name
        /\ \A j \in i + 1 .. Len(columns) : columns[j].name.base # columns[i].name.base
                                            \/ columns[j].name.part \notin {"summ", "summ_1"}}

\* The first sidecar of a column
SidecarFor(columns, name) ==
    {i \in DOMAIN columns :
        /\ columns[i].name.part \in {"summ", "summ_1"} /\ Name(columns[i].name.base) = name
        /\ \A j \in 1 .. i - 1 : columns[j].name.base # columns[i].name.base
                                 \/ columns[j].name.part \notin {"summ", "summ_1"}}

\* _merge_summ_sidecars: on totals rows, the sidecar where it has a value
Merged(table) ==
    [table EXCEPT !.columns = [i \in DOMAIN table.columns |->
        LET column == table.columns[i]
            sidecars == SidecarFor(table.columns, column.name)
        IN  [column EXCEPT
                !.total = IF \E s \in sidecars : table.columns[s].total # Null
                          THEN table.columns[Min(sidecars)].total ELSE @]]]

\* The formatted halves of grain pairs
FormattedHalves(columns) ==
    {i \in DOMAIN columns : \E j \in DOMAIN columns :
        columns[j].name.part = "raw" /\ Name(columns[j].name.base) = columns[i].name}

\* Mutant of Collapsed: the formatted half is kept.
MutCollapsed(columns) ==
    Chosen(columns, {i \in DOMAIN columns :
        columns[i].name.part # "raw"
        \/ \A j \in DOMAIN columns : columns[j].name # Name(columns[i].name.base)})

\* collapse_grain_names: the raw half takes the place and the name of the pair
Collapsed(columns) ==
    LET halves == FormattedHalves(columns)
        kept == Chosen(columns, DOMAIN columns \ halves)
    IN  [i \in DOMAIN kept |->
            IF kept[i].name.part = "raw" /\ \E h \in halves : columns[h].name = Name(kept[i].name.base)
            THEN [kept[i] EXCEPT !.name.part = "name"] ELSE kept[i]]

\* _alias_target: the exact name, else the generated name in whatever scope
Targets(names, key) ==
    IF key \in Range(names) THEN {i \in DOMAIN names : names[i] = key}
    ELSE {i \in DOMAIN names : names[i] = [key EXCEPT !.part = "scoped"]}

\* resolve_aliases
Renamed(names, aliases) ==
    [i \in DOMAIN names |->
        IF \E key \in DOMAIN aliases : i \in Targets(names, key)
        THEN aliases[CHOOSE key \in DOMAIN aliases : i \in Targets(names, key)]
        ELSE names[i]]

\* Mutant of Collides: two columns of one name are let through.
MutCollides(names, aliases) == FALSE

\* _refuse_collisions
Collides(names, aliases) ==
    /\ DOMAIN aliases # {}
    /\ \E i, j \in DOMAIN names : i # j /\ Renamed(names, aliases)[i] = Renamed(names, aliases)[j]

Unreserved(columns) == {i \in DOMAIN columns : ~IsReserved(columns[i].name)}
Visible(columns) == Collapsed(Chosen(columns, Unreserved(columns)))

\* _total_row_types and _row_type: the first indicator that is not null names the row, and
\* "" names nothing
RowLabel(table, row) ==
    LET valued == {i \in DOMAIN Indicators : \E c \in Range(table.columns) :
                      c.name = Indicators[i] /\ c[row] # Null}
        first == CHOOSE c \in Range(table.columns) : c.name = Indicators[Min(valued)]
    IN  IF first[row] \in {Blank, Grand} THEN "total" ELSE first[row].what

\* A row the answer has, unless it is flagged and not to be kept
RowsOf(table, columns, row, keep) ==
    IF row \notin table.rows \/ (Flagged(table, row) /\ ~keep) THEN <<>>
    ELSE <<[cells |-> [i \in DOMAIN columns |-> columns[i][row]],
            label |-> IF Flagged(table, row) THEN RowLabel(table, row) ELSE "data"]>>

\* _collect: the data rows, and with_totals() the flagged ones after them
Normalized(wire, keep) ==
    LET merged == IF keep /\ Flagged(wire, "total") THEN Merged(wire) ELSE wire
        columns == Visible(merged.columns)
    IN  RowsOf(wire, columns, "data", keep) \o RowsOf(wire, columns, "total", keep)

-----------------------------------------------------------------------------
(* DataFrame *)

NoFrame == [stored |-> FALSE, selects |-> <<>>, derived |-> <<>>, totals |-> FALSE]

StoredQuery ==
    [items |-> [i \in DOMAIN StoredFields |-> Item(StoredFields[i], [ref |-> StoredFields[i], calc |-> 0])],
     columns |-> StoredFields, aliases |-> <<>>, totals |-> TRUE]

\* A stored query goes as it is, and totals nothing it was not told to
CompileFrame(f) ==
    IF ~f.stored THEN Compile(f) ELSE IF f.totals THEN Refused ELSE Sends(StoredQuery)

Compiled == CompileFrame(frame)
WithRowType(names) == IF frame.totals THEN Append(names, RowType) ELSE names

Init ==
    /\ frame \in {NoFrame, [NoFrame EXCEPT !.stored = TRUE]}
    /\ schema = NoSchema
    /\ told = {}
    /\ outcome = None

\* Every step of a chain is a new DataFrame, with nothing cached
Derive(f) ==
    /\ frame' = f
    /\ schema' = NoSchema
    /\ told' = {}
    /\ outcome' = None

\* select(): over a with_column() or a stored query it is local work
Select(cols) ==
    /\ ~frame.stored /\ frame.derived = <<>> /\ Len(frame.selects) < MaxSelects
    /\ cols \in IF frame.selects = <<>> THEN Selections ELSE Narrowings
    /\ ~AliasRefused(cols)
    /\ Derive([frame EXCEPT !.selects = Append(@, cols)])

WithColumn(column) ==
    /\ frame.selects # <<>> /\ Len(frame.derived) < MaxDerived
    /\ Derive([frame EXCEPT !.derived = Append(@, column)])

WithTotals ==
    /\ ~frame.totals
    /\ Derive([frame EXCEPT !.totals = TRUE])

\* A frame that does not compile says so at any of the three
Refuse ==
    /\ Compiled.verdict = "refused"
    /\ outcome' = Outcome("refused")
    /\ UNCHANGED <<frame, schema, told>>

\* .columns: no request
ReadColumns ==
    /\ Compiled.verdict \in {"query", "local"}
    /\ told' = told \cup {WithRowType(IF Compiled.verdict = "query" THEN Compiled.query.columns
                                      ELSE PlanOutputs(frame))}
    /\ outcome' = None
    /\ UNCHANGED <<frame, schema>>

\* The fields a plan describes: the query's, and both halves of a formatted grain
Planned(query, model) ==
    NamesOf(Collapsed([i \in DOMAIN query.items |-> ItemColumn(query.items[i], model, [sidecar |-> "none"])]
                      \o FormattedOf(query.items, model)))

\* .schema of a frame that finishes locally is an error; its rows are DataFrame's to give
LocalSchema ==
    /\ Compiled.verdict = "local"
    /\ outcome' = Outcome("local")
    /\ UNCHANGED <<frame, schema, told>>

\* .schema: planned once, and kept however the model changes after it
ReadSchema(request) ==
    LET query == Compiled.query
        names == Planned(query, request.model)
    IN  /\ Compiled.verdict = "query"
        /\ IF schema # NoSchema THEN outcome' = None /\ told' = told \cup {schema} /\ schema' = schema
           ELSE IF ~Answered(query, request)
           THEN outcome' = Outcome("error") /\ UNCHANGED <<schema, told>>
           ELSE IF Collides(names, query.aliases)
           THEN outcome' = Outcome("collision") /\ UNCHANGED <<schema, told>>
           ELSE /\ schema' = WithRowType(Renamed(names, query.aliases))
                /\ told' = told \cup {schema'}
                /\ outcome' = None
        /\ UNCHANGED frame

\* collect()
Collect(request) ==
    LET query == Compiled.query
        wire == WireTable(query, request)
        names == NamesOf(Visible(wire.columns))
    IN  /\ Compiled.verdict = "query"
        /\ IF ~Answered(query, request)
           THEN outcome' = Outcome("error") /\ told' = told
           ELSE IF Collides(names, query.aliases)
           THEN outcome' = Outcome("collision") /\ told' = told
           ELSE LET given == WithRowType(Renamed(names, query.aliases))
                IN  /\ outcome' = [kind |-> "table", names |-> given,
                                   rows |-> Normalized(wire, frame.totals), request |-> request]
                    /\ told' = told \cup {given}
        /\ UNCHANGED <<frame, schema>>

Next ==
    \/ \E cols \in Selections \cup Narrowings : Select(cols)
    \/ \E column \in Columns : WithColumn(column)
    \/ WithTotals
    \/ Refuse
    \/ ReadColumns
    \/ LocalSchema
    \/ \E request \in Requests : ReadSchema(request)
    \/ \E request \in Requests : Collect(request)

Spec == Init /\ [][Next]_vars

-----------------------------------------------------------------------------
(* Properties *)

TypeOK ==
    /\ frame.stored \in BOOLEAN /\ frame.totals \in BOOLEAN
    /\ Len(frame.selects) <= MaxSelects /\ Len(frame.derived) <= MaxDerived
    /\ outcome.kind \in {"none", "refused", "local", "error", "collision", "table"}
    /\ outcome.kind = "table" =>
        /\ outcome.request \in Requests
        /\ LET width == Len(outcome.names) - (IF frame.totals THEN 1 ELSE 0)
           IN  /\ \A i, j \in 1 .. width : outcome.names[i] = outcome.names[j] => i = j
               /\ \A row \in Range(outcome.rows) : Len(row.cells) = width

Given == outcome.kind = "table"

\* What the chain means, read forwards: each step names what it makes of the names below it,
\* and a name nobody gave is a field of the model
Read(env, n) == IF n \in DOMAIN env THEN env[n] ELSE [ref |-> n, calc |-> 0]
Made(env, e) == [Read(env, e.ref) EXCEPT !.calc = @ + e.calc]
Selecting(env, cols) ==
    [n \in DOMAIN env \cup Range(OutputsOf(cols)) |->
        IF n \in Range(OutputsOf(cols)) THEN Made(env, CHOOSE c \in Range(cols) : OutputOf(c) = n)
        ELSE env[n]]
Deriving(env, d) ==
    [n \in DOMAIN env \cup {d.name} |-> IF n = d.name THEN Made(env, d) ELSE env[n]]

SelectingUpTo(selects) ==
    LET env[k \in 0 .. Len(selects)] == IF k = 0 THEN <<>> ELSE Selecting(env[k - 1], selects[k])
    IN  env
DerivingUpTo(below, derived) ==
    LET env[k \in 0 .. Len(derived)] == IF k = 0 THEN below ELSE Deriving(env[k - 1], derived[k])
    IN  env
Meanings(f) ==
    LET below == SelectingUpTo(f.selects)[Len(f.selects)]
    IN  DerivingUpTo(below, f.derived)[Len(f.derived)]

Asked == IF frame.stored THEN StoredFields ELSE FirstOnly(PlanOutputs(frame))
Meant ==
    LET env == IF frame.stored THEN <<>> ELSE Meanings(frame)
    IN  [i \in DOMAIN Asked |-> Read(env, Asked[i])]

\* A frame has the columns its chain of select() and with_column() asked for, in that order
\* and under those names, and its one row of data holds what each of them means: never a
\* formatted string, a sidecar, or another column's values (semantic.py, sqlgen.py,
\* normalize.py).
AnswersAsSelected ==
    Given => /\ outcome.names = WithRowType(Asked)
             /\ \E row \in Range(outcome.rows) : row.label = "data"
             /\ \A row \in Range(outcome.rows) : row.label = "data" =>
                    row.cells = [i \in DOMAIN Meant |-> Cell("data", Meant[i])]

\* However the server spells its indicators, and wherever it puts the totals, the totals row
\* is kept out of a frame that did not ask for it and is the last row, labelled and with the
\* totals of the measures, of one that did (normalize, _with_row_type).
TotalsApart ==
    Given => LET sent == frame.totals /\ outcome.request.style.total
                 total == Last(outcome.rows)
             IN  /\ Len(outcome.rows) = IF sent THEN 2 ELSE 1
                 /\ sent => /\ total.label = "total"
                            /\ total.cells = [i \in DOMAIN Meant |->
                                   IF IsMeasured(Meant[i]) THEN Cell("total", Meant[i]) ELSE Null]

\* .columns, .schema and collect() name the same columns in the same order, whichever is
\* asked first, however often, and however the model is edited between them (the grain that
\* starts to be formatted, the expression the server names in its own scope).
NamesAgree == Cardinality(told) <= 1

\* A table is only ever given for a whole answer to the whole question: no line of the body
\* was cut or foreign, no failure was appended to it, no field was dropped (parse_response,
\* _absorb, check_missing_fields).
NeverPartial ==
    Given => LET request == outcome.request
             IN  /\ Range(request.body) \subseteq {"header", "job", "footer"}
                 /\ \A i \in DOMAIN Meant : Meant[i].ref.base \in request.model.known

\* Names that collide are refused when the frame is built, before any request (select():
\* "fail fast on alias collisions, at build time"): after one, only a select() of the
\* same column twice can still collide.
RefusedEarly ==
    outcome.kind = "collision" =>
        \E i, j \in DOMAIN frame.selects[1] :
            i # j /\ KeyOf(frame.selects[1][i]) = KeyOf(frame.selects[1][j])
=============================================================================

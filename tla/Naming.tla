------------------------------- MODULE Naming -------------------------------
(***************************************************************************)
(* What a frame asks for and under which names: select() with aliases,     *)
(* stacked selects, with_column(), and the query they become, with the     *)
(* renames to apply to its answer (semantic.py, sqlgen.py, splitter.py).   *)
(* The wire has no aliases: a bare field comes back under its own name, an *)
(* expression under a generated one in a scope the client cannot know.     *)
(*                                                                         *)
(* A name is a base, a part and a number; a user's are plain: of the part  *)
(* "name" and without a number.  A column is a reference with calc steps   *)
(* of arithmetic on top, measured when it was written F.measure.  Ad-hoc   *)
(* aggregates, filters, sorts and limits are Splitter's and Predicates'.   *)
(***************************************************************************)
EXTENDS Integers, SequencesExt

Name(b) == [base |-> b, part |-> "name", nth |-> 0]
NoAlias == Name("none")

\* column_key: the name of an expression that nobody has named
KeyOf(e) == IF e.calc = 0 THEN e.ref ELSE [e.ref EXCEPT !.part = "calc", !.nth = e.calc]
OutputOf(c) == IF c.alias = NoAlias THEN KeyOf(c) ELSE c.alias
OutputsOf(cols) == [i \in DOMAIN cols |-> OutputOf(cols[i])]

Expr(c) == [ref |-> c.ref, calc |-> c.calc, measured |-> c.measured]
IsBare(e) == e.calc = 0

\* The members of a set of numbers up to n, in order; what a sequence has at some places
Ascending(S, n) ==
    LET upTo[k \in 0 .. n] ==
            IF k = 0 THEN <<>> ELSE IF k \in S THEN Append(upTo[k - 1], k) ELSE upTo[k - 1]
    IN  upTo[n]
Chosen(s, places) ==
    LET at == Ascending(places, Len(s)) IN [k \in DOMAIN at |-> s[at[k]]]

FirstPlaces(s) == {i \in DOMAIN s : \A j \in 1 .. i - 1 : s[j] # s[i]}
FirstOnly(s) == Chosen(s, FirstPlaces(s))

\* Mutant of AliasRefused: an alias may be the name of another selected field.
MutShadows(cols) ==
    \E i, j \in DOMAIN cols :
        /\ cols[i].alias # NoAlias
        /\ \/ i # j /\ cols[j].alias = cols[i].alias
           \/ cols[j].alias \notin {NoAlias, cols[i].alias} /\ KeyOf(cols[j]) = KeyOf(cols[i])

\* alias_map: a repeated alias, a field aliased twice, an alias over another column
AliasRefused(cols) ==
    \E i, j \in DOMAIN cols :
        /\ cols[i].alias # NoAlias
        /\ \/ i # j /\ cols[j].alias = cols[i].alias
           \/ cols[j].alias \notin {NoAlias, cols[i].alias} /\ KeyOf(cols[j]) = KeyOf(cols[i])
           \/ cols[i].alias # KeyOf(cols[i]) /\ KeyOf(cols[j]) = cols[i].alias

\* A compilation: "query" is one request, "local" a plan with work of its own to do,
\* "refused" an error, "cannot" a shape the tier leaves to the next one
NoQuery == [items |-> <<>>, columns |-> <<>>, aliases |-> <<>>, totals |-> FALSE]
Refused == [verdict |-> "refused", query |-> NoQuery]
Cannot == [verdict |-> "cannot", query |-> NoQuery]
Local == [verdict |-> "local", query |-> NoQuery]
Sends(query) == [verdict |-> "query", query |-> query]

-----------------------------------------------------------------------------
(* Stacked selects: the outermost one is sent, over what those below supply *)

\* What a select() supplies under a name: what it called so, else what it aliased away
Suppliers(inner, n) ==
    LET called == {i \in DOMAIN inner : inner[i].alias = n}
    IN  IF called # {} THEN called ELSE {i \in DOMAIN inner : KeyOf(inner[i]) = n}

\* A plain reference is what the select() below made of it, under the name it has above
Narrowed(c, inner) ==
    IF IsBare(c) /\ ~c.measured
    THEN [inner[Min(Suppliers(inner, KeyOf(c)))] EXCEPT !.alias = OutputOf(c)]
    ELSE c

Unavailable(cols, inner) == \E c \in Range(cols) : Suppliers(inner, KeyOf(c)) = {}

\* No column at all when a name is not available below
SelectedOver(cols, inner) ==
    IF Unavailable(cols, inner) THEN <<>> ELSE [i \in DOMAIN cols |-> Narrowed(cols[i], inner)]

\* What is sent in the place of a select() and of all above it
Compositions(selects) ==
    LET from[k \in 1 .. Len(selects)] ==
            IF k = Len(selects) THEN selects[k] ELSE SelectedOver(from[k + 1], selects[k])
    IN  from
Composed(selects) == Compositions(selects)[1]

-----------------------------------------------------------------------------
(* Tier 1: one governed query *)

\* One field under two names is a copy, which no query returns
Copies(outputs) ==
    \E i, j \in DOMAIN outputs :
        /\ IsBare(outputs[i].expr) /\ IsBare(outputs[j].expr)
        /\ outputs[i].expr.ref = outputs[j].expr.ref
        /\ outputs[i].name # outputs[j].name

Output(c) == [name |-> OutputOf(c), expr |-> Expr(c), key |-> FALSE]
Bare(cols) == [i \in DOMAIN cols |-> Output(cols[i])]

Item(name, e) == [name |-> name, ref |-> e.ref, calc |-> e.calc]

\* The first mention of a field says whether it is a measure or a group key
Mentioned(cols) == {i \in DOMAIN cols : \A j \in 1 .. i - 1 : KeyOf(cols[j]) # KeyOf(cols[i])}
HasMeasure(cols) == \E i \in Mentioned(cols) : cols[i].measured

Renames(cols) ==
    LET named == {i \in Mentioned(cols) : cols[i].alias # NoAlias}
    IN  [n \in {KeyOf(cols[i]) : i \in named} |->
            cols[CHOOSE i \in named : KeyOf(cols[i]) = n].alias]

SemanticQuery(cols, totals) ==
    [items |-> FirstOnly([i \in DOMAIN cols |-> Item(cols[i].ref, cols[i])]),
     columns |-> FirstOnly(OutputsOf(cols)), aliases |-> Renames(cols), totals |-> totals]

CompileSelect(cols, totals) ==
    CASE cols = <<>> \/ AliasRefused(cols) -> Refused
      [] cols # <<>> /\ ~AliasRefused(cols) ->
            IF Copies(Bare(cols)) \/ \E c \in Range(cols) : ~IsBare(c) THEN Cannot
            ELSE IF totals /\ ~HasMeasure(cols) THEN Refused
            ELSE Sends(SemanticQuery(cols, totals))

CompileSemantic(frame) ==
    IF frame.derived # <<>> THEN Cannot
    ELSE IF frame.selects = <<>> THEN Refused
    ELSE CompileSelect(Composed(frame.selects), frame.totals)

-----------------------------------------------------------------------------
(* Tier 2: one SELECT, with_column() substituted into it *)

Aggregated(cols) == \E c \in Range(cols) : c.measured
Selected(cols) ==
    [i \in DOMAIN cols |-> [Output(cols[i]) EXCEPT
        !.key = Aggregated(cols) /\ IsBare(cols[i]) /\ ~cols[i].measured]]

\* Mutant of Define: what was defined first stays defined.
MutDefine(defs, name, key, e) == [n \in DOMAIN defs \cup {name, key} |->
    IF n \in DOMAIN defs THEN defs[n] ELSE e]

\* An output is known by its name, and by what it was before it was named
Define(defs, name, key, e) == [n \in DOMAIN defs \cup {name, key} |->
    IF n = name THEN e ELSE IF n \in DOMAIN defs THEN defs[n] ELSE e]
DefinitionsUpTo(cols) ==
    LET upTo[k \in 0 .. Len(cols)] ==
            IF k = 0 THEN <<>>
            ELSE Define(upTo[k - 1], OutputOf(cols[k]), KeyOf(cols[k]), Expr(cols[k]))
    IN  upTo
Definitions(cols) == DefinitionsUpTo(cols)[Len(cols)]

Substituted(d, defs) ==
    IF d.ref \in DOMAIN defs THEN [defs[d.ref] EXCEPT !.calc = @ + d.calc]
    ELSE [ref |-> d.ref, calc |-> d.calc, measured |-> FALSE]

NoMore == [outputs |-> <<>>, defs |-> <<>>, ok |-> FALSE]

\* One with_column(): in the place of the output it replaces, or at the end.  Beside a
\* GROUP BY it has a value only over measures and keys, and a key cannot be replaced.
Placed(sql, d, aggregated) ==
    LET e == Substituted(d, sql.defs)
        same == {i \in DOMAIN sql.outputs : sql.outputs[i].name = d.name}
        at == IF same = {} THEN Len(sql.outputs) + 1 ELSE Min(same)
        output == [name |-> d.name, expr |-> e, key |-> FALSE]
    IN  IF \/ aggregated /\ ~e.measured /\ ~\E o \in Range(sql.outputs) : o.key /\ o.expr.ref = e.ref
           \/ \E i \in same : sql.outputs[i].key
        THEN NoMore
        ELSE [outputs |-> [i \in DOMAIN sql.outputs \cup {at} |->
                              IF i = at THEN output ELSE sql.outputs[i]],
              defs |-> Define(sql.defs, d.name, d.name, e), ok |-> sql.ok]

SqlUpTo(cols, derived) ==
    LET upTo[k \in 0 .. Len(derived)] ==
            IF k = 0 THEN [outputs |-> Selected(cols), defs |-> Definitions(cols), ok |-> TRUE]
            ELSE Placed(upTo[k - 1], derived[k], Aggregated(cols))
    IN  upTo
SqlOutputs(cols, derived) == SqlUpTo(cols, derived)[Len(derived)]

\* The name an expression is sent under, and the one it comes back under
GeneratedFor(outputs, i) ==
    [Name("of_expr") EXCEPT !.nth = Cardinality({j \in 1 .. i : ~IsBare(outputs[j].expr)})]
SentAs(outputs, i) ==
    IF IsBare(outputs[i].expr) THEN outputs[i].expr.ref ELSE GeneratedFor(outputs, i)
BackAs(outputs, i) ==
    IF IsBare(outputs[i].expr) THEN outputs[i].expr.ref
    ELSE [GeneratedFor(outputs, i) EXCEPT !.part = "scoped"]

\* A repeated field is one item, an expression an item each time
EmittedPlaces(outputs) ==
    {i \in DOMAIN outputs : ~IsBare(outputs[i].expr) \/ \A j \in 1 .. i - 1 :
        ~IsBare(outputs[j].expr) \/ outputs[j].expr.ref # outputs[i].expr.ref}
Emitted(outputs) == Ascending(EmittedPlaces(outputs), Len(outputs))

SqlQuery(outputs) ==
    LET at == Emitted(outputs)
        renamed == {i \in Range(at) : SentAs(outputs, i) # outputs[i].name}
    IN  [items |-> [k \in DOMAIN at |-> Item(BackAs(outputs, at[k]), outputs[at[k]].expr)],
         columns |-> [k \in DOMAIN at |-> outputs[at[k]].name],
         aliases |-> [n \in {SentAs(outputs, i) : i \in renamed} |->
                         outputs[CHOOSE i \in renamed : SentAs(outputs, i) = n].name],
         totals |-> FALSE]

\* What the plan says it produces, whatever the tier (_outputs)
PlanUpTo(names, derived) ==
    LET upTo[k \in 0 .. Len(derived)] ==
            IF k = 0 THEN names
            ELSE IF derived[k].name \in Range(upTo[k - 1]) THEN upTo[k - 1]
            ELSE Append(upTo[k - 1], derived[k].name)
    IN  upTo
PlanOutputs(frame) ==
    PlanUpTo(OutputsOf(Last(frame.selects)), frame.derived)[Len(frame.derived)]

CompileSql(frame) ==
    LET cols == frame.selects[1]
        sql == SqlOutputs(cols, frame.derived)
    IN  IF \/ Len(frame.selects) # 1
           \/ Aggregated(cols) /\ \E c \in Range(cols) : ~IsBare(c) /\ ~c.measured
           \/ ~sql.ok \/ Copies(sql.outputs)
        THEN Cannot ELSE Sends(SqlQuery(sql.outputs))

\* split(): the governed query, else nothing that totals, else the statement if its
\* columns are the plan's, else local work
Compile(frame) ==
    LET semantic == CompileSemantic(frame)
        sql == CompileSql(frame)
    IN  CASE semantic.verdict # "cannot" -> semantic
          [] semantic.verdict = "cannot" /\ frame.totals -> Refused
          [] semantic.verdict = "cannot" /\ ~frame.totals ->
                IF sql.verdict = "query" /\ sql.query.columns = PlanOutputs(frame) THEN sql
                ELSE Local
=============================================================================

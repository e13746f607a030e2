----------------------------- MODULE Predicates -----------------------------
(***************************************************************************)
(* A predicate is built with the methods of Column (column.py), handed to  *)
(* filter(), and evaluated by whichever tier runs that step:               *)
(*                                                                         *)
(*   tier 1  typed filter entries, keyed by field (compile/semantic.py,    *)
(*           compile/querymodel.py), that the server turns into SQL;       *)
(*   tier 2  SQL text the server parses (compile/sqlgen.py);               *)
(*   tier 3  Arrow's Kleene logic (compile/local.py).                      *)
(*                                                                         *)
(* A Column is immutable and built on others, so an expression is known by *)
(* its place among those made so far, and an operand is an earlier place.  *)
(*                                                                         *)
(* Truth below, with "sql", is what a predicate means: SQL's three-valued  *)
(* logic over the columns as they are shown.  The properties compare each  *)
(* tier that carries a predicate with it.                                  *)
(***************************************************************************)
EXTENDS Integers, Sequences, FiniteSets

CONSTANTS
    Rows,           \* the rows filtered
    Tests,          \* the comparisons, isin(), between()... a user writes
    Common,         \* bound: those of them that meet in threes, not only in pairs
    MaxNodes        \* bound: the expressions made, with the connectives that are still
                    \* to join the ones in hand

\* A text, a number, a boolean, a timestamp, the month it falls in, a measure
Fields == {"text", "num", "flag", "time", "month", "sales"}
Null == -1
Values == {Null} \cup Nat

\* Time is counted in half-days, two to a day and four to a month
Day == 2
Month(t) == IF t = Null THEN Null ELSE 4 * (t \div 4)

(***************************************************************************)
(* A literal's type is all a compiler without a schema has to go by.  A    *)
(* "date" names a whole day and a "datetime" an instant; a "relative" date *)
(* is a string such as "30 days ago", a "none" Python's None.              *)
(***************************************************************************)
LiteralTypes == {"string", "number", "boolean", "date", "datetime", "relative", "none"}
Literals ==
    {lit \in [type : LiteralTypes, v : Values] :
        /\ (lit.type = "none") = (lit.v = Null)
        /\ lit.type = "boolean" => lit.v \in {0, 1}}
IsDate(lit) == lit.type \in {"date", "datetime"}
IsString(lit) == lit.type \in {"string", "relative"}

\* The literals of a field's own type; the warehouse compares it with no others
Fitting == [f \in Fields |->
    {"none"} \cup CASE f = "text" -> {"string"}
                    [] f \in {"num", "sales"} -> {"number"}
                    [] f = "flag" -> {"boolean"}
                    [] f \in {"time", "month"} -> {"date", "datetime", "relative"}]

Comparisons == {"=", "#", "<", "<=", ">", ">="}
TestShapes ==
    [op : {"cmp"}, field : Fields, cmp : Comparisons, lit : Literals]
    \cup [op : {"fields"}, field : Fields, cmp : Comparisons, other : Fields]
    \cup [op : {"isin"}, field : Fields, lits : Seq(Literals) \ {<<>>}]
    \cup [op : {"between"}, field : Fields, low : Literals, high : Literals]
    \cup [op : {"string"}, field : Fields, matches : SUBSET Nat]
    \cup [op : {"field"}, field : Fields]

SqlLiterals(e) ==
    CASE e.op = "cmp" -> {e.lit}
      [] e.op = "isin" -> {e.lits[i] : i \in DOMAIN e.lits}
      [] e.op = "between" -> {e.low, e.high}
      [] OTHER -> {}

ASSUME PredicatesAssumption ==
    /\ Tests \subseteq TestShapes
    /\ \A e \in Tests : \A lit \in SqlLiterals(e) : lit.type \in Fitting[e.field]
    /\ Common \subseteq Tests
    /\ \A r \in Rows : /\ r \in [Fields -> Values]
                       /\ r.month = Month(r.time) /\ r.flag \in {Null, 0, 1}
    /\ MaxNodes \in Nat

VARIABLES
    made,           \* the expressions made so far
    columns,        \* the Columns in hand, the latest last
    filters         \* the predicates filter() has put on the frame

vars == <<made, columns, filters>>

-----------------------------------------------------------------------------
(* Expressions *)

IsLeaf(e) == e.op \notin {"not", "null", "and", "or"}
NotOf(i) == [op |-> "not", arg |-> i]
NullOf(i) == [op |-> "null", arg |-> i]

\* Mutant of Operands: an operand that is the same connective stays whole.
MutNests(op, i) == {i}

\* BooleanOp flattens an operand that is the same connective
Operands(op, i) == IF made[i].op = op THEN made[i].args ELSE {i}
Connected(op, i, j) == [op |-> op, args |-> Operands(op, i) \cup Operands(op, j)]

Leaves == {made[i] : i \in {i \in DOMAIN made : IsLeaf(made[i])}}
NamesField(e) == IF e.op = "fields" THEN {e.field, e.other} ELSE {e.field}

\* A bare field is a predicate when it is a boolean
IsPredicate(i) == made[i].op = "field" => made[i].field = "flag"

-----------------------------------------------------------------------------
(* Three-valued logic, its values ordered so that AND is the least *)

False3 == 0
Unknown == 1
True3 == 2
Lift(b) == IF b THEN True3 ELSE False3
Neg(t) == 2 - t
Least(ts) == CHOOSE t \in ts : \A u \in ts : t <= u
Most(ts) == CHOOSE t \in ts : \A u \in ts : t >= u
Combined(op, ts) == IF op = "and" THEN Least(ts) ELSE Most(ts)

Compare(cmp, a, b) ==
    IF Null \in {a, b} THEN Unknown
    ELSE Lift(CASE cmp = "=" -> a = b [] cmp = "#" -> a # b
                [] cmp = "<" -> a < b [] cmp = "<=" -> a <= b
                [] cmp = ">" -> a > b [] cmp = ">=" -> a >= b)

Range3(v, low, high, upper) == Least({Compare(">=", v, low), Compare(upper, v, high)})

\* between(): numbers include both ends, dates leave the upper one out
UpperBound(high) == IF IsDate(high) THEN "<" ELSE "<="

\* IN is one equality per value, so a None among them is a test that is never true
InSql(v, lits) == Most({Compare("=", v, lits[i].v) : i \in DOMAIN lits})

\* Mutant of InArrow: pc.is_in alone, without the mask.
MutNoMask(v, lits) == Lift(\E i \in DOMAIN lits : lits[i].v = v)

\* Arrow asks a set, which None is a member of; then null operands are masked
InArrow(v, lits) ==
    IF v = Null THEN Unknown ELSE Lift(\E i \in DOMAIN lits : lits[i].v = v)

LeafTruth(engine, e, r) ==
    CASE e.op = "cmp" -> Compare(e.cmp, r[e.field], e.lit.v)
      [] e.op = "fields" -> Compare(e.cmp, r[e.field], r[e.other])
      [] e.op = "isin" -> IF engine = "arrow" THEN InArrow(r[e.field], e.lits)
                          ELSE InSql(r[e.field], e.lits)
      [] e.op = "between" -> Range3(r[e.field], e.low.v, e.high.v, UpperBound(e.high))
      [] e.op = "string" -> IF r[e.field] = Null THEN Unknown
                            ELSE Lift(r[e.field] \in e.matches)
      [] e.op = "field" -> Compare("=", r[e.field], 1)

\* eval_expr, and a WHERE: the same connectives over the two engines' leaves.  A field
\* is unknown where it is null.
Evaluated(T, engine, e, r) ==
    CASE e.op = "not" -> Neg(T[e.arg])
      [] e.op = "null" -> Lift(T[e.arg] = Unknown)
      [] e.op \in {"and", "or"} -> Combined(e.op, {T[j] : j \in e.args})
      [] IsLeaf(e) -> LeafTruth(engine, e, r)

Truth(engine, r) ==
    LET T[i \in DOMAIN made] == Evaluated(T, engine, made[i], r) IN T

-----------------------------------------------------------------------------
(***************************************************************************)
(* Tier 1.  A predicate becomes one entry of query.filters, or "cannot"    *)
(* (CannotCompile: another tier may), or "refused" (CompileError).  The    *)
(* parts of a composite are the filters of the expressions it connects.    *)
(***************************************************************************)
Cannot == [verdict |-> "cannot"]
RefusedFilter == [verdict |-> "refused"]

Filter(type, kind, lits) ==
    [type |-> type, kind |-> kind, lits |-> lits, neg |-> FALSE, parts |-> {}]
Composite(op, places) == [Filter("composite", op, <<>>) EXCEPT !.parts = places]
Entry(key, flt) == [verdict |-> "entry", key |-> key, filter |-> flt]

Negated(flt) == [flt EXCEPT !.neg = ~@]

\* _target: a timestamp grain filters on the bare field, as a date; a measure is a
\* number; of any other field the literal says what it is
IsMeasure(field) == field = "sales"
Key(field) == IF field = "month" THEN "time" ELSE field
Arm(lit) == CASE IsDate(lit) -> "date" [] IsString(lit) -> "string"
              [] OTHER -> lit.type
Kind(field, lit) ==
    IF field = "month" THEN "date" ELSE IF IsMeasure(field) THEN "number" ELSE Arm(lit)

DateKinds == [c \in {"=", "#", ">=", "<"} |->
                CASE c \in {"=", "#"} -> "UNIT" [] c = ">=" -> "ON_OR_AFTER" [] c = "<" -> "BEFORE"]

ComparisonEntry(e) ==
    LET kind == Kind(e.field, e.lit)
        base == IF e.cmp = "#" THEN Negated(Filter(kind, "=", <<e.lit>>))
                ELSE Filter(kind, e.cmp, <<e.lit>>)
        entry(flt) == Entry(Key(e.field), flt)
    IN  CASE e.lit.type = "none" -> RefusedFilter
          [] e.lit.type # "none" /\ kind = "boolean" ->
                \* is_negative is the whole of a boolean filter: is it false?
                IF e.cmp \notin {"=", "#"} THEN Cannot
                ELSE IF (e.cmp = "=") = (e.lit.v = 1) THEN entry(Filter("boolean", "=", <<>>))
                ELSE entry(Negated(Filter("boolean", "=", <<>>)))
          [] e.lit.type # "none" /\ kind = "string" ->
                IF e.cmp \notin {"=", "#"} THEN Cannot ELSE entry(base)
          [] e.lit.type # "none" /\ kind = "number" -> entry(base)
          [] e.lit.type # "none" /\ kind = "date" ->
                IF e.cmp \notin DOMAIN DateKinds THEN Cannot
                ELSE entry([base EXCEPT !.kind = DateKinds[e.cmp]])

\* One entry carries one type, and only text and numbers have a many-valued one
ListEntry(e) ==
    LET kinds == {Kind(e.field, e.lits[i]) : i \in DOMAIN e.lits}
    IN  IF kinds \in {{"string"}, {"number"}}
        THEN Entry(Key(e.field), Filter(CHOOSE k \in kinds : TRUE, "=", e.lits))
        ELSE Cannot

\* The wire's own BETWEEN leaves the upper number out: two inclusive ends instead
BetweenEntry(e) ==
    LET kinds == {Kind(e.field, e.low), Kind(e.field, e.high)}
    IN  CASE kinds = {"number"} ->
                Entry(Key(e.field), Filter("number", "ENDS", <<e.low, e.high>>))
          [] kinds = {"date"} -> Entry(Key(e.field), Filter("date", "BETWEEN", <<e.low, e.high>>))
          [] OTHER -> Cannot

StringEntry(e) ==
    IF IsMeasure(e.field) \/ e.field = "month" THEN Cannot
    ELSE Entry(Key(e.field), Filter("string", "MATCHES", e.matches))

NullEntry(arg) ==
    IF arg.op # "field" \/ IsMeasure(arg.field) THEN Cannot
    ELSE Entry(Key(arg.field), Filter("null", "=", <<>>))

LeafEntry(e) ==
    CASE e.op = "cmp" -> ComparisonEntry(e)
      [] e.op = "fields" -> Cannot
      [] e.op = "isin" -> ListEntry(e)
      [] e.op = "between" -> BetweenEntry(e)
      [] e.op = "string" -> StringEntry(e)
      [] e.op = "field" -> Entry(Key(e.field), Filter("boolean", "=", <<>>))

\* The operands are compiled in the order they were made in and the first failure is the
\* answer; across fields there is no entry to put the connective in
First(places) == CHOOSE i \in places : \A j \in places : i <= j
FailedAt(E, places) == {i \in places : E[i].verdict # "entry"}
SameField(op, places, E) ==
    IF FailedAt(E, places) # {} THEN E[First(FailedAt(E, places))]
    ELSE IF \E i, j \in places : E[i].key # E[j].key THEN Cannot
    ELSE Entry(E[First(places)].key, Composite(op, places))

NegatedEntry(entry) ==
    IF entry.verdict = "entry" THEN [entry EXCEPT !.filter = Negated(@)] ELSE entry

CompilePredicate(E, e) ==
    CASE e.op = "not" -> NegatedEntry(E[e.arg])
      [] e.op = "null" -> NullEntry(made[e.arg])
      [] e.op \in {"and", "or"} -> SameField(e.op, e.args, E)
      [] IsLeaf(e) -> LeafEntry(e)

Entries == LET E[i \in DOMAIN made] == CompilePredicate(E, made[i]) IN E

\* The filters of a frame are one conjunction, flattened
Conjuncts == UNION {Operands("and", i) : i \in filters}

\* Mutant of Merged: the last condition on a field replaces the ones before it.
MutLastWins(E, key) ==
    {i \in Conjuncts : E[i].key = key /\ \A j \in Conjuncts : E[j].key = key => j <= i}

\* One entry per field: several conditions on it merge into a composite
Merged(E, key) == {i \in Conjuncts : E[i].key = key}

FilterSet(E) == [key \in {E[i].key : i \in Conjuncts} |-> Merged(E, key)]

CompileFilters(E) ==
    IF FailedAt(E, Conjuncts) # {} THEN E[First(FailedAt(E, Conjuncts))]
    ELSE [verdict |-> "filters", entries |-> FilterSet(E)]

-----------------------------------------------------------------------------
(***************************************************************************)
(* The server's reading of a filter entry (tests/fakes/engine.py; the unit *)
(* of a date literal: docs/CONTRACT_NOTES.md 3.1).  is_negative is NOT.    *)
(***************************************************************************)
UnitOf(lit) == IF lit.type = "datetime" THEN 1 ELSE Day

ArmTruth(flt, v) ==
    CASE flt.type = "null" -> Lift(v = Null)
      [] flt.type = "boolean" -> Compare("=", v, 1)
      [] flt.kind = "MATCHES" -> IF v = Null THEN Unknown ELSE Lift(v \in flt.lits)
      [] flt.kind = "UNIT" ->
            Range3(v, flt.lits[1].v, flt.lits[1].v + UnitOf(flt.lits[1]), "<")
      [] flt.kind = "ON_OR_AFTER" -> Compare(">=", v, flt.lits[1].v)
      [] flt.kind = "BEFORE" -> Compare("<", v, flt.lits[1].v)
      [] flt.kind = "BETWEEN" -> Range3(v, flt.lits[1].v, flt.lits[2].v, "<")
      [] flt.kind = "ENDS" -> Range3(v, flt.lits[1].v, flt.lits[2].v, "<=")
      [] flt.kind = "=" /\ flt.type \in {"string", "number"} -> InSql(v, flt.lits)
      [] flt.kind \in {"<", "<=", ">", ">="} -> Compare(flt.kind, v, flt.lits[1].v)

Signed(flt, t) == IF flt.neg THEN Neg(t) ELSE t

\* Composites and is_negative included
Answered(E, S, i, v) ==
    LET flt == E[i].filter
    IN  IF E[i].verdict # "entry" THEN Unknown
        ELSE Signed(flt, IF flt.type = "composite" THEN Combined(flt.kind, {S[j] : j \in flt.parts})
                         ELSE ArmTruth(flt, v))

ServerTruth(E, v) == LET S[i \in DOMAIN made] == Answered(E, S, i, v) IN S

-----------------------------------------------------------------------------
(***************************************************************************)
(* Tier 2: the text is read back by the precedence of SQL's operators.     *)
(* Not renders as NOT (...), and IsNull puts nothing around its operand,   *)
(* so NOT (p) IS NULL is NOT ((p) IS NULL).                                *)
(***************************************************************************)
\* What is read at a place, and what is read there with IS NULL after it
Reread(R, e, r) ==
    LET is == CASE e.op = "not" -> Neg(R[e.arg].is)
                [] e.op = "null" -> R[e.arg].null
                [] e.op \in {"and", "or"} -> Combined(e.op, {R[j].is : j \in e.args})
                [] IsLeaf(e) -> LeafTruth("sql", e, r)
    IN  [is |-> is, null |-> IF e.op = "not" THEN Neg(R[e.arg].null) ELSE Lift(is = Unknown)]

ReadBack(r) == LET R[i \in DOMAIN made] == Reread(R, made[i], r) IN R

\* A comparison to None, a relative date, a grain in a WHERE: none is written
SqlRefuses(e) ==
    \/ "month" \in NamesField(e)
    \/ \E lit \in SqlLiterals(e) : lit.type = "relative"
    \/ e.op = "cmp" /\ e.lit.type = "none"

-----------------------------------------------------------------------------
(* The tiers: whether they carry the filters of a frame, and the rows they keep *)

Tiers == 1 .. 3

\* The local engine evaluates anything but Omni's date grammar
LocalRefuses(e) ==
    /\ NamesField(e) \cap {"time", "month"} # {}
    /\ \E lit \in SqlLiterals(e) : IsString(lit)

Carries(tier) ==
    CASE tier = 1 -> CompileFilters(Entries).verdict = "filters"
      [] tier = 2 -> \A e \in Leaves : ~SqlRefuses(e)
      [] tier = 3 -> \A e \in Leaves : ~LocalRefuses(e)

PassingFilters(E, entries) ==
    {r \in Rows : \A key \in DOMAIN entries :
        Combined("and", {ServerTruth(E, r[key])[i] : i \in entries[key]}) = True3}
Passing(engine) == {r \in Rows : \A i \in filters : Truth(engine, r)[i] = True3}

\* A filter keeps the rows its predicate is true of: neither false nor null
Kept(tier) ==
    CASE tier = 1 -> PassingFilters(Entries, CompileFilters(Entries).entries)
      [] tier = 2 -> {r \in Rows : \A i \in filters : ReadBack(r)[i].is = True3}
      [] tier = 3 -> Passing("arrow")

Meant == Passing("sql")

-----------------------------------------------------------------------------
(* The methods of Column, and filter() *)

\* A method makes one expression, of the Columns that were in hand
Make(e, rest) ==
    /\ Len(made) + Len(rest) < MaxNodes
    /\ made' = Append(made, e)
    /\ columns' = Append(rest, Len(made) + 1)
    /\ UNCHANGED filters

\* A comparison, isin(), between(), contains()..., or a bare column
Several == Cardinality({i \in DOMAIN made : IsLeaf(made[i])}) > 1
Write ==
    \E t \in Tests :
        /\ Several => Leaves \cup {t} \subseteq Common
        /\ Make(t, columns)

Top == columns[Len(columns)]
Below == columns[Len(columns) - 1]
Without(k) == SubSeq(columns, 1, Len(columns) - k)

Invert == columns # <<>> /\ IsPredicate(Top) /\ Make(NotOf(Top), Without(1))

\* Bound: the columns and the compound predicates a user asks this of; SQL has no one
\* reading of "a = b IS NULL"
IsNull ==
    /\ columns # <<>>
    /\ made[Top].op \in {"field", "not", "and", "or"}
    /\ Make(NullOf(Top), Without(1))

Connect(op) ==
    /\ Len(columns) > 1
    /\ IsPredicate(Top) /\ IsPredicate(Below)
    /\ Make(Connected(op, Below, Top), Without(2))

FilterBy ==
    /\ Len(columns) = 1
    /\ IsPredicate(Top)
    /\ filters' = filters \cup {Top}
    /\ columns' = <<>>
    /\ UNCHANGED made

Init == made = <<>> /\ columns = <<>> /\ filters = {}

Next == Write \/ Invert \/ IsNull \/ Connect("and") \/ Connect("or") \/ FilterBy

Spec == Init /\ [][Next]_vars

-----------------------------------------------------------------------------
(* Properties *)

Connectives == [op : {"not", "null"}, arg : Nat] \cup [op : {"and", "or"}, args : SUBSET Nat]
Operated(e) ==
    CASE e.op \in {"not", "null"} -> {e.arg}
      [] e.op \in {"and", "or"} -> e.args
      [] IsLeaf(e) -> {}

\* An operand was made before what is made of it, and no connective is right below itself
TypeOK ==
    /\ made \in Seq(Tests \cup Connectives)
    /\ \A i \in DOMAIN made : Operated(made[i]) \subseteq 1 .. i - 1
    /\ \A i \in DOMAIN made : made[i].op \in {"and", "or"} =>
          made[i].args # {} /\ \A j \in made[i].args : made[j].op # made[i].op
    /\ columns \in Seq(DOMAIN made)
    /\ filters \subseteq DOMAIN made

\* filter() was called last: all that was made is on the frame
Settled == columns = <<>> /\ filters # {}

\* The three places where the tiers part (see PredicatesAgree).

\* a date as tier 1 reads it: a day has hours in it, and a month's column is not tested
Calendar(e) ==
    \/ e.op = "cmp" /\ IsDate(e.lit) /\ e.cmp \in {"=", "#"}
    \/ e.field = "month"

\* a None among the values of isin(), which only a negation shows
NullListed ==
    /\ \E e \in Leaves : e.op = "isin" /\ \E i \in DOMAIN e.lits : e.lits[i].type = "none"
    /\ \E i \in DOMAIN made : made[i].op \in {"not", "null"}

\* is_null() of a negation, which tier 2 writes without its parentheses
NullOfNot == \E i \in DOMAIN made : made[i].op = "null" /\ made[made[i].arg].op = "not"

Parted(tier) ==
    CASE tier = 1 -> \E e \in Leaves : Calendar(e)
      [] tier = 2 -> NullOfNot
      [] tier = 3 -> NullListed

\* Remote and local execution of the same predicate agree (docs/mental-model.md:445):
\* every tier that carries the filters of a frame keeps the rows they mean, nulls,
\* negations, and several conditions on one field included; the exceptions are named.
TiersAgree ==
    Settled => \A tier \in Tiers : Carries(tier) /\ ~Parted(tier) => Kept(tier) = Meant

\* A negated predicate never resurrects NULLs (docs/mental-model.md:467): a row that is
\* null wherever the filters look is kept by no tier, unless one of them asks for null.
NullsStayOut ==
    (Settled /\ \A i \in DOMAIN made : made[i].op # "null") =>
        \A tier \in Tiers : Carries(tier) =>
            \A r \in Kept(tier) : \E e \in Leaves : \E f \in NamesField(e) : r[f] # Null

\* "remote and local execution of the same predicate agree" (docs/mental-model.md:445-446),
\* without exception.
PredicatesAgree ==
    Settled => \A tier \in Tiers : Carries(tier) => Kept(tier) = Meant
=============================================================================

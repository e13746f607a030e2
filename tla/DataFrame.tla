----------------------------- MODULE DataFrame -----------------------------
(***************************************************************************)
(* dataframe.py: a frame is a lazy plan its methods grow one step at a     *)
(* time, and an action (collect, first, show) compiles and runs it.        *)
(*                                                                         *)
(* The methods say what the user asked for; Meaning below is the answer to *)
(* that, read off the steps in the order they were written.  The tiers,    *)
(* the splitter and the local engine (module Splitter) choose where the    *)
(* steps run.  The properties compare the two.                             *)
(***************************************************************************)
EXTENDS Splitter

CONSTANTS
    Sessions,       \* the sources and session knobs a frame may start from
    Alphabet,       \* the filters, projections and derived columns a user writes
    MaxSteps,       \* bound: the steps of a plan,
    LongSessions,   \* and one step more of these sessions
    LongAlphabet    \* in these words

ASSUME DataFrameAssumption ==
    /\ Sessions \subseteq Options
    /\ Alphabet \subseteq Filters \cup Selects \cup Groups \cup Derives
    /\ MaxSteps \in Nat
    /\ LongSessions \subseteq Options /\ LongAlphabet \subseteq Alphabet

VARIABLES
    options,        \* the frame's source and its session's knobs
    plan,           \* _plan: the steps, innermost first
    outcome         \* what the last action on this frame came to

vars == <<options, plan, outcome>>

NoOutcome == [action |-> "none"]

\* The limits a user writes: one count, or everything
UserLimits == {2, Unlimited}
PreviewRows == {1, 2}

-----------------------------------------------------------------------------
(***************************************************************************)
(* What a user can sensibly name.  Each of these guards is a bound of the  *)
(* model: the steps it leaves out have no agreed meaning to compare with.  *)
(***************************************************************************)
SchemaKnown == At(plan, {"pandas"}) = {}
Visible == Outputs(options, plan)
Grouped == \E i \in Cores(plan) : ColumnsOf(plan[i]) \cap Aggregates # {}

\* A dimension can be filtered on whether or not it is selected (unless a test of
\* an aggregate came first: which of the two is then meant to apply first?);
\* anything else must be a column of the frame
Tested == FilteredAt(plan, At(plan, {"filter"}))
CanFilter(s) == s.col \in Visible \/ (s.col \in Dimensions /\ Tested \cap Aggregates = {})

\* A governed frame is not projected to its dimensions alone (that would ungroup
\* it); it may be regrouped by its measures, unless a test of one came first
CanSelect == ~Grouped
MayRegroup(aggs) ==
    /\ aggs \subseteq Measures
    /\ \A i \in Cores(plan) : ColumnsOf(plan[i]) \cap AdHoc = {}
    /\ Tested \cap Aggregates = {}

\* The order under a group-by says nothing, except about which rows a limit kept
OrderMatters ==
    \E i, j \in DOMAIN plan : i < j /\ plan[i].op = "sort" /\ plan[j].op = "limit"
CanGroup(aggs) ==
    /\ Grouped => MayRegroup(aggs)
    /\ At(plan, {"sort"}) # {} => OrderMatters

CanDerive(s) == s.from \in Visible \/ ~Grouped

Allowed(s) ==
    CASE s.op = "filter" -> CanFilter(s)
      [] s.op = "select" ->
            IF s.cols \cap Aggregates = {} THEN CanSelect ELSE CanGroup(s.cols \cap Aggregates)
      [] s.op = "agg" -> CanGroup(s.aggs)
      [] s.op = "derive" -> CanDerive(s)

-----------------------------------------------------------------------------
(* The methods that build a frame *)

\* Bound: the length of a plan
Within(p) ==
    \/ Len(p) <= MaxSteps
    \/ /\ Len(p) = MaxSteps + 1 /\ options \in LongSessions
       /\ \A i \in At(p, {"select", "agg", "filter", "derive"}) : p[i] \in LongAlphabet

Build(p) ==
    /\ Within(p)
    /\ plan' = p
    /\ outcome' = NoOutcome
    /\ UNCHANGED options

LastIs(op) == plan # <<>> /\ Last(plan).op = op

\* select, group_by().agg, filter and with_column each put a node on top
Transform(op) ==
    \E s \in Alphabet :
        /\ s.op = op
        /\ Build(Append(plan, s))
        /\ SchemaKnown /\ Allowed(s)

\* A later sort() replaces the one it is written on
Sorted(p) ==
    IF p # <<>> /\ Last(p).op = "sort" THEN p ELSE Append(p, [op |-> "sort"])

Sort == SchemaKnown /\ Build(Sorted(plan))

\* Two limits compose to the tighter; an existing limit beats None
Tightest(current, requested) ==
    IF current = Unset THEN requested
    ELSE IF requested = Unlimited THEN current
    ELSE IF current = Unlimited THEN requested
    ELSE IF current < requested THEN current ELSE requested

LimitedTo(p, n) ==
    IF p # <<>> /\ Last(p).op = "limit"
    THEN Append(Front(p), Limit(Tightest(Last(p).n, n), Last(p).offset))
    ELSE Append(p, Limit(n, 0))

\* Mutant of Skipping: the sign of a repeated offset.
MutRewind(p, k) ==
    IF p # <<>> /\ Last(p).op = "limit"
    THEN Append(Front(p), Limit(Last(p).n, Last(p).offset - k))
    ELSE Append(p, Limit(Unset, k))

\* offset() accumulates, and travels with the limit it is written on
Skipping(p, k) ==
    IF p # <<>> /\ Last(p).op = "limit"
    THEN Append(Front(p), Limit(Last(p).n, Last(p).offset + k))
    ELSE Append(p, Limit(Unset, k))

LimitRows == \E n \in UserLimits : Build(LimitedTo(plan, n))
\* Bound: a limit is offset once
Offset == (LastIs("limit") => Last(plan).offset = 0) /\ Build(Skipping(plan, 1))

\* map_pandas without a schema hint, with a function that reverses the rows
MapPandas == Build(Append(plan, [op |-> "pandas"]))

-----------------------------------------------------------------------------
(* The actions that run it *)

Act(action, n, p, warn) ==
    /\ outcome = NoOutcome
    /\ outcome' = [action |-> action, n |-> n, result |-> Execute(options, p, warn)]
    /\ UNCHANGED <<options, plan>>

Collect == Act("collect", Unset, plan, TRUE)

\* first() takes one row, show(n) one more than it prints; neither warns of a
\* limit of the user's own
Preview == \E n \in PreviewRows : Act("preview", n, LimitedTo(plan, n), FALSE)

Init == options \in Sessions /\ plan = <<>> /\ outcome = NoOutcome

Next ==
    \/ Transform("select") \/ Transform("agg")
    \/ Transform("filter") \/ Transform("derive")
    \/ Sort \/ LimitRows \/ Offset \/ MapPandas
    \/ Collect \/ Preview

Spec == Init /\ [][Next]_vars

-----------------------------------------------------------------------------
(***************************************************************************)
(* What a plan means, in the order it was written, with no limits but the  *)
(* ones it names.  A row of the answer remembers the source rows it stands *)
(* for ("of"), so that a measure is the count of them and a dimension      *)
(* nobody selected can still be filtered on, and the values that later     *)
(* steps put in place of a column ("over").                                *)
(***************************************************************************)
ValueOf(r, col) ==
    IF col \in DOMAIN r.over THEN r.over[col]
    ELSE IF col = "sales" THEN Len(r.of)
    ELSE Head(r.of)[col]

With(r, col, v) ==
    [r EXCEPT !.over = [c \in DOMAIN r.over \cup {col} |-> IF c = col THEN v ELSE r.over[c]]]

Known(r, keys) == [c \in keys |-> ValueOf(r, c)]

\* One row per distinct key, in order of first appearance
Merged(t, keys, aggs) ==
    LET found == FoldLeft(LAMBDA seen, r : IF Contains(seen, Known(r, keys)) THEN seen
                                           ELSE Append(seen, Known(r, keys)), <<>>, t)
        Members(k) == SelectSeq(t, LAMBDA r : Known(r, keys) = found[k])
        Ages(k) == {ValueOf(Members(k)[i], "age") : i \in DOMAIN Members(k)}
    IN  [k \in DOMAIN found |->
            [of |-> FlattenSeq([i \in DOMAIN Members(k) |-> Members(k)[i].of]),
             over |-> [c \in keys \cup (aggs \cap AdHoc) |->
                           IF c \in keys THEN found[k][c] ELSE Cardinality(Ages(k))]]]

\* A test of a source dimension is a WHERE, wherever it is written: it keeps
\* the source rows that pass.  A test of a computed column keeps whole rows.
Filtered(t, col) ==
    LET Narrow(r) ==
            IF col \in Dimensions \ DOMAIN r.over
            THEN [r EXCEPT !.of = SelectSeq(@, LAMBDA b : Holds(col, b[col]))]
            ELSE IF Holds(col, ValueOf(r, col)) THEN r ELSE [r EXCEPT !.of = <<>>]
    IN  SelectSeq([i \in DOMAIN t |-> Narrow(t[i])], LAMBDA r : r.of # <<>>)

ByState(t) ==
    LET states == SetToSortSeq({ValueOf(t[i], "state") : i \in DOMAIN t}, >)
    IN  FlattenSeq([k \in DOMAIN states |->
                        SelectSeq(t, LAMBDA r : ValueOf(r, "state") = states[k])])

Does(t, s) ==
    CASE s.op = "select" ->
            IF s.cols \cap Aggregates = {} THEN t
            ELSE Merged(t, s.cols \cap Dimensions, s.cols \cap Aggregates)
      [] s.op = "agg" -> Merged(t, Keys, s.aggs)
      [] s.op = "filter" -> Filtered(t, s.col)
      [] s.op = "sort" -> ByState(t)
      [] s.op = "limit" -> LocalLimit(t, s.n, s.offset)
      [] s.op = "derive" ->
            [i \in DOMAIN t |-> With(t[i], s.name, DerivedFrom(ValueOf(t[i], s.from)))]
      [] s.op = "pandas" -> Reverse(t)

\* A stored query's own limit is part of what was asked
SourceRows(o) ==
    LET asked == IF o.source = "storedLimited" THEN LocalLimit(Rows, StoredLimit, 0) ELSE Rows
    IN  [i \in DOMAIN asked |-> [of |-> <<asked[i]>>, over |-> <<>>]]

Meaning(o, p) == FoldLeft(Does, SourceRows(o), p)

MeansOn(o, p, cols) ==
    LET rows == Meaning(o, p)
    IN  [i \in DOMAIN rows |-> [c \in cols |-> ValueOf(rows[i], c)]]

-----------------------------------------------------------------------------
(* Properties *)

\* The plan the last action ran
Asked == IF outcome.action = "collect" THEN plan ELSE LimitedTo(plan, outcome.n)

Ran == outcome.action # "none" /\ outcome.result.ok

Complete ==
    LET answer == outcome.result
    IN  /\ OutputsKnown(options, Asked) => answer.cols = Outputs(options, Asked)
        /\ answer.rows = MeansOn(options, Asked, answer.cols)

\* A governed selection that something above it makes local, where it is not grouped
\* again: it has a key too many, one widening adds for a step on a dimension it does not
\* select or one a second selection leaves out, or the second selects a key that was
\* redefined between them (see OneRowPerGroup)
GovernedSelect(s) == s.op = "select" /\ "sales" \in s.cols
Redefined(i, j) == NamesAt(plan, At(plan, {"derive"}) \cap i .. j) \cap Dimensions # {}
Regrouped ==
    \E i, j \in DOMAIN plan :
        /\ i < j
        /\ GovernedSelect(plan[i])
        /\ \/ plan[j].op = "filter" /\ plan[j].col \in Dimensions \ plan[i].cols
           \/ GovernedSelect(plan[j]) /\ (plan[i].cols # plan[j].cols \/ Redefined(i, j))
        /\ CompileSemantic(options, SubSeq(plan, 1, j)).verdict = "cannot"

\* A column tested and then redefined, in one tier-2 statement (see OrderKept)
Shadowed ==
    /\ options.source = "topic" /\ options.sql
    /\ \E i, j \in DOMAIN plan :
           /\ i < j
           /\ plan[i].op = "filter" /\ plan[i].kind \in {"wire", "sql"}
           /\ plan[j].op = "derive" /\ plan[j].kind = "sql"
           /\ plan[i].col = plan[j].name

TypeOK ==
    /\ options \in Options
    /\ plan \in Seq(Steps)
    /\ Len(plan) <= MaxSteps + 1
    /\ outcome.action \in {"none", "collect", "preview"}

\* collect() answers the question the frame was built to ask, whichever tier or
\* mixture of tiers each step went to, or it warns that rows may be missing.
CompleteUnlessWarned ==
    Ran /\ outcome.action = "collect" /\ ~outcome.result.warned /\ ~Regrouped /\ ~Shadowed
        => Complete

\* first() and show() warn of nothing but a full step the user set no limit of;
\* the preview is otherwise of the right rows (a stored query without a limit
\* aside, see ScansAlwaysWarn).
PreviewComplete ==
    Ran /\ outcome.action = "preview" /\ ~outcome.result.warned /\ ~Regrouped /\ ~Shadowed
        /\ options.source # "stored" => Complete

(***************************************************************************)
(* What the repository says and the code does not do.                      *)
(***************************************************************************)

\* "An intermediate scan always warns: nobody asked for its limit"
\* (executor.py:63): so a preview that shows the wrong rows says so.
ScansAlwaysWarn ==
    Ran /\ outcome.action = "preview" /\ ~outcome.result.warned /\ options.source = "stored"
        => Complete

\* "selecting dimensions together with governed measures is the group-by, so
\* select(state, measure) returns one row per state" (dataframe.py:123).
OneRowPerGroup ==
    Ran /\ plan # <<>> /\ Cores(plan) # {} /\ GovernedSelect(plan[Outermost(plan)])
        /\ At(plan, {"derive"}) = {} =>
        LET rows == outcome.result.rows
            key(i) == Over(rows[i], outcome.result.cols \cap Dimensions)
        IN  \A i, j \in DOMAIN rows : key(i) = key(j) => i = j

\* Widening asks the query for "bare dimensions/grains only" (HYBRID.md 2.2): so
\* no step is sent a field the model does not have.
FieldsExist == outcome.action # "none" => outcome.result # Rejected

\* SQL pushdown and local execution must agree (SQLTIER.md:285), so steps keep
\* the order they were written in: a test above a column reads what it was then.
OrderKept ==
    Ran /\ outcome.action = "collect" /\ ~outcome.result.warned /\ ~Regrouped => Complete
=============================================================================

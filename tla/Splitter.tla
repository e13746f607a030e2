------------------------------ MODULE Splitter ------------------------------
(***************************************************************************)
(* How a frame's plan is compiled and run: tier 1 (compile/semantic.py),   *)
(* tier 2 (compile/sqlgen.py), the splitter between them and the local     *)
(* engine (compile/splitter.py) and the executor (compile/executor.py).    *)
(*                                                                         *)
(* A plan is its source and the sequence of steps above it, innermost      *)
(* first; a prefix is a subtree.  Compiling decides where each step runs,  *)
(* executing runs it, and neither looks at the other's data, so the model  *)
(* does both in one walk: Split is the table a subtree ends up with and    *)
(* the warnings its steps earned.  One input, one group key, no aliases    *)
(* (join, union and renaming are left out).                                *)
(*                                                                         *)
(* A frame's options o hold its source, the session's                      *)
(* decomposition_row_cap and whether tier 2 may be used (disable_sql).     *)
(***************************************************************************)
EXTENDS Tables

CONSTANTS
    Rows,           \* the rows behind the topic, the SQL job or the stored query
    FetchLimit,     \* DEFAULT_FETCH_LIMIT: what omniframes sends when nobody chose
    ServerLimit,    \* DEFAULT_SERVER_LIMIT: what the server fills in for an absent key
    StoredLimit     \* the limit a stored query may carry

Sources == {"topic", "sql", "stored", "storedLimited", "storedAll"}

ASSUME SplitterAssumption ==
    /\ Rows \in Seq([Dimensions -> Nat \ {0}])
    /\ {FetchLimit, ServerLimit, StoredLimit} \subseteq Nat \ {0}

Options == [source : Sources, cap : {Unlimited} \cup Nat, sql : BOOLEAN]

(***************************************************************************)
(* A filter's kind says which tiers can carry it: a "wire" filter both, a  *)
(* relative "date" only tier 1, an arithmetic or cross-field one ("sql")   *)
(* only tier 2, a "udf" neither.                                           *)
(***************************************************************************)
Filters == [op : {"filter"}, col : Columns,
            kind : {"wire", "date", "sql", "udf"}]
Selects == [op : {"select"}, cols : SUBSET Columns]
Groups == [op : {"agg"}, aggs : SUBSET Aggregates]
SortSteps == [op : {"sort"}]
LimitSteps == [op : {"limit"}, n : Limits, offset : Nat]
Derives == [op : {"derive"}, name : {"age", "derived"}, from : Dimensions,
            kind : {"sql", "udf"}]
Pandas == [op : {"pandas"}]
Steps == Filters \cup Selects \cup Groups \cup SortSteps \cup LimitSteps \cup Derives
         \cup Pandas

Select(cols) == [op |-> "select", cols |-> cols]
Limit(n, offset) == [op |-> "limit", n |-> n, offset |-> offset]
Group(aggs) == [op |-> "agg", aggs |-> aggs]

Keys == {"state"}
IsCore(s) == s.op \in {"select", "agg"}
ColumnsOf(core) == IF core.op = "select" THEN core.cols ELSE Keys \cup core.aggs

At(p, ops) == {i \in DOMAIN p : p[i].op \in ops}
Cores(p) == At(p, {"select", "agg"})
Above(p, core, ops) == {i \in At(p, ops) : i > core}
Below(p, core, ops) == {i \in At(p, ops) : i < core}
FilteredAt(p, places) == {p[i].col : i \in places}
NamesAt(p, places) == {p[i].name : i \in places}
KindsIn(p, ops) == {p[i].kind : i \in At(p, ops)}

Opaque(o) == o.source # "topic"
Stored(o) == Opaque(o) /\ o.source # "sql"

-----------------------------------------------------------------------------
(***************************************************************************)
(* Tier 1.  A verdict is a query, "cannot" (CannotCompile: try further     *)
(* down) or "refused" (CompileError: the user is told).                    *)
(***************************************************************************)
Cannot == [verdict |-> "cannot"]
RefusedQuery == [verdict |-> "refused"]

\* The limit and offset of a plan whose last step is one
LimitOf(p) == IF p # <<>> /\ Last(p).op = "limit" THEN Last(p) ELSE Limit(Unset, 0)

\* "where" filters the model's rows, "after" the rows the query produces, once
\* grouped and with the columns it derives
Query(p, fields, keys, where, after, derives) ==
    [verdict |-> "query", fields |-> fields, keys |-> keys, where |-> where, after |-> after,
     derives |-> derives, sorted |-> At(p, {"sort"}) # {},
     limit |-> LimitOf(p).n, offset |-> LimitOf(p).offset]

\* Mutant of SemanticShape: a limit below a filter or a sort goes unnoticed.
MutLimitAnywhere(p) ==
    /\ At(p, {"derive", "pandas"}) = {}
    /\ \A i \in At(p, {"agg"}) : p[i].aggs \subseteq Measures
    /\ Cardinality(At(p, {"sort"})) <= 1

\* _match: the operator order is one the query API applies
SemanticShape(p) ==
    /\ At(p, {"derive", "pandas"}) = {}
    /\ \A i \in At(p, {"agg"}) : p[i].aggs \subseteq Measures
    /\ At(p, {"limit"}) \subseteq {Len(p)}
    /\ Cardinality(At(p, {"sort"})) <= 1

\* _compose_projects: each projection only narrows the one below it
Composes(p) ==
    \A i, j \in Cores(p) : i < j => ColumnsOf(p[j]) \subseteq ColumnsOf(p[i])

Outermost(p) == CHOOSE i \in Cores(p) : \A j \in Cores(p) : j <= i

CompileSemantic(o, p) ==
    LET filtered == FilteredAt(p, At(p, {"filter"}))
    IN  IF ~SemanticShape(p) THEN Cannot
        ELSE IF Opaque(o)
        THEN IF p = <<>> THEN Query(p, Dimensions, {}, {}, {}, <<>>) ELSE Cannot
        ELSE IF Cores(p) = {} \/ ~Composes(p) THEN RefusedQuery
        ELSE IF ~(KindsIn(p, {"filter"}) \subseteq {"wire", "date"}) THEN Cannot
        ELSE LET fields == ColumnsOf(p[Outermost(p)])
             IN  Query(p, fields, fields \cap Dimensions, filtered \ Aggregates,
                       filtered \cap Aggregates, <<>>)

-----------------------------------------------------------------------------
(***************************************************************************)
(* Tier 2: one core, and what one SELECT can say around it.                *)
(***************************************************************************)
SqlShape(p) ==
    /\ Cardinality(Cores(p)) = 1
    /\ At(p, {"pandas"}) = {}
    /\ At(p, {"limit"}) \subseteq {Len(p)}
    /\ Cardinality(At(p, {"sort"})) <= 1
    /\ At(p, {"sort", "derive"}) = Above(p, Outermost(p), {"sort", "derive"})

\* _partition and the derived columns: above an aggregate only its keys, its
\* aggregates and what was derived from them still exist, and a key stays
SqlReferences(p) ==
    LET core == Outermost(p)
        cols == ColumnsOf(p[core])
        derives == Above(p, core, {"derive"})
    IN  cols \cap Aggregates = {} \/
        /\ FilteredAt(p, Above(p, core, {"filter"})) \subseteq cols \cup NamesAt(p, derives)
        /\ NamesAt(p, derives) \cap cols = {}
        /\ \A i \in derives :
              p[i].from \in cols \cup NamesAt(p, {j \in derives : j < i})

\* A filter above the core names the statement's output columns, and _partition
\* reads each name by its last definition, wherever the filter was written
CompileSql(o, p) ==
    LET core == Outermost(p)
        cols == ColumnsOf(p[core])
        derives == SelectSeq(p, LAMBDA s : s.op = "derive")
    IN  IF /\ o.sql
           /\ ~Opaque(o)
           /\ SqlShape(p)
           /\ SqlReferences(p)
           /\ KindsIn(p, {"filter"}) \subseteq {"wire", "sql"}
           /\ KindsIn(p, {"derive"}) \subseteq {"sql"}
        THEN Query(p, cols \cup NamesAt(p, At(p, {"derive"})), cols \cap Dimensions,
                   FilteredAt(p, Below(p, core, {"filter"})),
                   FilteredAt(p, Above(p, core, {"filter"})), derives)
        ELSE Cannot

-----------------------------------------------------------------------------
(***************************************************************************)
(* The server (external).  A query that names an aggregate, selected or    *)
(* in a HAVING, groups by its keys.                                        *)
(***************************************************************************)
Answer(q) ==
    LET kept == SelectSeq(Rows, LAMBDA r : \A c \in q.where : Holds(c, r[c]))
        ordered == IF q.sorted THEN LocalSort(kept) ELSE kept
        aggs == (q.fields \cup q.after) \cap Aggregates
        grouped == IF aggs = {} THEN ordered
                   ELSE LocalAggregate(ordered, q.keys, aggs)
        derived == FoldLeft(LAMBDA t, s : LocalWithColumn(t, s.name, s.from),
                            grouped, q.derives)
        passed == SelectSeq(derived, LAMBDA r : \A c \in q.after : Holds(c, r[c]))
    IN  LocalProject(passed, q.fields)

\* The model has no such field: the job fails
Unknown(q) == q.fields \ (Dimensions \cup Aggregates \cup NamesAt(q.derives, DOMAIN q.derives)) # {}

\* effective_limit, and envelope_limit of a stored query sent verbatim
AppliedLimit(o, q) ==
    IF ~Stored(o) THEN (IF q.limit = Unset THEN FetchLimit ELSE q.limit)
    ELSE CASE o.source = "stored" -> ServerLimit
           [] o.source = "storedLimited" -> StoredLimit
           [] o.source = "storedAll" -> Unlimited

\* _step: user_limit is "the compiled query's limit is not UNSET", and
\* _blob_limit describes a stored query, with or without the key, by a value
UserLimit(o, q) == Stored(o) \/ q.limit # Unset

-----------------------------------------------------------------------------
(***************************************************************************)
(* Frames: the table a subtree ends up with.  "planned" is the part of its *)
(* columns the compiler knows by name (none of a raw-SQL job's).  "alarm"  *)
(* says that a step under it came back full and warns whatever the action  *)
(* asked for, "notice" that one did whose limit counts as the user's own.  *)
(***************************************************************************)
Refused == [ok |-> FALSE, why |-> "refused"]
Rejected == [ok |-> FALSE, why |-> "rejected"]

\* One remote step and _truncation: rows returned == the limit it applied
Remote(o, q, userLimit) ==
    LET limit == AppliedLimit(o, q)
        rows == LocalLimit(Answer(q), limit, q.offset)
        full == limit # Unlimited /\ Len(rows) = limit
    IN  IF Unknown(q) THEN Rejected
        ELSE [ok |-> TRUE, rows |-> rows, cols |-> q.fields, remote |-> TRUE,
              planned |-> IF o.source = "sql" THEN {} ELSE q.fields,
              alarm |-> full /\ ~userLimit, notice |-> full /\ userLimit]

\* Stack one more local operator on a frame (_Frame.then)
Then(f, rows, cols, planned) ==
    [f EXCEPT !.rows = rows, !.cols = cols, !.planned = planned, !.remote = FALSE]

\* decomposition_row_cap applied here, and _local_truncation
Capped(f, cap) ==
    LET cut == LocalLimit(f.rows, cap, 0)
    IN  [Then(f, cut, f.cols, f.planned) EXCEPT !.alarm = @ \/ Len(cut) = cap]

\* The two halves of one aggregate; each warns for itself
Joined(g, a) ==
    [ok |-> TRUE, rows |-> AlignJoin(g.rows, a.rows), cols |-> Keys \cup Aggregates,
     planned |-> Keys \cup Aggregates, remote |-> FALSE,
     alarm |-> g.alarm \/ a.alarm, notice |-> g.notice \/ a.notice]

-----------------------------------------------------------------------------
(***************************************************************************)
(* What a subtree is known to produce (_outputs, _names), and the columns  *)
(* a local step needs from below.                                          *)
(***************************************************************************)
Reshaped(p) == SelectLastInSeq(p, LAMBDA s : s.op \in {"select", "agg", "pandas"})

OutputsKnown(o, p) ==
    IF Reshaped(p) = 0 THEN Stored(o) ELSE p[Reshaped(p)].op # "pandas"

Outputs(o, p) ==
    LET j == Reshaped(p)
        base == IF j = 0 THEN Dimensions ELSE ColumnsOf(p[j])
    IN  base \cup NamesAt(p, Above(p, j, {"derive"}))

Names(o, p) == IF OutputsKnown(o, p) THEN Outputs(o, p) ELSE {}

Fields == Dimensions \cup {"derived"}
Referenced(o, child, cols) == (cols \cap Fields) \ Names(o, child)

\* _widen: add the needed dimensions to the projection underneath
WidenedAt(p) == SelectLastInSeq(p, LAMBDA s : s.op \notin {"filter", "sort", "limit"})

CanWiden(p, required) ==
    \/ required = {}
    \/ WidenedAt(p) = 0
    \/ p[WidenedAt(p)].op = "select"
    \/ p[WidenedAt(p)].op = "agg" /\ required \subseteq ColumnsOf(p[WidenedAt(p)])

Widen(o, p, required) ==
    LET j == WidenedAt(p)
    IN  IF required = {} THEN p
        ELSE IF j = 0 THEN (IF Opaque(o) THEN p ELSE <<Select(required)>> \o p)
        ELSE IF p[j].op = "select" THEN [p EXCEPT ![j].cols = @ \cup required]
        ELSE p

\* _raw_scan: the rows behind an ad-hoc aggregate, unlimited or capped unless
\* the user already limited them
UserLimited(child) == At(child, {"limit"}) # {}

RawScanPlan(o, child) ==
    LET projection == Append(child, Select(Keys \cup {"age"}))
    IN  IF UserLimited(child) THEN projection ELSE Append(projection, Limit(o.cap, 0))

\* Mutant of RawScanUserLimit: the step is judged by its query, as any other.
MutJudgedByQuery == TRUE

\* The cap on the wire is nobody's limit (user_limit=False)
RawScanUserLimit == FALSE
CapStaysLocal(o, child) == o.cap # Unlimited /\ ~UserLimited(child)
-----------------------------------------------------------------------------
(***************************************************************************)
(* _Splitter.split: at every node the tiers in order over the widened      *)
(* subtree, then the node's own rule over the split of its child.          *)
(***************************************************************************)
\* An error ends the walk
IfOk(f, Next(_)) == IF f.ok THEN Next(f) ELSE f

\* What a tier's verdict comes to, when the rest is what happens below it
Tried(o, q, rest) ==
    CASE q.verdict = "refused" -> Refused
      [] q.verdict = "query" -> Remote(o, q, UserLimit(o, q))
      [] q.verdict = "cannot" -> rest

\* A local step that reads some columns of a frame and adds some
Over1(f, reads, Op(_), adds) ==
    IF reads \subseteq f.cols
    THEN Then(f, Op(f.rows), f.cols \cup adds, f.planned \cup adds)
    ELSE Refused

LocalStep(f, step) ==
    CASE step.op = "filter" /\ step.kind = "date" -> Refused
      [] step.op = "filter" /\ step.kind # "date" ->
            Over1(f, {step.col}, LAMBDA t : LocalFilter(t, step.col), {})
      [] step.op = "sort" -> Over1(f, Keys, LocalSort, {})
      [] step.op = "limit" ->
            Over1(f, {}, LAMBDA t : LocalLimit(t, step.n, step.offset), {})
      [] step.op = "derive" ->
            Over1(f, {step.from},
                  LAMBDA t : LocalWithColumn(t, step.name, step.from), {step.name})
      [] step.op = "pandas" -> Then(f, Reverse(f.rows), f.cols, {})

\* A projection keeps what the steps above it still need
LocalSelect(f, cols, required) ==
    LET kept == cols \cup (required \cap f.planned)
    IN  IF cols \subseteq f.cols
        THEN Then(f, LocalProject(f.rows, kept), kept, kept)
        ELSE Refused

LocalGroup(f) ==
    Then(f, LocalAggregate(f.rows, Keys, AdHoc), Keys \cup AdHoc, Keys \cup AdHoc)

Reads(step) ==
    CASE step.op = "filter" -> {step.col}
      [] step.op = "select" -> step.cols
      [] step.op = "sort" -> Keys
      [] step.op = "derive" -> {step.from}
      [] step.op \in {"limit", "pandas"} -> {}

\* The operators below take split, the walk of the subtrees under this node
RawScan(split, o, child, scan) ==
    CASE scan.verdict = "refused" -> Refused
      [] scan.verdict = "query" -> Remote(o, scan, RawScanUserLimit)
      [] scan.verdict = "cannot" /\ CapStaysLocal(o, child) ->
            IfOk(split[o, Append(child, Select(Keys \cup {"age"})), {}],
                 LAMBDA f : Capped(f, o.cap))
      [] OTHER -> split[o, RawScanPlan(o, child), {}]

AdHocHalf(split, o, child, aggs) ==
    Tried(o, CompileSql(o, Append(child, Group(aggs \cap AdHoc))),
          IfOk(RawScan(split, o, child, CompileSemantic(o, RawScanPlan(o, child))), LocalGroup))

GovernedHalf(o, child) ==
    Tried(o, CompileSemantic(o, Append(child, Group(Measures))), Refused)

\* Ad-hoc aggregates alone, or joined to the governed ones beside them
Halves(aggs, governed, adhoc) ==
    IF aggs \cap Measures = {} THEN adhoc
    ELSE IF governed.ok /\ adhoc.ok THEN Joined(governed, adhoc)
    ELSE IF governed.ok THEN adhoc ELSE governed

Aggregate(split, o, p, required) ==
    IF ~(required \subseteq ColumnsOf(Last(p))) \/ Last(p).aggs \cap AdHoc = {} THEN Refused
    ELSE Tried(o, CompileSql(o, p),
               Halves(Last(p).aggs, GovernedHalf(o, Front(p)),
                      AdHocHalf(split, o, Front(p), Last(p).aggs)))

\* A node neither tier takes: its own rule, over the split of its child widened
\* by what the node reads
Stacked(split, o, p, required) ==
    CASE p = <<>> -> Refused
      [] Last(p).op = "agg" -> Aggregate(split, o, p, required)
      [] Last(p).op = "pandas" /\ required # {} -> Refused
      [] OTHER ->
            IfOk(split[o, Front(p), required \cup Referenced(o, Front(p), Reads(Last(p)))],
                 LAMBDA f : IF Last(p).op = "select" THEN LocalSelect(f, Last(p).cols, required)
                            ELSE LocalStep(f, Last(p)))

Widened(o, p, required, Compile(_, _)) ==
    IF CanWiden(p, required) THEN Compile(o, Widen(o, p, required)) ELSE Cannot

Split[o \in Options, p \in Seq(Steps), required \in SUBSET Fields] ==
    Tried(o, Widened(o, p, required, CompileSemantic),
          Tried(o, Widened(o, p, required, CompileSql),
                Stacked(Split, o, p, required)))

(***************************************************************************)
(* split and execute: the whole plan as one governed query when tier 1     *)
(* can (a single remote step warns only when the action warns at all),     *)
(* else the DAG and, when the outputs are known, the final projection.     *)
(***************************************************************************)
Result(f, cols, warned) ==
    [ok |-> TRUE, rows |-> LocalProject(f.rows, cols), cols |-> cols, warned |-> warned]

Single(f, warn) == Result(f, f.cols, warn /\ (f.alarm \/ f.notice))
Executed(f, cols, warn) == Result(f, cols, f.alarm \/ (warn /\ f.notice))

\* The DAG's last step, projected to the outputs the plan is known to have
Finished(f, known, names, warn) ==
    IF ~known THEN Executed(f, f.cols, warn)
    ELSE IF f.remote /\ f.planned = names THEN Single(f, warn)
    ELSE IF names \subseteq f.cols THEN Executed(f, names, warn)
    ELSE Refused

Execute(o, p, warn) ==
    LET tier1 == CompileSemantic(o, p)
    IN  IF tier1.verdict # "cannot"
        THEN IfOk(Tried(o, tier1, Refused), LAMBDA f : Single(f, warn))
        ELSE IfOk(Split[o, p, {}],
                  LAMBDA f : Finished(f, OutputsKnown(o, p), Outputs(o, p), warn))
=============================================================================

# A formal model of omniframes

omniframes is a lazy, PySpark-like DataFrame client for the Omni query API. This directory
holds TLA+ modules translated from its source, TLC configurations that check them on small
instances, and proofs, checked by TLAPS, that hold for every value of the constants.
Paths below are relative to `src/omniframes/` in the repository.

## 1. The system

A `DataFrame` builds a plan; an action compiles it (`compile/`) into one remote query or a
small graph of remote and local steps; the executor sends each remote step through the
session to the transport, decodes and normalises the answer and finishes the work locally.
Everything on the client is single-threaded and blocking; what runs concurrently with it is the
server: query jobs, and other people who change models, topics, documents and keys between two
requests.

| component | state it keeps | operations | hard part |
|---|---|---|---|
| request and retry (`transport/http.py`, `_send`) | attempt counters, time waited, zero-delay retries | one request to the end | a lost response looks like a lost request; two retry policies that interleave; delays of zero |
| run/wait loop (`_drive`, `run`, `plan`, `_check_deadline`, `_raise_first_failure`, `_primary_job`) | start time, last pending set | run, plan | deadline against retries, pacing, which job is the answer |
| NDJSON stream (`transport/ndjson.py`) | header, one line per job, latest footer | parse, add_response, pending_job_ids | lines repeated, out of order, spread over responses, sent once only, cut off |
| Arrow decoding, normalisation (`transport/arrow.py`, `normalize.py`) | none | decode, normalize | totals rows, sidecars, formatted grains, names that collide |
| catalog (`catalog.py`) | five caches | models, model, topics, topic, views, view_names, refresh | the server changes during a walk; partial replies; names that are not unique |
| session and reader (`session.py`) | builder, cached whoami, catalog | get_or_create, verify, whoami, run, ask, read.topic/view/sql/saved_query, saved_queries, close | preflight cached on success only; a read makes several requests; which model a stored or generated query runs on |
| credentials (`_credentials.py`) | none | resolve_credentials | precedence; no fall-through from a provider that fails |
| DataFrame, GroupedData (`dataframe.py`) | plan, cached execution and schema | the builders, collect, first, show, count, schema, columns | limit/offset composition, when to warn, names that agree |
| plan nodes, columns, functions | immutable | constructors, operators, visitor | what a Boolean expression means over nulls |
| query model (`compile/querymodel.py`) | immutable | envelopes, filters, sorts | the three kinds of limit; two conditions on one field |
| semantic compiler, tier 1 (`compile/semantic.py`) | none | compile_semantic | which plans are one governed query; aliases the wire has not |
| SQL generation, tier 2 (`compile/sqlgen.py`) | none | statement | the same with SQL |
| splitter (`compile/splitter.py`) | remote steps found so far | split | widening, caps below a local operator, order of limit and filter, renames above joins |
| local engine, tier 3 (`compile/local.py`) | none | one function per operator | SQL semantics of null, order, empty groups, joins |
| executor (`compile/executor.py`) | results by step | execute | truncation warnings: silence about missing rows is a wrong answer |
| explain, writers, types, errors, user agent | none | rendering | - |

What makes each correct: a request is bounded in time and in number and runs a POST at most
once; a run submits once, ends once, returns a job that succeeded while none failed, and
outlives its deadline by a known amount; the catalog's listing is complete, its resolutions
right, its caches dropped together, and a read ends with one model; a session sends nothing
before its key was accepted once, takes each credential from the first place that has it and
runs a query on the model its caller named; a compiled plan returns the rows the plan means or
warns that it may not, whichever tier evaluates its conditions, and under the names that were
asked for. `PROJECT.json` lists the hazards, each at its line, with the properties that watch it
or the reason why none does.

## 2. Modules

Four modules are abstract: `SendCall`, `QueryCall`, `ReadThrough` and `Gate` say what a component
promises and hide how. `HttpSend`, `QueryRun`, `Catalog` and `Session` are translated from the code
and implement them (`INSTANCE ... WITH` a refinement mapping, the abstract specification as a
PROPERTY).

The other half is about frames. There the abstract side is an operator (`Meaning`, `Meant`,
`Truth`) and not a module, because a query has an answer and no behaviour: a reference definition
that reads the plan in the order it was written and knows nothing of tiers, wire names or caches.
`DataFrame` extends `Splitter`, which extends `Tables`: rows, limits and warnings. `Predicates`:
conditions and nulls. `Naming` is extended by `Result` (one query and its answer) and by `Joins`
(several). The `MC` modules give TLC values for structured constants, the `_proofs` modules hold
the theorems.

    HttpSend  -> SendCall          DataFrame -> Splitter -> Tables
    QueryRun  -> QueryCall         Predicates
    Catalog   -> ReadThrough       Result ---.
    Session   -> Gate              Joins  ----> Naming
       '-> Credentials

The halves meet at narrow places, and each side is modelled with what the other guarantees of it:
a wait of `QueryRun` is one `HttpSend` call; resolving a model is one request of `Session` and a
walk in `Catalog`; a remote step of `Splitter` is a run; a side of `Joins` is a frame.

### HttpSend implements SendCall

One step is one turn of the loop of `_send`: the request, its fate, the sleep after it. The
four counters are those of the code; `executed`, `requests` and `slept` are history variables,
what the server and an observer of the call see. Actions: `NetworkFailure` (the request or its
response was lost; only a GET is replayed), `ThrottledGet` (429: Retry-After to the letter, or
a backoff clamped to what is left of the budget, with the three ways to give up),
`ThrottledPost` (429: a number of attempts, the delay capped), `Rejected`, `Answered`. Jitter
is a choice among delays; one tick is the finest delay. `SendCall` lets a handler run at most
once for a POST and requires one execution behind every response.

### QueryRun implements QueryCall

`run` and `plan` over one `StreamAccumulator`. The client's program counter `pc` is before the
POST, waiting for its answer, at the loop's head, inside a wait, or done. A response carries
any of the final lines the server may send, intermediate lines before or after them,
"Unable to find job" for jobs it reported before, and a footer that may lag: it may still list
any job whose final line is in the same response, a plan's included. `Keep` is the
merge rule of `add_parsed`, `Pending` is `pending_job_ids`, `Conclude` is the code after the
loop (first failing line, first line in submission order, missing fields, no result).
`Redelivers` says whether the server repeats a line it has sent; the contract says it does
not, so a replayed wait may find its lines gone. A wait is one `HttpSend` call reduced to what
`HttpSend` proves of it: a POST is not replayed, a GET at most `MaxRetries` times after a
network failure, a 429 that outlasts its budget is an error. Waits spent on 429s lengthen a
request, so they are part of `MaxSend`. `told` and `lost` say which final lines the server has
written, in a response that arrived or in one that never did (together they are `Spent`: lines that are
not written again); `reasked` is a history variable, the jobs asked about after their line had arrived.

Left out: the text of errors, workbook URLs, a header that names no jobs, and a response without a
footer, which the contract rules out (`docs/CONTRACT_NOTES.md:123`).

### Catalog implements ReadThrough

`models`, `model`, `topics`, `view_names`, `refresh`, and `read.topic` / `read.view` as calls
that make several requests, one per step, with the server's `Appear`, `Vanish` and `Edit`
between them. `FromListing`, `FromResolved`, `ById`, `ByName`, `Walk` are the five ways
`Catalog.model` finds a model, in the code's order; `FromCache` and `List` end a listing or a
read. A read resolves twice: first the caller's key, then the name it found (`Found`). `Pages` says
what the page after a cursor may be: models in the server's order, none passed over, as many as
fit; a page may promise another one although there is none. What the walk reads of a page (`Readable`)
may be less: entries that are no records are skipped, and without its list of records a page is empty
(`catalog.py:256-260`). A `pageInfo` that is missing, odd or without a cursor ends the walk wherever it
is (`:261-266`), so `Walk` may end with models still to come. The filters' replies may be unreadable
too (`ById`, `ByName`). `RequestFails` is any transport error, the preflight's included. `resolved`, `models` and `listings` are `_resolved`, `_models` and
`_topics`/`_view_names`. The server is external: models keep their names, names are compared
without case.

Left out: `topic` (detail) and `views`, which read topic details through a cache of their own; records
without an id or a name. `ReadThrough` knows two of the five caches, the topics and the view names.

### Session implements Gate

First the builder: `Tell`, `TellFromEnv`, `Secrets`, `RateLimitWait`, `Transport`, then
`GetOrCreate` or its failure, in every notebook (environment, Colab, dbutils, importable providers,
what a read of each secret ends in). `Credentials` is `_credentials.py` as functions; a credential
is known by the place it came from. Then the session's calls: `verify`, `whoami`, `run`, `read.sql`,
`ask`, `saved_queries`, `saved_query` with and without `model=`, each a list of requests still to
make (`call.todo`). `Preflight` is `_preflight` in front of whatever asks first, `Cached` the one call
that needs no request, `Saved` and `NotPicked` are `_pick_saved_query`. A stored query is known by its
place in the document: `Kept` are the places that hold an object, `IndexOf` and `NameOf` what such an
entry is listed and picked by (`Placeholder` for one without a name), `Stored` is `_normalized_query`. Two entries of a document are never one
(`IsDoc`); `Objects`, which only the property reads, is a document without what is no object. Between two requests `Revoke` takes the key away or gives it
back and `Edit` changes the document. `built` and `sent` are history variables; the builder and its
machine are forgotten when the session is made, since nothing reads them afterwards.

`Gate` knows only whether the server accepts the key, whether it has done so once, and the last
request sent.

Left out: the wording of errors, validation of argument types, two sessions of one builder.

### Tables, Splitter and DataFrame

A frame is a source with its session's knobs (`options`: a topic, raw SQL, or a stored query with
no limit, a limit or an explicit null; `decomposition_row_cap`; `disable_sql`) and a plan, the
sequence of steps its methods put on top of it. Actions: `Transform` (select, group_by().agg,
filter, with_column), `Sort`, `LimitRows` and `Offset` (which rewrite a limit they are written
on), `MapPandas`, and the calls that run the plan, `Collect` and `Preview` (first and show, which
put a limit on top and silence warnings).

`Splitter` is compilation and execution in one walk over prefixes of the plan, since neither looks
at the other's data: `CompileSemantic` (tier 1: a query, "cannot", or an error for the user),
`CompileSql` (tier 2), and `Split`, a recursive function of a subtree and the columns needed from
it, that tries both tiers on the widened subtree and then the node's own rule (`Stacked`,
`Aggregate`, `RawScan`). What it returns is a table and the warnings its steps earned: `Remote`
and `Capped` are the two places where the executor compares the rows it got with the limit it
applied; `Execute` is `split` and `execute` at the root. `Answer` is the server (external): the
rows of a query, in an order the model fixes. `Tables` is `local.py`: one function per operator.

A row of `Meaning` remembers the source rows it stands for, so that a filter on a dimension is a
WHERE wherever it is written, a measure is a count of source rows, and an ad-hoc aggregate a count
of distinct values.

A filter's kind says who can carry it: "wire" (both tiers), "date" (tier 1), "sql" (tier 2),
"udf" (the local engine); a derived column is "sql" or "udf". `Meaning` is defined where the
question has one answer, which the guards of the actions say: `CanFilter` (a column that exists, or
a dimension before any test of an aggregate), `CanSelect`, `MayRegroup` and `CanGroup` (a
governed frame is regrouped only by its own measures; a sort under a group-by matters only to a
limit between them), `CanDerive`, and `SchemaKnown` (nothing names a column above a map_pandas
without a schema hint).

Left out here: joins, unions, aliases, totals, nulls and types (the next three modules), grains, the
text of statements.

### Predicates

A `Column` is immutable and built on others, so an expression is known by its place in `made`, the
expressions made so far, and an operand is an earlier place. The methods of `Column` append one
(`Make`): `Write`, `Invert`, `IsNull`, `Connect`; `columns` are the ones in hand, and `FilterBy` puts the
last on the frame. What a tier makes of an expression is then a recursive function over the places.
`Entries` and `CompileFilters` are tier 1: one typed entry per field with a flag for a negation, several
conditions on one field merged into a composite (`FilterSet`) or the filter passed on to the next tier,
and the entry read by the server (`ServerTruth`, external). `ReadBack` is tier 2: at every place, what the
rendered text parses to and what it parses to with IS NULL after it, which for NOT is not the same
operand. `Truth("arrow", ...)` is tier 3. `Truth("sql", ...)` is what a predicate means: SQL's
three-valued logic. A tier that refuses an expression leaves it to the next one and promises nothing
(`Carries`). A literal's type is all a compiler without a schema has to go by, so it is part of the
literal; a field is tested with literals of its own type or None (`PredicatesAssumption`), since what a
warehouse makes of any other comparison is its own affair.

### Naming and Result

`Naming` is what a chain of `select()`, `with_column()` and `with_totals()` asks for: which tier
carries it, the fields of the query in their order, the columns the user will see and the renames to
apply to the answer. A name is a base, a part and a number: a user's has neither part nor number, and
the ones that are made up (a computed column's key, a grain's raw half, a totals sidecar, what the
server generates for an expression in a scope the client cannot know) are told apart by them. `Result` sends it. A request meets the model as of then (fields known, grains
formatted) and one of the server's styles of writing totals, and its body is a sequence of lines, cut
or with a foreign line in it; `Answered` is what `parse_response`, `_absorb` and
`check_missing_fields` let through; `Normalized`, `Merged`, `Collapsed`, `Renamed` and `Collides` are
the parts of `normalize`, in the code's order. `ReadColumns`, `ReadSchema` and `Collect` are the three
ways a frame says what its columns are; `schema` is the cached planned schema, `told` a history
variable. `Meanings` is the reference: the chain read forwards, each step naming what it makes of the
names below it.

`ResultAssumption` says what users and servers write: plain names, a grain that is no measure, styles
that mark the totals row they add, and no column that is given the name of a field which the same chain
asks for as a measure (`F.measure(n)` is the model's field even above a select that calls something
else `n`; whether it should be is not said anywhere, so the reference is silent there too).

Left out: a select over a with_column or over a stored query (local work, which is `DataFrame`'s);
the outer of two selects reads plain names only; a user's alias `row_type` next to
`with_totals()`, which gives two columns of that name; subtotals (only grand totals are labelled);
column types.

### Joins

A frame is a side and the steps above it: `Join`, `Union`, `Filter`, `Select`, `WithTotals`,
`Collect`. A side is what the compiler knows of a frame (its planned names, none for raw SQL or
map_pandas without a hint; its renames) and the tables its queries come back as: one, or two halves
of a decomposed aggregate. `JoinFrames`, `UnionFrames`, `FilterFrame`, `ProjectFrame` are the
splitter's rules with their refusals, `Outputs` and `Required` what is known of a subtree and asked
of it, `LocalJoin`, `AlignJoin`, `LocalUnion`, `Promoted` the local engine's. pandas' merge is
external. `Meant` is relational: rows pair when their keys are equal and not null.

The rows of a table are a family, not a sequence: a row of a join is known by the two it was joined
from (`NoRow` for one that is missing), a row of a union by its side and its place there, so that the
answer and `Meant` can be compared row by row; `Same` then counts rows and looks at no place.
`OutputsUpTo`, `SplitUpTo` and `MeaningUpTo` are the recursions over the steps as functions of how many
steps are done. `JoinsAssumption` says what arrives: tables whose columns have different names and
known types, renames to columns that are planned, two halves with the same groups, each once; joins of
at least one key and of a kind the methods offer; selects without computed columns. A grand total, an aggregate
without keys that is aligned on none (`AlignJoin`), is outside it.

Left out: row order, which no join promises (nor the order of columns that ride along, which are
dropped); the scale of decimals; an expression as `on` and cross
joins, which the methods do not offer; sides of two sessions, which are refused when built.

## 3. Runs

| run | what it asks | bounds | states |
|---|---|---|---|
| `http_send` | does one request end within its bounds, a POST run at most once? | 2 retries, budget 6 ticks, 2 zero-delay retries, headers of 0, 1, 3, 6, 9 ticks | 7,149 |
| `query_run` | soundness and termination of run and plan | 2 jobs, both modes, deadline 3, poll 1, 1 replay, requests of 0 or 1 tick | 158,743 |
| `catalog` | caches against a changing server | 2 models whose names differ in case, one UUID, 1 topic, pages of 1, at most 3 pages | 956,476 |
| `session` | credentials, the preflight gate, stored queries | every notebook and builder; 2 models, a name nobody has, 6 documents, 7 picks | 362,700 |
| `frame` | does a frame answer its question, or warn? | 3 steps: 28 words, and sort, limit, offset, map_pandas; 7 sessions; 4 steps around decomposed aggregates | 470,812 |
| `predicates` | does every tier keep the rows a filter means? | 5 expressions made, or still to be made to connect those in hand; 24 tests, 9 rows | 96,045 |
| `result` | are names and values those that were asked for? | 2 selects, 2 with_columns; 3 models, 6 styles, 13 bodies | 10,434 |
| `joins` | is the answer of a combined frame the relational one? | 9 sides, 3 steps over the first, 2 combinations | 303,273 |
| `frame_groups` | does a governed select have one row per group? (violated) | plans of 2 steps | |
| `frame_order` | do tier 2 and local execution agree on order? (violated) | plans of 3 steps | |
| `predicates_agree` | do the tiers agree without exception? (violated) | 2 expressions | |
| `joins_names` | does a step above a join read the column it names? (violated) | 2 sides, 2 steps | |

Why these bounds are enough to show the interesting cases. In `http_send` headers ask for
nothing, less than, exactly and more than the budget, and every counter reaches its limit
together with every other. Two jobs are the least for which order, partial failure and a
shrinking pending set differ; one replay is the least that loses a line. In `catalog` two pages
are the least between which something can change, or which a page that ends the walk too early keeps
apart, and a third request is an empty page or the page limit. View lists are fixed in that run (`Volatile`), their faults are not. A limit on
pages (`MaxPages`), replays and retries is the code's own constant at a small value; `MaxSend`
is the only bound on time that the code does not have as a number (it is the httpx timeout of
every phase plus the waits of `_send`).

`session` takes no bound on the builder: every environment, provider and outcome of a secret. Its
documents have a name used twice, an unnamed query and one named as if it were unnamed, entries that
are no objects and no queries, queries with and without a model; a key is revoked and restored any
number of times, and there is one session.

In the `frame` runs there are five rows in three states, and limits just below them: the fetch
limit is 4, so a query without a limit is cut by one row; the server's default, the stored limit
and the cap are 2, so they bite in each half of an aggregate; users ask for 2 rows or for all,
previews for 1 or 2, and an offset is 1. A filter keeps one state whole, one in part and one not
at all. Three steps are enough for a limit or a sort between two others, four (`LongSessions`,
`LongAlphabet`) for local work both below and above a group-by. Random plans of up to seven steps (TLC's
simulation mode, four million states each with a fetch limit below and above the number of rows) meet no
exception but the named ones. A limit takes one offset, the one
bound on a single method.

In `predicates` any two of text, number, flag and time take all nine pairs of null and two values
over the nine rows (an orthogonal array), so that every connective meets every pair of true, false
and null. Five expressions are enough for two conditions on a field under a connective and a negation;
`Common` are the tests that also meet in threes.

In `result` every style of indicator meets each model, and every body one model and style: where the
body is cut is independent of the names in it. In `joins` the key has nulls and duplicates on both
sides, types that widen and types that do not, and each side is known, unknown, known in part or
known wrongly; three steps put two combinations and a reader on a side. `Again` is a choice of
second combinations; a select over a select is `Result`'s. A column strays (`Strays`) only in four
steps, which no run takes; the theorems about `Joins` are about any number of steps.

`CHECK_DEADLOCK FALSE` is given where a call ends and nothing follows, a plan has reached
`MaxSteps`, an expression `MaxNodes`, or no session can be built; the catalog and `result` never stop.

**What the passing runs show.** `SleepBounded`, `RequestsBounded`: two retry policies share a
loop and still neither the time nor the number of requests runs away. `AnswerIsSound`,
`NoSpuriousError`: whatever the order of lines, an answer is the first job's and every other
job succeeded, and complaints about missing lines are deserved; the exceptions are named (a
lost response under exactly-once lines; a planOnly job after an intermediate line).
`ResolvedIsNotAwaited`: a footer that lags is seen through for every line that ends a job; the exception
is a plan's line (see below). `OvershootBounded`: the true relation between deadline and wall time. `Terminates`: pacing
makes the deadline reachable even if jobs never end. `ScanIsSound`: a read checks the listing
of the model it scans when names are unique. `ListingIsComplete`: a complete listing has, once, every
model that lived through the walk, except those on a record the walk could not read or behind a
`pageInfo` that ended it (`owed` are the others). `ResolutionIsSound`: nothing wrong is ever cached under a
name. The refinements say that, seen from outside, the detailed modules do nothing but what the
abstract ones allow.

`ResolvedInOrder`, `SecretsOnDemand`: in every notebook a credential comes from the first place that
has it, a failed secret is never papered over by another source, and no secret is read that was not
needed. `RunsWhereAsked`: a frame of `ask`, `read.sql` or `saved_query` runs on the model its caller
named, or on the stored query's own. `PickedAsListed`: what was listed is what is picked, while the
document is the same as when it was listed.

`CompleteUnlessWarned`, `PreviewComplete`: whichever tiers the steps of a plan went to, `collect`
returns what the plan means or warns, and a preview shows the right rows or warns. The exceptions
are named: `Regrouped` (finding 2), `Shadowed` (finding 4), and previews of a stored query without a
limit (see below). `TiersAgree`, `NullsStayOut`: a filter keeps the same rows on every tier, and
never one it only knows nulls of; the exceptions are `Calendar` (finding 3: a date compared with
equality; and the filters on a grain's column, which tier 1 writes as dates against the bare timestamp field
while the local engine compares the column's own values), `NullListed` (a None among the values of
`isin()`, which only a negation shows) and `NullOfNot` (`is_null()` of a negation, written by tier 2 without
its parentheses).

`AnswersAsSelected`: columns in the order and under the names asked for, each with what it means.
`TotalsApart`: totals rows are kept out of a frame that did not ask for them and are the labelled last
row of one that did. `NamesAgree`: `.columns`, `.schema` and `collect()` never contradict each other, a
model edited between them included. `NeverPartial`: a table is given only for a whole answer to the
whole question. `RefusedEarly` (`Result`): colliding names are refused before any request, except for one
column selected twice. `AnswersAsMeant`: whatever was joined or united with whatever, the answer is the
relational one, except where a step reads a name that a side aliased away (`ReadByAlias`, finding 1),
a column strays (`Strays`, below), or a user's hint of columns is wrong: other columns than come, or, beside
a side whose columns are unknown, another order (`Misled`). `RefusedRightly`: only what has no meaning is
refused, except for joins of a join one side of which is unknown (`Guesses`, `splitter.py:545-557`: its
columns are taken to be all there are) and for columns that stray. `RefusedEarly` (`Joins`): what can be
known before a query is sent is refused before it; over sides that come back as planned, only two types
that do not go together (`Unlike`) fail afterwards.

`Strays` was met in the proof of `AnswersAsMeant`, not in a run. A filter above a select may test a
column the select does not show; `_project` (`splitter.py:357-361`) lets it ride along and relies on the
final projection to drop it. In `join().select(k).filter(a).join(...)` there is another combination
first: the column arrives there as one of its side's, so that the join is refused for a column both
sides have although the frame shows no such column, or, beside a side whose columns are unknown, it
comes out as a column of the answer. TLC shows both with `MaxSteps = 4`, two sides and
one select.

**What the violated runs show.**

1. *`ReadsWhatItNames`* (`joins_names`): `_join` and `_union` (`splitter.py:563`, `:588`) hand both
   sides' renames on as the joined frame's, and `_resolve` (`:863-869`) rewrites any reference by them.
   After `left.join(right.select(k, a.alias("x")), on=k)`, a filter on `a`, a column the left side shows,
   reads `x`, the right side's. Aliasing one side is what the refusal of an overlapping join advises
   (`local.py:862-865`).
2. *`OneRowPerGroup`* (`frame_groups`): `_widen` (`splitter.py:703`) adds a dimension a local step needs
   to any projection, a governed one included: the query is grouped by it too and it is then dropped,
   so `select(state, measure).filter(<udf on age>)` has several rows per state. Stacked selections that
   end up local drop the column, or read a key that `with_column` redefined between them, without
   regrouping. `group_by` in the same place is refused.
3. *`PredicatesAgree`* (`predicates_agree`): `_date_comparison` (`semantic.py:633`) turns `==` with a date
   into an ON_DAY filter, which keeps the whole day; tier 2 and the local engine compare with midnight,
   so the same filter keeps other rows when a step moves between tiers.
4. *`OrderKept`* (`frame_order`): tier 2 reads a filter by the last definition of its column
   (`sqlgen.py:828`): a filter written before `with_column` redefines the column tests the new one.

Seven more statements of the documentation are written down next to the properties and refuted by the
same models, without a run of their own. `WallTimeBounded` (`QueryRun`): the deadline is called a bound on
wall time (`transport/base.py:60`, `http.py:81`) but is read only between requests.
`ResolvedIsNeverAwaited` (`QueryRun`): "we never wait on a job we have already resolved"
(`transport/ndjson.py:571`), but PLANNED is not among the terminal statuses (`:121-123`), so a job whose
plan has arrived is asked about again when the footer still lists it. Where lines are written once the
answer is "Unable to find job", which replaces the plan, and `plan()` raises an error that blames a job
that was planned; `QueryCall` has this case among the jobs the server has `forgotten`.
`SuccessIsReturned` (`QueryRun`): the rule for repeated lines keeps the first non-terminal line, and
PLANNED is not terminal, so `plan()` fails after `EXECUTING`, `PLANNED`.
`ListingIsAuthoritative` (`Catalog`): the cached listing "lists every model this key can see" (`catalog.py:283`), but a page or a `pageInfo` that cannot be read leaves models
out of it, on a server that stands still, and a later lookup then fails without asking. `ScanExists`
(`Catalog`): with two models of one name, `read.view(id, v)` checks the listing of whichever the name finds.
`ScansAlwaysWarn` (`DataFrame`): under local work, previews say nothing of rows that the server's default
limit cut off (`splitter.py:178`, against `executor.py:63-64`). `FieldsExist` (`DataFrame`): a column
derived over a topic nothing has projected yet has no known outputs (`splitter.py:771`), so a step that
reads it asks the server for a field of that name.

**Fairness.** Only `QueryRun` has a liveness property. `FairSpec` assumes weak fairness of the
client's actions together: the interpreter keeps running and every request returns, because
httpx has a timeout on every phase. Nothing is assumed of the server's jobs. The calls of the other
modules are bounded sequences of requests; their bounds are safety properties (`RequestsBounded`, the
page count in `Catalog`'s `TypeOK`).

## 4. Proofs

All constants are arbitrary within the named assumptions (`SendAssumption`, `RunAssumption`,
`CatalogAssumption`, `SessionAssumption`, `DataFrameAssumption`, `PredicatesAssumption`,
`ResultAssumption`).

*Induction.* What the compilers compute is mostly recursive: a truth value at every place of an
expression, the select that a stack of selects composes to, the table after every step of a plan. The
models say so with recursive functions (`f[n \in D] == ... f[n - 1] ...`), which are a CHOOSE until
some function is shown to satisfy the equation. What that takes is at the top of the modules that need
it, stated with sets of numbers instead of predicates: a non-empty set of naturals has a least element,
course of values, one step at a time, and that a function computed step by step exists. Each recursive
operator then has a lemma that it exists (`TruthOf`, `EntryOf`, `ServedOf`, `SplitsAre`, ...), and what
it returns is proved by citing `StepByStep` or `CourseOfValues` for the set of numbers up to which it
does.

*HttpSend.* None of the bounds is inductive. `IInv` ties each one to the counter that pays
for it: sleep to the budget spent plus network retries, requests to the sum of the two attempt
counters, and the 429s of a GET to the time waited, because each 429 costs at least one tick
or uses one of a run of free retries. `SendTypeOK`, `SendSleepBounded` and
`SendRequestsBounded` follow; `SendImplementsSendCall` needs `IInv` to know that a POST that
is sent again was never executed.

*QueryRun.* `RInv` says where every held line came from (`Provenance`: it repeats what became of its
job, or it is "unknown job" for a job whose line was lost or that was asked about again), that a line that
ended a job is kept whatever comes after it, that a wait about a job whose line has arrived is
on record (`Recorded`), that every job is asked about, told of or lost, and how the clock relates to the program
counter. A job that is asked about again has a line that arrived and does not count as an ending, and
those are plans: `RunResolvedIsNotAwaited`. From it too: `RunTypeOK`, `RunAnswerIsSound`,
`RunNoSpuriousError`, `RunOvershootBounded` and `RunImplementsQueryCall`, for every number of
jobs, both server policies and every deadline.

*Catalog.* `IInv` has three parts. `Asking`: where a call is and what it holds; the second look of a
read is for the name of the model the first one found, which is why a read with unique names ends
with the model it checked. `Stored`: what is cached has the right shape and is right about names.
`Walking`: a walk holds, once, every model up to its cursor that is owed to it: there since the walk
began, and on no record that could not be read. A page moves the cursor without passing over one, a
model that comes or goes between two pages is never among those, and a page that ends the walk takes
what lies behind it off the account. From it: `CatalogTypeOK`, `CatalogScanIsSound`,
`CatalogListingIsComplete`, `CatalogResolutionIsSound`, for any models, names, page size and drift of
the server. `CatalogImplementsReadThrough` maps every step to a fill, a drop, a change of the server or a
stutter.

*Session.* `SessionImplementsGate` needs no invariant: every step is a step of `Gate` or leaves its
three variables alone. `SessionResolvedInOrder` and `SessionSecretsOnDemand` follow a build through
`ResolveCredentials`, for every notebook; the second needs to know that the builder's configuration of
secrets is always one that `secrets()` accepts. The other two need `CInv`: a call in progress is one that
was begun, an `ask()` whose model has been resolved, or a `saved_query()` that chose an entry of the
document it read. `Edit` may change the document while the model of the chosen entry is being asked for,
so what was read has to be carried in the call. From it: `SessionTypeOK` and `SessionRunsWhereAsked`, for
any documents, names and models.

`SessionPickedAsListed` adds `PInv`: what is listed is `Listed` of the document it was read from, and a
pick that is being worked on, or was answered, is the entry the document has at that place. The reference
counts objects (`Objects`), the code places (`IndexOf`), so the proof is that the two count alike.

*DataFrame.* `FramePlansAreNormal`: however long, no plan has a limit directly on a limit or a sort
directly on a sort, which is what lets a tier read one of each; `FrameTypeOK` is its other half
(offsets are never negative). `LimitsCompose` is why the methods may rewrite: for every table, the one
limit that two are rewritten to returns the rows of the two applied in turn. `SilentStepIsWhole` and
`SilentCapIsWhole` are the two places where the executor decides whether to warn: comparing the rows
with the limit that was applied misses no truncation, whatever the query, its offset and its source.

*Predicates.* `PredicatesTypeOK` is inductive as it stands: operands were made before what is made of
them, and no connective is right below itself (what `BooleanOp` flattens). That is what the other two
stand on, since it makes the places a well-founded order. `PredicatesTiersAgree` is three inductions over
the places, for any tests, rows and depth. Tier 3: at every place Arrow's truth value is SQL's, unless a
None is listed; then, with no NOT and no IS NULL in the expression, whatever is true in SQL is true in
Arrow and the other way round, which is all a filter asks. Tier 2: the statement read back is the
expression that was written, and with IS NULL behind it its null test, if no negation is tested for null.
Tier 1: the entry at a place, read by the server on the value of its key, is the truth value of the place
in every row, sign and parts included (`ServerAnswersAsMeant`); merging conditions on one field is their
conjunction (`MergedConditions`). `PredicatesNullsStayOut`: if no expression asks for null, every place is
Unknown in a row that is null wherever the leaves look, on each tier by the same inductions, and
Unknown is not true.

*Result.* `ResultInvariant` is the inductive invariant: the frame is one that `select()`, `with_column()`
and `with_totals()` accept (`FrameOK`), everything that was said about its columns is one sequence
(`Said`), the cached schema is that or nothing, and the last outcome is what the compiled query is
answered with (`OutcomeOK`). `ReadSchema` and `Collect` preserve it because of three facts about every
frame, every model and every style.
First, the query means the chain (`QueryMeans`, in `CompiledMeans`): a governed query of stacked selects,
because composing them from the top is naming forwards from the bottom (`SemanticMeans`); a statement,
because a reference that `with_column()` substitutes stands for what the name means at that step
(`SqlMeans`); a stored query, because it names its own columns (`StoredMeans`).
Second, the names the query announces are those its items come back under, renamed (`VisibleNames`,
`PlannedNames`), whatever totals sidecars, indicators and formatted grains the answer has besides.
Third, what `normalize` leaves of the answer are the items' cells, and their totals with the merged
sidecars in the totals row (`NormalizedRows`).
From them: `ResultNamesAgree`, `ResultRefusedEarly`, `ResultNeverPartial`, `ResultAnswersAsSelected`,
`ResultTotalsApart` and `ResultTypeOK`. The last is not a premise of the others: that columns have
different names and rows are as wide as they are many is a consequence of what the query means.

*Joins.* `IInv` is short: the frame is a plan (`IsPlan`: a side, then steps of the kinds the methods
build, the first of them a combination, no select over a select) and the outcome, if there is one, is
`Run` of that plan. Everything else is about plans, and is proved for all of them along their steps.
`JoinsTypeOK` follows from what the local operators do to the shape of a table (`JoinMakes`,
`UnionMakes`, ...).
`JoinsRefusedEarly` and `JoinsRefusedRightly` rest on `Sound`: in a plan over sides that come as they
were planned, at every step the table has the columns the splitter thinks it has, what is known of the
subtree is among them, and so is what the steps above ask for; so a check at run time can only meet what
the check before it let through, types apart.
`JoinsAnswersAsMeant` rests on `Agrees`: at every step, the table that was computed holds, row for row,
what is meant there, besides columns that ride along; when it is about to be combined it holds nothing
else, in the same order (`Exact`), and a name that a select aliased still means its alias (`AliasesMean`,
which is why both names of a column may be tested above it). The step that takes most is a join
(`IsJoin`): holding null-keyed rows out of a merge in which nulls match, and putting back those a side
keeps, pairs the rows whose keys are equal and not null, and the types `promote_type` finds are the
narrowest that hold both (`PromotedIsWidest`); for the halves of an aggregate the null groups do pair, and
nothing is left over (`HalvesMeet`). A select is the other one: a source that is selected twice is
copied, name by name, before it is picked (`CopiesUpTo`), and no copy may overwrite a source still to
be read. From `Agrees`, the answer and `Meant` have the same rows at the same places, so each occurs in
both equally often.

*Only model-checked.* `Terminates`: liveness under fairness is beyond the prover.
`CompleteUnlessWarned` and `PreviewComplete`: they compare a walk over every plan, which recurs on the
subtree and on the columns needed from it and executes sorts, limits and groupings of tables on the way,
with a reading of the same plan; `LimitsCompose`, the normal plans and the two silences are the steps of
that argument that are proved. What is missing is an induction on the recursion of `Split`, which does not go
by the length of the plan (widening and decomposition recur on other plans than the one they are asked for),
and a notion of equal tables that survives a limit, which keeps other rows when equal tables are in another
order; both would change the model for the proof's sake.

## 5. Not modelled, and what is left

- `Catalog.topic` and `Catalog.views`: the detail cache is one more read-through cache, filled topic by
  topic; with it the catalog's state, already near a million, is multiplied. A run of its own with
  `models` fixed would be the way.
- `DataFrame`: longer plans; a sort written against an alias, sorts and limits over renamed columns;
  grains; `count`, `to_pandas` and the writers, which wrap `collect`.
- The local engine's casts, and aggregates and sorts over nulls.
- `RunRequest` and its validation; `decode_result`, which decodes one payload or fails.
- Rendering (`explain`, statement text, error messages), file writers, value classes and the user agent:
  no state, and nothing a checker sees better than a test. Scripts, tests and documentation were read as
  evidence of intent.

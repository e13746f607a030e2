------------------------------- MODULE Joins -------------------------------
(***************************************************************************)
(* join() and union(): each side is compiled and fetched on its own, and   *)
(* this process combines what came back (dataframe.py, splitter.py's       *)
(* _join, _union and _project, local.py's LocalJoin, AlignJoin and         *)
(* LocalUnion).                                                            *)
(*                                                                         *)
(* A side is what the compiler knows of a frame (the names it plans, none  *)
(* of a raw-SQL job's or of map_pandas' without a hint, and its renames)   *)
(* with the tables its queries are answered with: one, or the two halves   *)
(* of an aggregate to align on its keys.  A frame is a side and the steps  *)
(* above it; names and columns are Naming's.  A table is its names, their  *)
(* types and its rows; no join promises an order of rows, so each has for  *)
(* its place what it was made of: a joined row the two it was joined from, *)
(* NoRow in the place of one that is missing.                              *)
(***************************************************************************)
EXTENDS Naming

CONSTANTS
    Sides,          \* the frames that are combined
    Combinations,   \* the join() and union() steps over a side, and those over more
    Again,
    Filtered,       \* the names that are tested, and the select()s, above a combination
    Selections,
    MaxSteps        \* bound: the steps over the first side

VARIABLES
    frame,          \* _plan: <<side, step, ...>>, innermost first
    totals,         \* with_totals()
    outcome

vars == <<frame, totals, outcome>>

None == [kind |-> "none"]
Null == 0
NoRow == <<>>
Fails == [ok |-> FALSE, names |-> <<>>, types |-> <<>>, rows |-> <<>>]
Table(names, types, rows) == [ok |-> TRUE, names |-> names, types |-> types, rows |-> rows]

-----------------------------------------------------------------------------
(* Types (promote_type) *)

NoType == "no type"
\* Each holds the values of those before it
Chains ==
    {<<"null", "int32", "int64", "decimal", "double">>, <<"null", "string", "large_string">>,
     <<"null", "date", "timestamp">>}

Integers64 == {"int32", "int64"}
Text == {"string", "large_string"}

\* One direction; the scale of a decimal is left out
Widened(l, r) ==
    CASE {l, r} \subseteq Integers64 -> "int64"
      [] l = "double" /\ r \in Integers64 \cup {"double", "decimal"} -> "double"
      [] l = "decimal" /\ r \in Integers64 \cup {"decimal"} -> "decimal"
      [] {l, r} \subseteq Text -> "large_string"
      [] l = "timestamp" /\ r = "date" -> "timestamp"
      [] OTHER -> NoType

Promoted(l, r) ==
    CASE l = r \/ r = "null" -> l
      [] l # r /\ l = "null" -> r
      [] l # r /\ "null" \notin {l, r} ->
            IF Widened(l, r) # NoType THEN Widened(l, r) ELSE Widened(r, l)

-----------------------------------------------------------------------------
(* The local operators, over the tables that arrived *)

Over(f, g) == [x \in DOMAIN f \cup DOMAIN g |-> IF x \in DOMAIN f THEN f[x] ELSE g[x]]

\* Mutant of Padded: an unmatched row keeps the columns of its own side.
MutPadded(row, names) == row

Padded(row, names) == [n \in Range(names) |-> IF n \in DOMAIN row THEN row[n] ELSE Null]
Matches(l, r, on) == \A n \in Range(on) : l[n] = r[n]

KeepsLeft == {"left", "outer"}
KeepsRight == {"right", "outer"}
Beside(l, r, p) ==
    Over(IF p[1] = NoRow THEN <<>> ELSE l[p[1]], IF p[2] = NoRow THEN <<>> ELSE r[p[2]])

\* pandas' merge (external), which takes a null for a value like any other
Merge(l, r, on, how, names) ==
    LET pairs == {p \in (DOMAIN l) \X (DOMAIN r) : Matches(l[p[1]], r[p[2]], on)}
        left == IF how \in KeepsLeft THEN DOMAIN l \ {p[1] : p \in pairs} ELSE {}
        right == IF how \in KeepsRight THEN DOMAIN r \ {p[2] : p \in pairs} ELSE {}
    IN  [p \in pairs \cup (left \X {NoRow}) \cup ({NoRow} \X right) |-> Padded(Beside(l, r, p), names)]

Others(names, on) == Chosen(names, {i \in DOMAIN names : names[i] \notin Range(on)})
JoinColumns(on, left, right) == on \o Others(left, on) \o Others(right, on)
Overlap(on, left, right) == (Range(left) \cap Range(right)) \ Range(on)

\* Mutant of Held: a row is held out when all of its keys are null.
MutHeld(row, on) == \A n \in Range(on) : row[n] = Null

\* _null_key_mask
Held(row, on) == \E n \in Range(on) : row[n] = Null

\* The keys are cast to a type of both sides, every other column stays as it came
JoinTypes(l, r, on) ==
    [n \in Range(l.names) \cup Range(r.names) |->
        CASE n \in Range(on) -> Promoted(l.types[n], r.types[n])
          [] n \in Range(l.names) \ Range(on) -> l.types[n]
          [] OTHER -> r.types[n]]

\* LocalJoin: null-keyed rows take no part in the merge, and the sides that keep their
\* unmatched rows get them back
LocalJoin(l, r, on, how) ==
    IF \/ ~l.ok \/ ~r.ok
       \/ ~(Range(on) \subseteq Range(l.names) \cap Range(r.names))
       \/ Overlap(on, l.names, r.names) # {}
       \/ \E n \in Range(on) : Promoted(l.types[n], r.types[n]) = NoType
    THEN Fails
    ELSE LET names == JoinColumns(on, l.names, r.names)
             HeldOf(t) == {i \in DOMAIN t.rows : Held(t.rows[i], on)}
             Free(t) == Restrict(t.rows, DOMAIN t.rows \ HeldOf(t))
             left == IF how \in KeepsLeft THEN HeldOf(l) ELSE {}
             right == IF how \in KeepsRight THEN HeldOf(r) ELSE {}
         IN  Table(names, JoinTypes(l, r, on),
                   Over(Merge(Free(l), Free(r), on, how, names),
                        [p \in (left \X {NoRow}) \cup ({NoRow} \X right) |->
                            Padded(Beside(l.rows, r.rows, p), names)]))

\* AlignJoin: the two halves of one aggregate have a null group each, which is the same group
AlignJoin(l, r, on) ==
    LET names == JoinColumns(on, l.names, r.names)
    IN  Table(names, JoinTypes(l, r, on), Merge(l.rows, r.rows, on, "outer", names))

\* Every row of both, known by the side it is of
Stacked(l, r) ==
    [p \in ({1} \X DOMAIN l) \cup ({2} \X DOMAIN r) |-> IF p[1] = 1 THEN l[p[2]] ELSE r[p[2]]]

LocalUnion(l, r) ==
    IF \/ ~l.ok \/ ~r.ok \/ l.names # r.names
       \/ \E n \in Range(l.names) : Promoted(l.types[n], r.types[n]) = NoType
    THEN Fails
    ELSE Table(l.names, [n \in Range(l.names) |-> Promoted(l.types[n], r.types[n])],
               Stacked(l.rows, r.rows))

\* Every test is the same; a null passes none
Passes(value) == value > 1
Passing(rows, n) == Restrict(rows, {i \in DOMAIN rows : Passes(rows[i][n])})

LocalFilter(t, n) ==
    IF ~t.ok \/ n \notin Range(t.names) THEN Fails
    ELSE Table(t.names, t.types, Passing(t.rows, n))

\* One column is copied under another name, over the column of that name
LocalWithColumn(t, name, from) ==
    IF ~t.ok \/ from \notin Range(t.names) THEN Fails
    ELSE Table(IF name \in Range(t.names) THEN t.names ELSE Append(t.names, name),
               Over([n \in {name} |-> t.types[from]], t.types),
               [i \in DOMAIN t.rows |-> Over([n \in {name} |-> t.rows[i][from]], t.rows[i])])

\* LocalProject: what each name is read from
Picked(t, names, from) ==
    IF ~t.ok \/ ~(Range(from) \subseteq Range(t.names)) THEN Fails
    ELSE LET Of(row) == [n \in Range(names) |->
                            row[from[CHOOSE i \in DOMAIN names : names[i] = n]]]
         IN  Table(names, Of(t.types), [i \in DOMAIN t.rows |-> Of(t.rows[i])])

-----------------------------------------------------------------------------
(* The splitter: a side or a subtree as _Frame, with the table it will be *)

Combines(step) == step.op \in {"join", "union"}

Resolve(n, renames) == IF n \in DOMAIN renames THEN renames[n] ELSE n

Fetched(side) ==
    IF Len(side.halves) = 1 THEN side.halves[1]
    ELSE AlignJoin(side.halves[1], side.halves[2], side.on)

Frame(refused, columns, renames, table) ==
    [refused |-> refused, columns |-> columns, renames |-> renames, table |-> table]

SideFrame(side) == Frame(FALSE, side.planned, side.renames, Fetched(side))

\* Asked of it from above; not of a side that is known only once it runs
Missing(l, r, columns, required) ==
    l.columns # <<>> /\ r.columns # <<>> /\ ~(required \subseteq Range(columns))

\* Mutant of KeysMissing: what is not known of a side is taken to be nothing.
MutKeysMissing(on, l, r) == \E f \in {l, r} : ~(Range(on) \subseteq Range(f.columns))

\* _check_join_keys
KeysMissing(on, l, r) ==
    \E f \in {l, r} : f.columns # <<>> /\ ~(Range(on) \subseteq Range(f.columns))

\* _join
JoinFrames(l, r, on, how, required) ==
    LET columns == JoinColumns(on, l.columns, r.columns)
    IN  Frame(\/ l.refused \/ ~IsInjective(on) \/ KeysMissing(on, l, r)
              \/ Overlap(on, l.columns, r.columns) # {}
              \/ Missing(l, r, columns, required),
              columns, Over(r.renames, l.renames), LocalJoin(l.table, r.table, on, how))

\* _union
UnionFrames(l, r, required) ==
    Frame(\/ l.refused
          \/ l.columns # <<>> /\ r.columns # <<>> /\ l.columns # r.columns
          \/ Missing(l, r, l.columns, required),
          l.columns, Over(r.renames, l.renames), LocalUnion(l.table, r.table))

\* _filter
FilterFrame(f, n) ==
    Frame(f.refused, f.columns, f.renames, LocalFilter(f.table, Resolve(n, f.renames)))

Produced(cols) ==
    LET named == {i \in DOMAIN cols : cols[i].alias \notin {NoAlias, KeyOf(cols[i])}}
    IN  [n \in {KeyOf(cols[i]) : i \in named} |-> cols[CHOOSE i \in named : KeyOf(cols[i]) = n].alias]

\* Mutant of Carried: nothing rides along.
MutCarried(sources, required, f) == <<>>

\* What a step above still reads rides along
Carried(sources, required, f) ==
    Chosen(f.columns, {i \in DOMAIN f.columns : f.columns[i] \in required \ Range(sources)})

Sources(f, cols) == [i \in DOMAIN cols |-> Resolve(cols[i].ref, f.renames)]
Copied(sources) ==
    {s \in Range(sources) : \E i, j \in DOMAIN sources : i # j /\ sources[i] = s /\ sources[j] = s}

\* A column that is selected under several names is made several
CopiesUpTo(t, cols, sources) ==
    LET upTo[k \in 0 .. Len(cols)] ==
            IF k = 0 THEN t
            ELSE IF sources[k] \in Copied(sources) /\ OutputOf(cols[k]) # sources[k]
            THEN LocalWithColumn(upTo[k - 1], OutputOf(cols[k]), sources[k])
            ELSE upTo[k - 1]
    IN  upTo
CopyEach(t, cols, sources) == CopiesUpTo(t, cols, sources)[Len(cols)]

\* _project
ProjectFrame(f, cols, required) ==
    LET sources == Sources(f, cols)
        named == [i \in DOMAIN cols |->
                     IF sources[i] \in Copied(sources) THEN OutputOf(cols[i]) ELSE sources[i]]
        carried == Carried(named, required, f)
        outputs == OutputsOf(cols) \o carried
    IN  Frame(f.refused, outputs, Produced(cols),
              Picked(CopyEach(f.table, cols, sources), outputs, named \o carried))

\* _outputs: what a subtree is known to produce, and what else it can be asked for
Known(names, keys) == [known |-> TRUE, names |-> names, keys |-> keys]
Unknown == [known |-> FALSE, names |-> <<>>, keys |-> {}]

OutputsOfSide(side) ==
    IF side.planned = <<>> THEN Unknown ELSE Known(side.planned, DOMAIN side.renames)

Above(out, step) ==
    CASE step.op = "select" -> Known(OutputsOf(step.cols), DOMAIN Produced(step.cols))
      [] step.op = "join" ->
            IF out.known /\ step.side.planned # <<>>
            THEN Known(JoinColumns(step.on, out.names, step.side.planned), {}) ELSE Unknown
      [] OTHER -> out

OutputsUpTo(p) ==
    LET upTo[i \in 1 .. Len(p)] ==
            IF i = 1 THEN OutputsOfSide(p[1].side) ELSE Above(upTo[i - 1], p[i])
    IN  upTo
Outputs(p) == OutputsUpTo(p)[Len(p)]

Reads(step) ==
    CASE step.op = "filter" -> {step.ref}
      [] step.op = "select" -> {step.cols[i].ref : i \in DOMAIN step.cols}
      [] Combines(step) -> {}

\* The step over a subtree asks for what the subtree is not known to have; a combination
\* asks its sides for nothing
Asks(p, i) ==
    LET below == OutputsUpTo(p)[i - 1] IN Reads(p[i]) \ (Range(below.names) \cup below.keys)
Required(p, i) ==
    UNION {Asks(p, j) : j \in {j \in i + 1 .. Len(p) : \A k \in i + 1 .. j : ~Combines(p[k])}}

SplitStep(f, step, required) ==
    CASE step.op = "join" -> JoinFrames(f, SideFrame(step.side), step.on, step.how, required)
      [] step.op = "union" -> UnionFrames(f, SideFrame(step.side), required)
      [] step.op = "filter" -> FilterFrame(f, step.ref)
      [] step.op = "select" -> ProjectFrame(f, step.cols, required)

SplitUpTo(p) ==
    LET upTo[i \in 1 .. Len(p)] ==
            IF i = 1 THEN SideFrame(p[1].side) ELSE SplitStep(upTo[i - 1], p[i], Required(p, i))
    IN  upTo
Split(p) == SplitUpTo(p)[Len(p)]

Outcome(kind, table) == [kind |-> kind, table |-> table]

\* split and execute: refused before a query is sent, or failed over what came back; known
\* outputs are projected to at the end, and nothing here can be totalled
Run(p, f) ==
    LET out == Outputs(p)
        table == IF out.known THEN Picked(f.table, out.names, out.names) ELSE f.table
    IN  IF totals \/ f.refused THEN Outcome("refused", Fails)
        ELSE IF ~table.ok THEN Outcome("failed", Fails)
        ELSE Outcome("table", table)

-----------------------------------------------------------------------------
(* What comes back, and what is written over it *)

Kinds == UNION {Range(chain) : chain \in Chains}

IsTable(t) ==
    /\ t = Table(t.names, t.types, t.rows)
    /\ t.names \in Seq(Range(t.names)) /\ t.names # <<>>
    /\ t.types \in [Range(t.names) -> Kinds]
    /\ t.rows \in [DOMAIN t.rows -> [Range(t.names) -> Nat]] /\ NoRow \notin DOMAIN t.rows

\* A group is a row of either half, known by its keys, and both have them all
AreHalves(halves, on, result) ==
    LET l == halves[1]
        r == halves[2]
    IN  /\ Len(halves) = 2 /\ \A i \in {1, 2} : IsTable(halves[i])
        /\ on \in Seq(Range(on)) /\ on # <<>>
        /\ Range(on) = Range(l.names) \cap Range(r.names)
        /\ result.names = JoinColumns(on, l.names, r.names)
        /\ DOMAIN l.rows = DOMAIN r.rows /\ DOMAIN result.rows = {<<g, g>> : g \in DOMAIN l.rows}
        /\ \A g, h \in DOMAIN l.rows : Matches(l.rows[g], l.rows[h], on) => g = h
        /\ \A i \in {1, 2} : \A n \in Range(halves[i].names) :
              /\ result.types[n] = halves[i].types[n]
              /\ \A g \in DOMAIN l.rows : result.rows[<<g, g>>][n] = halves[i].rows[g][n]

IsSide(side) ==
    /\ side.planned \in Seq(Range(side.planned)) /\ IsTable(side.result)
    /\ Range(side.renames) \subseteq Range(side.planned)
    /\ side.halves = <<side.result>> \/ AreHalves(side.halves, side.on, side.result)

IsCombination(step) ==
    /\ Combines(step) /\ IsSide(step.side)
    /\ step.op = "join" =>
          /\ step.on \in Seq(Range(step.on)) /\ step.on # <<>>
          /\ step.how \in {"inner", "left", "right", "outer"}

IsSelection(cols) ==
    cols \in Seq(Range(cols)) /\ cols # <<>> /\ \A c \in Range(cols) : c.calc = 0

ASSUME JoinsAssumption ==
    /\ \A side \in Sides : IsSide(side)
    /\ \A step \in Combinations \cup Again : IsCombination(step)
    /\ \A cols \in Selections : IsSelection(cols)

-----------------------------------------------------------------------------
(* DataFrame *)

Init ==
    /\ frame \in {<<[op |-> "side", side |-> side]>> : side \in Sides}
    /\ totals = FALSE
    /\ outcome = None

Combined == {i \in DOMAIN frame : Combines(frame[i])}

Derive(step) ==
    /\ outcome = None /\ Len(frame) <= MaxSteps
    /\ frame' = Append(frame, step)
    /\ UNCHANGED <<totals, outcome>>

\* Frames that are totalled are refused
Combine(op) ==
    /\ ~totals
    /\ \E step \in IF Combined = {} THEN Combinations ELSE Again : step.op = op /\ Derive(step)

Join == Combine("join")
Union == Combine("union")

Filter(n) == Combined # {} /\ Derive([op |-> "filter", ref |-> n])

\* Bound: a select() over a select() is Naming's
Select(cols) ==
    /\ Combined # {}
    /\ \A i \in DOMAIN frame : frame[i].op = "select" => \E c \in Combined : i < c
    /\ ~AliasRefused(cols)
    /\ Derive([op |-> "select", cols |-> cols])

\* Bound: of one combination
WithTotals ==
    /\ outcome = None /\ ~totals /\ Len(frame) = 2
    /\ totals' = TRUE
    /\ UNCHANGED <<frame, outcome>>

Collect ==
    /\ outcome = None /\ Combined # {}
    /\ outcome' = Run(frame, Split(frame))
    /\ UNCHANGED <<frame, totals>>

Next ==
    \/ Join
    \/ Union
    \/ \E n \in Filtered : Filter(n)
    \/ \E cols \in Selections : Select(cols)
    \/ WithTotals
    \/ Collect

Spec == Init /\ [][Next]_vars

-----------------------------------------------------------------------------
(***************************************************************************)
(* What a frame means, read off its steps: a row pairs with every row of   *)
(* equal keys and a null equals nothing; both names of a column stay good  *)
(* until another combination.                                              *)
(***************************************************************************)
Wider(w, n) == \E chain \in Chains : \E i, j \in DOMAIN chain : i < j /\ chain[i] = n /\ chain[j] = w

\* The narrowest type that holds the values of both
Widest(l, r) == IF l = r \/ Wider(l, r) THEN l ELSE IF Wider(r, l) THEN r ELSE NoType

Only(t, names) ==
    IF ~t.ok \/ ~(Range(names) \subseteq Range(t.names)) THEN Fails
    ELSE Table(names, [n \in Range(names) |-> t.types[n]],
               [i \in DOMAIN t.rows |-> [n \in Range(names) |-> t.rows[i][n]]])

MeantSide(side) == IF side.planned = <<>> THEN side.result ELSE Only(side.result, side.planned)

MeantTypes(l, r, shared) ==
    [n \in DOMAIN l.types \cup DOMAIN r.types |->
        CASE n \in shared -> Widest(l.types[n], r.types[n])
          [] n \in DOMAIN l.types \ shared -> l.types[n]
          [] OTHER -> r.types[n]]

Joinable(l, r, on) ==
    /\ l.ok /\ r.ok /\ IsInjective(on)
    /\ Range(on) \subseteq Range(l.names) /\ Range(on) \subseteq Range(r.names)
    /\ Range(l.names) \cap Range(r.names) \subseteq Range(on)
    /\ \A n \in Range(on) : Widest(l.types[n], r.types[n]) # NoType

Pairs(l, r, on) ==
    {p \in (DOMAIN l.rows) \X (DOMAIN r.rows) : \A n \in Range(on) :
        l.rows[p[1]][n] = r.rows[p[2]][n] /\ l.rows[p[1]][n] # Null}

\* Every pair, and the rows of no pair of the sides that keep them
MeantJoin(l, r, on, how) ==
    IF ~Joinable(l, r, on) THEN Fails
    ELSE LET pairs == Pairs(l, r, on)
             left == IF how \in {"left", "outer"} THEN DOMAIN l.rows \ {p[1] : p \in pairs} ELSE {}
             right == IF how \in {"right", "outer"} THEN DOMAIN r.rows \ {p[2] : p \in pairs} ELSE {}
             Cell(p, n) == IF p[1] # NoRow /\ n \in Range(l.names) THEN l.rows[p[1]][n]
                           ELSE IF p[2] # NoRow /\ n \in Range(r.names) THEN r.rows[p[2]][n] ELSE Null
             names == on \o Others(l.names, on) \o Others(r.names, on)
         IN  Table(names, MeantTypes(l, r, Range(on)),
                   [p \in pairs \cup (left \X {NoRow}) \cup ({NoRow} \X right) |->
                       [n \in Range(names) |-> Cell(p, n)]])

MeantUnion(l, r) ==
    IF l.ok /\ r.ok /\ l.names = r.names
       /\ \A n \in Range(l.names) : Widest(l.types[n], r.types[n]) # NoType
    THEN Table(l.names, MeantTypes(l, r, Range(l.names)), Stacked(l.rows, r.rows))
    ELSE Fails

\* A select() shows its outputs; what is below them can still be tested
MeantSelect(t, cols) ==
    LET From(n) == cols[CHOOSE i \in DOMAIN cols : OutputOf(cols[i]) = n].ref
        shown == Range(OutputsOf(cols))
        Anew(f) == Over([n \in shown |-> f[From(n)]], f)
    IN  IF ~t.ok \/ ~({cols[i].ref : i \in DOMAIN cols} \subseteq DOMAIN t.types) THEN Fails
        ELSE Table(OutputsOf(cols), Anew(t.types), [i \in DOMAIN t.rows |-> Anew(t.rows[i])])

MeantFilter(t, n) ==
    IF ~t.ok \/ n \notin DOMAIN t.types THEN Fails
    ELSE Table(t.names, t.types, Passing(t.rows, n))

MeantStep(t, step) ==
    CASE step.op = "join" -> MeantJoin(Only(t, t.names), MeantSide(step.side), step.on, step.how)
      [] step.op = "union" -> MeantUnion(Only(t, t.names), MeantSide(step.side))
      [] step.op = "filter" -> MeantFilter(t, step.ref)
      [] step.op = "select" -> MeantSelect(t, step.cols)

MeaningUpTo(p) ==
    LET upTo[i \in 1 .. Len(p)] ==
            IF i = 1 THEN MeantSide(p[1].side) ELSE MeantStep(upTo[i - 1], p[i])
    IN  upTo
Meaning(p) == MeaningUpTo(p)[Len(p)]
Meant == IF totals THEN Fails ELSE Only(Meaning(frame), Meaning(frame).names)

Occurrences(rows, row) == Cardinality({i \in DOMAIN rows : rows[i] = row})
Same(t, m) ==
    /\ m.ok /\ t.names = m.names /\ t.types = m.types
    /\ \A row \in Range(t.rows) \cup Range(m.rows) : Occurrences(t.rows, row) = Occurrences(m.rows, row)

-----------------------------------------------------------------------------
(* Properties *)

TypeOK ==
    /\ frame[1].side \in Sides /\ totals \in BOOLEAN
    /\ outcome.kind \in {"none", "refused", "failed", "table"}
    /\ outcome.kind = "table" =>
          \A row \in Range(outcome.table.rows) : DOMAIN row = Range(outcome.table.names)

Given == outcome.kind = "table"

SidesOf(p) == {p[i].side : i \in {i \in DOMAIN p : Combines(p[i])} \cup {1}}

\* A step over a combination names what one of its sides aliased away: it is read by that
\* alias, whatever else has the name
ReadByAlias ==
    \E c \in Combined, i \in DOMAIN frame :
        /\ c < i /\ \A k \in c + 1 .. i - 1 : frame[k].op = "filter"
        /\ Reads(frame[i]) \cap DOMAIN SplitUpTo(frame)[i - 1].renames # {}

\* What a step over a select() reads past it rides along, into the next combination too
Strays ==
    \E c \in Combined, i \in DOMAIN frame :
        i < c /\ frame[i].op = "select" /\ Required(frame, i) # {}

\* A hint of other columns than come, or in another order beside a side of unknown ones
Misled ==
    \E s \in SidesOf(frame) :
        /\ s.planned \notin {<<>>, s.result.names}
        /\ \/ Range(s.planned) # Range(s.result.names)
           \/ \E u \in SidesOf(frame) : u.planned = <<>>

\* Whatever was combined with whatever and read above it, the answer is the relational
\* one: null keys match nothing yet align the halves of an aggregate, duplicates multiply,
\* nothing is relabelled, types widen (LocalJoin, AlignJoin, LocalUnion, promote_type);
\* but for a name that a side aliased away, a column that strayed and a false hint.
AnswersAsMeant == Given /\ ~ReadByAlias /\ ~Strays /\ ~Misled => Same(outcome.table, Meant)

\* The same with aliases: a local step reads the column it names ("the name a user
\* wrote is the name on the table", _column).
ReadsWhatItNames == Given /\ ~Strays /\ ~Misled => Same(outcome.table, Meant)

\* The columns of a join with an unknown side are taken for all there are by the next one
Guesses ==
    \E c \in Combined : ~OutputsUpTo(frame)[c - 1].known /\ SplitUpTo(frame)[c - 1].columns # <<>>

\* Only what has no meaning is refused: a side that is known when it runs is not guessed
\* at (_check_join_keys, _join), but for the columns of a join that are known in part and
\* for those that strayed.
RefusedRightly == outcome.kind = "refused" => Guesses \/ Strays \/ ~Meant.ok

\* A column both sides of a combination have, of types that do not go together
Unlike(c) ==
    LET l == SplitUpTo(frame)[c - 1].table
        r == Fetched(frame[c].side)
    IN  \E n \in Range(l.names) \cap Range(r.names) : Widest(l.types[n], r.types[n]) = NoType

\* What can be known before anything runs is refused before anything runs (_union: "as
\* early as it can be made"): with sides that come back as planned, and but for a name
\* that a side aliased away, only two types that do not go together fail afterwards.
RefusedEarly ==
    outcome.kind = "failed" =>
        \/ ReadByAlias
        \/ \E s \in SidesOf(frame) : s.planned # s.result.names
        \/ \E c \in Combined : Unlike(c)
=============================================================================

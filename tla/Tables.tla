------------------------------- MODULE Tables -------------------------------
(***************************************************************************)
(* The tables the engine works on (compile/local.py): a table is a         *)
(* sequence of rows, a row a function from its columns to values.  Values  *)
(* are small numbers, and a filter on a column is one fixed test.          *)
(*                                                                         *)
(* One dimension is the group key ("state"), one is not ("age"); "sales"   *)
(* is a governed measure (a count of rows), "buyers" an ad-hoc aggregate   *)
(* (the distinct ages) and "derived" what with_column adds.                *)
(***************************************************************************)
EXTENDS Integers, Sequences, FiniteSets, SequencesExt

Dimensions == {"state", "age"}
Measures == {"sales"}
AdHoc == {"buyers"}
Aggregates == Measures \cup AdHoc
Columns == Dimensions \cup Aggregates \cup {"derived"}

(***************************************************************************)
(* A limit is a count, Unlimited (the wire's null: limit(None)) or Unset   *)
(* (nobody called limit; a Limit node may still carry an offset).          *)
(***************************************************************************)
Unlimited == 0
Unset == -1
Limits == {n \in Int : n >= Unset}

Over(row, cols) == [c \in cols |-> row[c]]

LocalProject(t, cols) == [i \in DOMAIN t |-> Over(t[i], cols)]

Holds(col, v) == IF col \in Aggregates THEN v > 1 ELSE v # 2

LocalFilter(t, col) == SelectSeq(t, LAMBDA r : Holds(col, r[col]))

\* slice: what is left after the offset, up to n rows of it when n is a count
LocalLimit(t, n, offset) ==
    LET rest == SubSeq(t, offset + 1, Len(t))
    IN  IF n > 0 /\ n < Len(rest) THEN SubSeq(rest, 1, n) ELSE rest

\* Stable, on the one sort key the frames use: state, descending
LocalSort(t) ==
    LET states == SetToSortSeq({t[i]["state"] : i \in DOMAIN t}, >)
    IN  FlattenSeq([k \in DOMAIN states |->
                        SelectSeq(t, LAMBDA r : r["state"] = states[k])])

\* One arithmetic expression; the test above tells its values from its operand's
DerivedFrom(v) == 3 - v

\* Adds the column, or replaces the one of that name
LocalWithColumn(t, name, from) ==
    [i \in DOMAIN t |-> [c \in DOMAIN t[i] \cup {name} |->
        IF c = name THEN DerivedFrom(t[i][from]) ELSE t[i][c]]]

Aggregated(col, t) ==
    IF col = "sales" THEN Len(t) ELSE Cardinality({t[i]["age"] : i \in DOMAIN t})

\* The distinct group keys, in order of first appearance
GroupKeys(t, keys) ==
    FoldLeft(LAMBDA seen, r : IF Contains(seen, Over(r, keys)) THEN seen
                              ELSE Append(seen, Over(r, keys)), <<>>, t)

LocalAggregate(t, keys, aggs) ==
    LET found == GroupKeys(t, keys)
        Member(k) == SelectSeq(t, LAMBDA r : Over(r, keys) = found[k])
    IN  [k \in DOMAIN found |-> [c \in keys \cup aggs |->
            IF c \in keys THEN found[k][c] ELSE Aggregated(c, Member(k))]]

\* A value neither half supplies: no aggregate of a group is zero
Null == 0

(***************************************************************************)
(* The outer merge of the governed half and the ad-hoc half of one         *)
(* aggregate, on "state"; pandas orders an outer merge by its key.         *)
(***************************************************************************)
AlignJoin(governed, adhoc) ==
    LET keys == SetToSortSeq({governed[i]["state"] : i \in DOMAIN governed}
                             \cup {adhoc[i]["state"] : i \in DOMAIN adhoc}, <)
        Of(t, s, col) == LET at == {i \in DOMAIN t : t[i]["state"] = s}
                         IN  IF at = {} THEN Null ELSE t[CHOOSE i \in at : TRUE][col]
    IN  [k \in DOMAIN keys |->
            [state |-> keys[k], sales |-> Of(governed, keys[k], "sales"),
             buyers |-> Of(adhoc, keys[k], "buyers")]]
=============================================================================

---------------------------- MODULE MCPredicates ----------------------------
(* The instance of Predicates that TLC checks. *)
EXTENDS Predicates

(***************************************************************************)
(* Nine rows: any two of text, number, flag and time take all nine pairs   *)
(* of null and two values between them (an orthogonal array), so that      *)
(* every connective meets every pair of true, false and null.  The times   *)
(* are noon of the first day of a month and midnight of the second.        *)
(***************************************************************************)
Third(i, a, b) == <<Null, a, b>>[(i % 3) + 1]
MCRow(i, j) ==
    [text |-> Third(i, 1, 2), num |-> Third(j, 1, 2), flag |-> Third(i + j, 0, 1),
     time |-> Third(i + 2 * j, 1, 2), month |-> Month(Third(i + 2 * j, 1, 2)),
     sales |-> Third(i + 2 * j + 1, 1, 2)]
MCRows == {MCRow(i, j) : i, j \in 0 .. 2}

Lit(type, v) == [type |-> type, v |-> v]
Number(v) == Lit("number", v)
Text(v) == Lit("string", v)
Date(v) == Lit("date", v)
None == Lit("none", Null)
Cmp(field, cmp, lit) == [op |-> "cmp", field |-> field, cmp |-> cmp, lit |-> lit]
In(field, lits) == [op |-> "isin", field |-> field, lits |-> lits]
Between(field, low, high) == [op |-> "between", field |-> field, low |-> low, high |-> high]
Bare(field) == [op |-> "field", field |-> field]

TextTests ==
    {Cmp("text", "=", Text(1)), Cmp("text", "#", Text(1)), Cmp("text", "<", Text(2)),
     In("text", <<Text(1), None>>), [op |-> "string", field |-> "text", matches |-> {2}],
     Bare("text")}
NumberTests ==
    {Cmp("num", "<", Number(2)), Cmp("num", "=", None), In("num", <<Number(1), Number(2)>>),
     Between("num", Number(1), Number(1)),
     [op |-> "fields", field |-> "num", cmp |-> "=", other |-> "sales"],
     Cmp("sales", ">", Number(1)), Bare("sales")}
FlagTests ==
    {Bare("flag"), Cmp("flag", "=", Lit("boolean", 0)), Cmp("flag", "#", Lit("boolean", 1)),
     In("flag", <<Lit("boolean", 1)>>)}
DateTests ==
    {Cmp("time", "=", Date(0)), Cmp("time", ">=", Date(2)), Cmp("time", ">", Date(0)),
     Between("time", Date(0), Date(2)), Cmp("month", "<", Date(2)),
     Cmp("month", ">=", Lit("relative", 2)), Cmp("time", "#", Lit("datetime", 1))}

MCTests == TextTests \cup NumberTests \cup FlagTests \cup DateTests
\* Two tests of one field among them, one that lists, one that negates
MCCommon ==
    {Cmp("text", "#", Text(1)), In("num", <<Number(1), Number(2)>>), Cmp("num", "<", Number(2)),
     Bare("flag"), Cmp("time", ">=", Date(2))}
FewTests == {Cmp("time", "=", Date(0))}
=============================================================================

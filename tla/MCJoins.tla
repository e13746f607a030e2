------------------------------ MODULE MCJoins ------------------------------
(***************************************************************************)
(* Joins for TLC: sides over a key with nulls and duplicates and a column  *)
(* both of them have, aliased in every way; sides that are known only once *)
(* they run, in part or wrongly; an aggregate in two halves.               *)
(***************************************************************************)
EXTENDS Joins

k == Name("k")
a == Name("a")
b == Name("b")
c == Name("c")
x == Name("x")

Col(ref, alias) == [ref |-> ref, calc |-> 0, measured |-> FALSE, alias |-> alias]
F(ref) == Col(ref, NoAlias)

Types(key, names) == [n \in Range(names) |-> IF n = k THEN key ELSE "int64"]
Row(names, cells) == [n \in Range(names) |-> cells[CHOOSE j \in DOMAIN names : names[j] = n]]
Of(key, names, cells) ==
    Table(names, Types(key, names),
          [r \in {<<i>> : i \in DOMAIN cells} |-> Row(names, cells[r[1]])])

Side(planned, renames, halves, result) ==
    [planned |-> planned, renames |-> renames, halves |-> halves, on |-> <<k>>, result |-> result]
Arrives(planned, renames, table) == Side(planned, renames, <<table>>, table)
Picks(cols, key, cells) ==
    Arrives(OutputsOf(cols), Produced(cols), Of(key, OutputsOf(cols), cells))
Opaque(key, names, cells) == Arrives(<<>>, <<>>, Of(key, names, cells))
Hinted(planned, names, cells) == Arrives(planned, <<>>, Of("int64", names, cells))

Left == <<<<1, 1>>, <<2, 2>>, <<Null, 2>>, <<Null, 1>>>>
Right == <<<<2, 1>>, <<2, 2>>, <<3, 1>>, <<Null, 2>>>>

Halved ==
    Side(<<k, b, c>>, <<>>,
         <<Of("int64", <<k, b>>, <<<<2, 2>>, <<3, 1>>, <<Null, 2>>>>),
           Of("int64", <<k, c>>, <<<<2, 1>>, <<3, 1>>, <<Null, 1>>>>)>>,
         Table(<<k, b, c>>, Types("int64", <<k, b, c>>),
               [g \in {<<<<i>>, <<i>>>> : i \in 1 .. 3} |->
                   Row(<<k, b, c>>, <<<<2, 2, 1>>, <<3, 1, 1>>, <<Null, 2, 1>>>>[g[1][1]])]))

A == Picks(<<F(k), F(a)>>, "int64", Left)
AsX == Picks(<<F(k), Col(a, x)>>, "int32", Right)
Sql == Opaque("double", <<k, c>>, Right)
MCSides ==
    {A, AsX, Sql, Halved,
     Picks(<<F(k), Col(b, a)>>, "decimal", Right),
     Picks(<<F(k), F(b)>>, "string", Right),
     Opaque("int64", <<k, a>>, Right),
     Hinted(<<k, b>>, <<b, k>>, Left),
     Hinted(<<k, c>>, <<k, x>>, Left)}

JoinOf(side, on, how) == [op |-> "join", side |-> side, on |-> on, how |-> how]
UnionOf(side) == [op |-> "union", side |-> side]

Joined ==
    {<<<<k>>, "inner">>, <<<<k>>, "left">>, <<<<k>>, "right">>, <<<<k>>, "outer">>,
     <<<<k, a>>, "outer">>, <<<<c>>, "inner">>, <<<<k, k>>, "inner">>}
MCCombinations ==
    {IF w[2] = <<>> THEN UnionOf(w[1]) ELSE JoinOf(w[1], w[2][1], w[2][2]) :
        w \in MCSides \X (Joined \cup {<<>>})}
MCAgain ==
    {UnionOf(A), UnionOf(Sql), JoinOf(AsX, <<k>>, "outer"), JoinOf(Sql, <<k>>, "left"),
     JoinOf(Halved, <<c>>, "inner"), JoinOf(Halved, <<k>>, "outer")}

\* A column both sides have, aliased on one of them, as the refusal of a join advises
Two == {A, AsX}
JoinTwo == {JoinOf(AsX, <<k>>, "inner")}

MCFiltered == {k, a, c}
MCSelections ==
    {<<F(k)>>, <<F(a), F(k)>>, <<F(k), Col(k, b)>>, <<F(c), Col(a, b)>>, <<Col(c, a), F(k)>>}
=============================================================================

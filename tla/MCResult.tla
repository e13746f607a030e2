------------------------------ MODULE MCResult ------------------------------
(***************************************************************************)
(* Result for TLC: a dimension, a time field at a grain and a measure; two *)
(* more names to give; every way two names can meet.                       *)
(***************************************************************************)
EXTENDS Result

Col(ref, calc, measured, alias) ==
    [ref |-> Name(ref), calc |-> calc, measured |-> measured, alias |-> alias]
F(ref) == Col(ref, 0, FALSE, NoAlias)
As(c, n) == [c EXCEPT !.alias = Name(n)]
M(ref) == [F(ref) EXCEPT !.measured = TRUE]
Plus(c) == [c EXCEPT !.calc = 1]

MCSelections ==
    {<<F("state"), M("sales")>>,
     <<As(F("state"), "x"), As(M("sales"), "y")>>,
     <<F("month"), As(F("state"), "x"), M("sales")>>,
     <<As(F("state"), "month")>>,
     <<As(F("state"), "month"), F("month")>>,
     <<Plus(F("sales")), Plus(F("sales"))>>,
     <<As(Plus(F("sales")), "x"), F("month")>>,
     <<F("state"), As(F("state"), "x")>>,
     <<Plus(M("sales")), F("state")>>,
     <<F("state"), F("state")>>}

MCNarrowings ==
    {<<F("x")>>, <<M("sales"), F("state")>>, <<As(F("x"), "y"), F("month")>>, <<F("state")>>, <<F("sales"), F("state")>>,
     <<F("x"), F("state")>>}

MCColumns ==
    {[name |-> Name("x"), ref |-> Name("state"), calc |-> 1],
     [name |-> Name("y"), ref |-> Name("x"), calc |-> 1],
     [name |-> Name("state"), ref |-> Name("state"), calc |-> 1],
     [name |-> Name("y"), ref |-> Name("month"), calc |-> 0]}

MCStoredFields == <<Name("month"), Name("sales")>>

Whole == <<"header", "job", "footer">>
MCBodies ==
    {SubSeq(Whole, 1, k) \o tail : k \in 0 .. 3, tail \in {<<>>, <<"torn">>, <<"message">>}}
        \cup {<<"header", "junk", "job", "footer">>}

Model(known, formatted) == [known |-> known, formatted |-> formatted]
MCModels ==
    {Model({"state", "month", "sales"}, {}), Model({"state", "month", "sales"}, {"month"}),
     Model({"month", "sales"}, {"month"})}

Style(indicators, flag, empty, sidecar, total) ==
    [indicators |-> indicators, flag |-> flag, empty |-> empty, sidecar |-> sidecar, total |-> total]
At(i) == Indicators[i]
Plain == Style({}, NoAlias, Null, "none", FALSE)
MCStyles ==
    {Plain,
     Style({At(1)}, NoAlias, Blank, "none", FALSE),
     Style({At(1)}, At(1), Null, "none", TRUE),
     Style({At(2), At(4)}, At(2), Blank, "kept", TRUE),
     Style({At(1), At(3)}, At(3), Blank, "null", TRUE),
     Style({At(1), At(2), At(3), At(4)}, At(4), Null, "kept", TRUE)}

MCRequests ==
    {[model |-> r[1], style |-> r[2], body |-> r[3]] :
        r \in (MCModels \X MCStyles \X {Whole})
              \cup ({Model({"state", "month", "sales"}, {"month"})} \X {Plain} \X MCBodies)}
=============================================================================

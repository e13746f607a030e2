------------------------------ MODULE MCSession ------------------------------
(***************************************************************************)
(* Session for TLC: two models, and one name nobody has; every notebook;   *)
(* documents with a name used twice, unnamed queries and one named as if   *)
(* it were unnamed, entries that are no queries, queries with and without  *)
(* a model.                                                                *)
(***************************************************************************)
EXTENDS Session, TLC

MCReach == "orders" :> "m1" @@ "events" :> "m2" @@ "typo" :> NoModel

Query(name, id, model, version) ==
    [junk |-> FALSE, name |-> name, id |-> id, model |-> model, version |-> version]
Doc(status, entries) == [status |-> status, entries |-> entries]

Twice == <<Query("a", "q1", "m1", "v1"), Query("a", "q2", "m2", Unversioned)>>
Mixed == <<Junk, Query(Unnamed, "q3", NoModel, "v1"), Query("(unnamed #0)", "q4", "m2", "v1")>>
Empty == <<Query("a", NoQuery, NoModel, Unversioned)>>
MCDocuments ==
    {Doc("unknown", <<>>), Doc("no_dashboard", <<>>), Doc("garbled", <<>>),
     Doc("ok", Twice), Doc("ok", Mixed), Doc("ok", Empty)}

ByIndex(i) == [by |-> "index", at |-> i, name |-> Unnamed]
ByName(n) == [by |-> "name", at |-> 0, name |-> n]
MCPicks ==
    {ByIndex(-1), ByIndex(0), ByIndex(1), ByIndex(2), ByName("a"), ByName("(unnamed #0)"),
     [ByIndex(0) EXCEPT !.by = "neither"]}
=============================================================================

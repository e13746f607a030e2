---------------------------- MODULE MCDataFrame ----------------------------
(* The instances of DataFrame that TLC checks. *)
EXTENDS DataFrame

Row(state, age) == [state |-> state, age |-> age]

\* Five rows in three states: one more than the fetch limit.  A filter on age
\* leaves one state whole, one in part and one with nothing
MCRows == <<Row(1, 1), Row(1, 3), Row(2, 1), Row(2, 2), Row(3, 2)>>

Session(source, cap, sql) == [source |-> source, cap |-> cap, sql |-> sql]
Topic(cap, sql) == Session("topic", cap, sql)

\* Every source, the cap on and off, tier 2 on and off
AllSessions ==
    {Topic(Unlimited, TRUE), Topic(Unlimited, FALSE), Topic(2, FALSE),
     Session("sql", 2, TRUE), Session("stored", 2, TRUE),
     Session("storedLimited", Unlimited, TRUE), Session("storedAll", 2, TRUE)}

AllSelects == {Select(cols) : cols \in {{"state"}, {"state", "age"}, {"state", "sales"},
                                        {"state", "age", "sales"}}}
AllGroups == {Group(aggs) : aggs \in SUBSET Aggregates \ {{}}}
\* Only a dimension is tested by a relative date
AllFilters == {f \in Filters : f.kind = "date" => f.col \in Dimensions}
AllDerives == {d \in Derives : <<d.name, d.from>> \in {<<"age", "state">>, <<"derived", "age">>}}
FullAlphabet == AllSelects \cup AllGroups \cup AllFilters \cup AllDerives

Test(col, kind) == [op |-> "filter", col |-> col, kind |-> kind]
Derive(name, from, kind) == [op |-> "derive", name |-> name, from |-> from, kind |-> kind]

\* Around aggregates that are decomposed, plans are one step longer
LongTopics == {Topic(2, FALSE)}
LongWords ==
    {Select({"state", "age"}), Select({"state", "sales"}),
     Group({"buyers"}), Group(Aggregates),
     Test("age", "wire"), Test("age", "udf"), Test("buyers", "wire"),
     Derive("age", "state", "udf")}

\* What each disagreement with the documentation needs
GroupAlphabet == {Select({"state", "sales"}), Test("age", "udf")}
OrderAlphabet == {Select({"state", "age"}), Test("age", "wire"), Derive("age", "state", "sql")}
=============================================================================

------------------------------ MODULE MCCatalog ------------------------------
(***************************************************************************)
(* Catalog for TLC: two models whose names differ in case only, one of     *)
(* them with an id the ?modelId= filter rejects; or two of the same name.  *)
(***************************************************************************)
EXTENDS Catalog, TLC

CONSTANTS a, b

TwoModels == <<a, b>>
CaseApart == a :> "orders" @@ b :> "Orders"
SameName == a :> "orders" @@ b :> "orders"
IgnoreCase == [n \in {"orders", "Orders", ""} |-> IF n = "" THEN "" ELSE "orders"]
IgnoreCaseOne == [n \in {"orders", ""} |-> n]
=============================================================================

----------------------------- MODULE ReadThrough -----------------------------
(***************************************************************************)
(* What a read-through cache promises, with the lookups that fill it       *)
(* hidden.  The server's contents change at will.  An entry is filled from *)
(* what the server holds at that moment (or, for some keys, from a reply   *)
(* that could not be read), then keeps that value until everything is      *)
(* dropped at once.                                                        *)
(***************************************************************************)
CONSTANTS Keys, Contents, Missing, Unreadable, Garbled

VARIABLES server, cache

vars == <<server, cache>>

Nothing == [k \in Keys |-> Missing]

Init == /\ server \in [Keys -> Contents]
        /\ cache = Nothing

Change == /\ server' \in [Keys -> Contents]
          /\ UNCHANGED cache

Fill(k) == /\ cache[k] = Missing
           /\ \/ cache' = [cache EXCEPT ![k] = server[k]]
              \/ k \in Unreadable /\ cache' = [cache EXCEPT ![k] = Garbled]
           /\ UNCHANGED server

Drop == /\ cache' = Nothing
        /\ UNCHANGED server

Next == Change \/ Drop \/ \E k \in Keys : Fill(k)

Spec == Init /\ [][Next]_vars
=============================================================================

-------------------------------- MODULE Gate --------------------------------
(***************************************************************************)
(* What a session promises about its preflight, with its calls hidden:     *)
(* nothing but whoami is sent before the server has once accepted the key, *)
(* a preflight that failed is tried again, one that succeeded never is     *)
(* (verify() alone asks again), and nothing closes the gate.  The server   *)
(* accepts or refuses the key as it likes, from one moment to the next.    *)
(***************************************************************************)
VARIABLES
    accepts,        \* server: whether it accepts the key
    open,           \* the server has accepted it once
    sent            \* the last request sent

vars == <<accepts, open, sent>>

Init == accepts \in BOOLEAN /\ open = FALSE /\ sent = "nothing"

Decide == accepts' \in BOOLEAN /\ UNCHANGED <<open, sent>>

\* The gate opens only for a key the server accepts, and stays open
Asked == open' \in {open, open \/ accepts} /\ UNCHANGED accepts

Preflight == ~open /\ Asked /\ sent' = "preflight"

Verify == Asked /\ sent' = "verify"

Request == open /\ sent' = "request" /\ UNCHANGED <<accepts, open>>

Next == Decide \/ Preflight \/ Verify \/ Request

Spec == Init /\ [][Next]_vars
=============================================================================

------------------------------ MODULE SendCall ------------------------------
(***************************************************************************)
(* What one call of HttpTransport._send promises to its callers, with the  *)
(* retries hidden.  A POST reaches the server's handler at most once; a    *)
(* GET may reach it any number of times; a response is handed back only if *)
(* the handler ran; nothing happens after the call has ended.              *)
(***************************************************************************)
EXTENDS Naturals

VARIABLES method, executed, outcome

vars == <<method, executed, outcome>>

\* Executions the handler may have seen after one more attempt.
Reaches(n) == \/ n = executed
              \/ /\ n = executed + 1
                 /\ method = "POST" => executed = 0

Init == /\ method \in {"GET", "POST"}
        /\ executed = 0
        /\ outcome = "none"

\* The server ran the handler and the client kept the call open (its answer was lost).
Replayed == /\ outcome = "none"
            /\ method = "GET"
            /\ executed' = executed + 1
            /\ UNCHANGED <<method, outcome>>

Answered == /\ outcome = "none"
            /\ method = "POST" => executed = 0
            /\ executed' = executed + 1
            /\ outcome' = "response"
            /\ UNCHANGED method

Failed == /\ outcome = "none"
          /\ \E n \in {executed, executed + 1} : Reaches(n) /\ executed' = n
          /\ outcome' = "error"
          /\ UNCHANGED method

Next == Replayed \/ Answered \/ Failed

Spec == Init /\ [][Next]_vars

-----------------------------------------------------------------------------
\* A POST is executed at most once, and a response proves an execution: replaying
\* POST /query/run would submit a second job (http.py, _send).
AtMostOnce == /\ method = "POST" => executed <= 1
              /\ outcome = "response" => executed >= 1
=============================================================================

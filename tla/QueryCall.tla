------------------------------ MODULE QueryCall ------------------------------
(***************************************************************************)
(* What HttpTransport.run and .plan promise, with the NDJSON stream, the   *)
(* wait loop and the clock hidden: a call submits its jobs at most once,   *)
(* ends at most once, answers with a job that really succeeded and blames  *)
(* a job that really failed, or one whose line the server delivered and    *)
(* then dropped, so that a later question about it finds nothing.          *)
(***************************************************************************)
CONSTANTS Jobs, Successes, Failures

VARIABLES submitted, truth, forgotten, outcome

vars == <<submitted, truth, forgotten, outcome>>

Endings == Successes \cup Failures

Init == /\ submitted = FALSE
        /\ truth = [j \in Jobs |-> "running"]
        /\ forgotten = {}
        /\ outcome = [kind |-> "none", jobs |-> {}]

Submit == /\ ~submitted
          /\ outcome.kind = "none"
          /\ submitted' = TRUE
          /\ UNCHANGED <<truth, forgotten, outcome>>

JobEnds(j) == /\ submitted
              /\ truth[j] = "running"
              /\ \E ending \in Endings : truth' = [truth EXCEPT ![j] = ending]
              /\ UNCHANGED <<submitted, forgotten, outcome>>

\* The server drops what it delivered: a later question about these jobs finds nothing.
Forget == /\ outcome.kind = "none"
          /\ \E lost \in SUBSET {j \in Jobs : truth[j] # "running"} :
                forgotten' = forgotten \cup lost
          /\ UNCHANGED <<submitted, truth, outcome>>

Answer(j) == /\ submitted
             /\ truth[j] \in Successes
             /\ outcome' = [kind |-> "answer", jobs |-> {j}]

Blame(j) == /\ submitted
            /\ truth[j] \in Failures \/ j \in forgotten
            /\ outcome' = [kind |-> "query_error", jobs |-> {j}]

TimeOut == /\ submitted
           /\ \E remaining \in (SUBSET Jobs) \ {{}} :
                 outcome' = [kind |-> "timeout", jobs |-> remaining]

BreakDown == outcome' = [kind |-> "transport_error", jobs |-> {}]

Conclude == /\ outcome.kind = "none"
            /\ (\E j \in Jobs : Answer(j) \/ Blame(j)) \/ TimeOut \/ BreakDown
            /\ UNCHANGED <<submitted, truth, forgotten>>

Next == Submit \/ Forget \/ Conclude \/ \E j \in Jobs : JobEnds(j)

Spec == Init /\ [][Next]_vars
=============================================================================

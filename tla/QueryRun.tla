------------------------------ MODULE QueryRun ------------------------------
(***************************************************************************)
(* HttpTransport.run and .plan: POST /query/run, then GET /query/wait      *)
(* until no job is pending, merging every NDJSON response into one         *)
(* StreamAccumulator, under a client-side deadline.  The jobs run on the   *)
(* server, concurrently with the loop.                                     *)
(*                                                                         *)
(* The server is external.  A job's terminal line is written when the job  *)
(* has ended; whether a line that was sent once can be sent again is the   *)
(* constant Redelivers.  A request is one HttpSend call: a POST that gets  *)
(* no answer fails, a GET is replayed up to MaxRetries times.              *)
(***************************************************************************)
EXTENDS Integers, Sequences

CONSTANTS
    Jobs,           \* the job ids of one call
    Submitted,      \* the header: Jobs in submission order
    Modes,          \* the calls explored: TRUE for plan (planOnly), FALSE for run
    Budgets,        \* min(deadline_seconds, max_deadline_seconds), in ticks
    PollInterval,   \* poll_interval_seconds
    MaxRetries,     \* max_retries of the GET behind each wait
    MaxSend,        \* the longest one request and its backoff take
    Redelivers      \* whether /query/wait repeats the line of a job already reported

ASSUME RunAssumption ==
    /\ Submitted \in Seq(Jobs) /\ Submitted # <<>>
    /\ Jobs = {Submitted[i] : i \in 1 .. Len(Submitted)}
    /\ \A i, k \in 1 .. Len(Submitted) : Submitted[i] = Submitted[k] => i = k
    /\ Modes \subseteq BOOLEAN
    /\ Budgets \subseteq Nat
    /\ PollInterval \in Nat \ {0}
    /\ MaxRetries \in Nat
    /\ MaxSend \in Nat
    /\ Redelivers \in BOOLEAN

VARIABLES
    plan_only, budget,
    truth,          \* server: what has become of each job
    told,           \* the jobs whose final line has arrived
    submitted,      \* server: how many times the jobs were submitted
    pc,             \* client: "post", "posted", "loop", "wait" or "done"
    lines,          \* accumulator: the line held for each job
    footer,         \* accumulator: remaining_job_ids of the latest footer
    previous,       \* client: the pending set of the last wait
    retries,        \* client: network retries of the current wait
    now,            \* time since the call started
    outcome,
    lost,           \* the jobs whose final line was in a response that never arrived
    reasked         \* history: the jobs asked about although their final line had arrived

server == <<truth, told, lost, submitted>>
accumulator == <<lines, footer>>
vars == <<plan_only, budget, server, pc, accumulator, previous, retries, now, outcome, reasked>>

\* What a line can say.  "complete" carries a result; "missing_fields" too, with names the
\* planner dropped; "no_result" is COMPLETE without a payload; "disguised" is COMPLETE with
\* "Failed to plan query" or with requery_sql instead of a result; "failed" is ERROR or
\* FAILED; "planned" and "planned_missing" answer planOnly; "executing" stands for every
\* status the client does not know as terminal.
Terminal == {"complete", "missing_fields", "no_result", "disguised", "failed", "unknown_job"}
Failing  == {"disguised", "failed", "unknown_job"}
Kinds    == Terminal \cup {"planned", "planned_missing", "executing"}

Endings == IF plan_only
           THEN {"planned", "planned_missing", "disguised", "failed"}
           ELSE {"complete", "missing_fields", "no_result", "disguised", "failed"}

NoLine == "no_line"
NotYet == {"not_yet"}    \* previous before the first wait: no set of jobs equals it

None == [kind |-> "none", jobs |-> {}]

Init ==
    /\ plan_only \in Modes
    /\ budget \in Budgets
    /\ truth = [j \in Jobs |-> "running"]
    /\ told = {}
    /\ submitted = 0
    /\ pc = "post"
    /\ lines = [j \in Jobs |-> NoLine]
    /\ footer = {}
    /\ previous = NotYet
    /\ retries = 0
    /\ now = 0
    /\ outcome = None
    /\ lost = {}
    /\ reasked = {}

-----------------------------------------------------------------------------
(* The accumulator *)

\* Mutants of Keep: the last line wins; the first line wins.
MutLastWins(held, line) == IF line = NoLine THEN held ELSE line
MutFirstWins(held, line) == IF held = NoLine THEN line ELSE held

\* One job line merged: a repeated job keeps its terminal line, and a tie the line held.
Keep(held, line) ==
    IF \/ line = NoLine
       \/ held # NoLine /\ (held \in Terminal \/ line \notin Terminal)
    THEN held
    ELSE line

\* Mutant of Pending: whatever the footer lists.
MutFooter == footer

\* Reported by the footer and not yet answered by a terminal line.
Pending == {j \in footer : lines[j] \notin Terminal}

Reported == {j \in Jobs : lines[j] # NoLine}

\* Mutant of First: the primary job, whatever was asked for.
MutPrimary(jobs) == Submitted[1]

\* The first of some jobs in submission order.
First(jobs) ==
    CHOOSE j \in jobs : \E i \in 1 .. Len(Submitted) :
        Submitted[i] = j /\ \A k \in 1 .. i - 1 : Submitted[k] \notin jobs

-----------------------------------------------------------------------------
(* The server *)

\* The jobs whose final line the server has written before and will not repeat.
Spent == IF Redelivers THEN {} ELSE told \cup lost

\* The jobs whose final line a response may carry.
Deliverable(asked) ==
    {j \in asked \ Spent : truth[j] # "running"}

\* A response to a question about asked.  It carries the final lines of some jobs that
\* ended, intermediate lines before or after them, and "Unable to find job" for some of
\* the jobs it reported before; its footer lists every other job, and may still list a
\* job that ended while the response was being written, whatever its final line says.
Merge(asked, final, unknown, interim, late, stale) ==
    LET last(j)  == IF j \in final THEN truth[j]
                    ELSE IF j \in unknown THEN "unknown_job" ELSE NoLine
        aside(j) == IF j \in interim THEN "executing" ELSE NoLine
    IN  /\ lines' = [j \in Jobs |-> IF late THEN Keep(Keep(lines[j], last(j)), aside(j))
                                            ELSE Keep(Keep(lines[j], aside(j)), last(j))]
        /\ footer' = (asked \ (final \cup Spent)) \cup stale
        /\ told' = told \cup final

Respond(asked) ==
    \E final \in SUBSET Deliverable(asked), interim \in SUBSET asked, late \in BOOLEAN :
    \E unknown \in SUBSET (asked \cap Spent), stale \in SUBSET final :
          Merge(asked, final, unknown, interim, late, stale)

JobEnds(j) ==
    /\ submitted > 0
    /\ truth[j] = "running"
    /\ \E ending \in Endings : truth' = [truth EXCEPT ![j] = ending]
    /\ UNCHANGED <<plan_only, budget, told, lost, submitted, pc, accumulator, previous,
                   retries, now, outcome, reasked>>

-----------------------------------------------------------------------------
(* The client *)

End(kind, jobs) == pc' = "done" /\ outcome' = [kind |-> kind, jobs |-> jobs]

Elapse == \E d \in 0 .. MaxSend : now' = now + d

\* POST /query/run is sent; it is accepted, or refused with an HTTP error.
Post ==
    /\ pc = "post"
    /\ \/ submitted' = submitted + 1 /\ pc' = "posted" /\ outcome' = outcome
       \/ submitted' = submitted /\ End("rejected", {})
    /\ UNCHANGED <<plan_only, budget, truth, told, lost, accumulator, previous, retries, now,
                   reasked>>

\* No answer to the POST: _send does not replay it.
PostUnanswered ==
    /\ pc = "posted"
    /\ Elapse
    /\ End("unreachable", {})
    /\ UNCHANGED <<plan_only, budget, server, accumulator, previous, retries, reasked>>

RunAnswered ==
    /\ pc = "posted"
    /\ Elapse
    /\ Respond(Jobs)
    /\ pc' = "loop"
    /\ UNCHANGED <<plan_only, budget, truth, lost, submitted, previous, retries, outcome,
                   reasked>>

\* The response ended with an upstream failure (or was malformed): _absorb raises.
UpstreamFailure ==
    /\ pc \in {"posted", "wait"}
    /\ Elapse
    /\ End("upstream", {})
    /\ UNCHANGED <<plan_only, budget, server, accumulator, previous, retries, reasked>>

\* _check_deadline raises.
TimeOut == End("timeout", Pending)

MutNoPacing == TRUE

\* The pending set shrank since the last question, so the next one need not wait.
Shrank == previous = NotYet \/ (Pending \subseteq previous /\ Pending # previous)

\* The loop's body up to the request: check the deadline, pace the poll and check again.
Ask ==
    /\ pc = "loop"
    /\ Pending # {}
    /\ now' = IF now < budget /\ ~Shrank THEN now + PollInterval ELSE now
    /\ IF now' < budget
       THEN /\ pc' = "wait"
            /\ previous' = Pending
            /\ retries' = 0
            /\ reasked' = reasked \cup (Pending \cap told)
            /\ outcome' = outcome
       ELSE TimeOut /\ UNCHANGED <<previous, retries, reasked>>
    /\ UNCHANGED <<plan_only, budget, server, accumulator>>

WaitAnswered ==
    /\ pc = "wait"
    /\ Elapse
    /\ Respond(previous)
    /\ pc' = "loop"
    /\ UNCHANGED <<plan_only, budget, truth, lost, submitted, previous, retries, outcome,
                   reasked>>

MutReplayOnceMore == retries <= MaxRetries

MayReplay == retries < MaxRetries

\* A wait that got no answer: the request was lost, or the response with the lines in it.
\* _send replays it, as a GET, until its retries are used up.
WaitUnanswered ==
    /\ pc = "wait"
    /\ Elapse
    /\ \E unseen \in SUBSET Deliverable(previous) :
          IF MayReplay
          THEN /\ retries' = retries + 1
               /\ lost' = IF Redelivers THEN lost ELSE lost \cup unseen
               /\ UNCHANGED <<pc, outcome>>
          ELSE End("unreachable", {}) /\ UNCHANGED <<retries, lost>>
    /\ UNCHANGED <<plan_only, budget, truth, told, submitted, accumulator, previous, reasked>>

\* Any HTTP error a wait ends with, a 429 that outlasted its budget included.
WaitRejected ==
    /\ pc = "wait"
    /\ Elapse
    /\ End("rejected", {})
    /\ UNCHANGED <<plan_only, budget, server, accumulator, previous, retries, reasked>>

\* run and plan once no job is pending: the first failing line is raised, else the first
\* line in submission order is the answer, provided it carries one.
Conclude ==
    /\ pc = "loop"
    /\ Pending = {}
    /\ LET failing == {j \in Reported : lines[j] \in Failing}
           primary == First(Reported)
           answer  == IF plan_only THEN "planned" ELSE "complete"
       IN  CASE failing # {}  -> End("query_error", {First(failing)})
             [] Reported = {} -> End("no_lines", {})
             [] OTHER ->
                  CASE lines[primary] = answer -> End("answer", {primary})
                    [] lines[primary] \in {"missing_fields", "planned_missing"} ->
                          End("query_error", {primary})
                    [] OTHER -> End("no_answer", {primary})
    /\ UNCHANGED <<plan_only, budget, server, accumulator, previous, retries, now, reasked>>

Client == Post \/ PostUnanswered \/ RunAnswered \/ UpstreamFailure \/ Ask
          \/ WaitAnswered \/ WaitUnanswered \/ WaitRejected \/ Conclude

Next == Client \/ \E j \in Jobs : JobEnds(j)

Spec == Init /\ [][Next]_vars

\* The client keeps running and every request ends (httpx has a timeout on each phase);
\* nothing is assumed of the jobs, which may run for ever.
FairSpec == Spec /\ WF_vars(Client)

-----------------------------------------------------------------------------
LineOrNone == Kinds \cup {NoLine}

OutcomeKinds == {"none", "answer", "query_error", "timeout", "unreachable", "rejected",
                 "upstream", "no_lines", "no_answer"}

TypeOK ==
    /\ plan_only \in BOOLEAN
    /\ budget \in Nat
    /\ truth \in [Jobs -> {"running"} \cup Endings]
    /\ told \subseteq Jobs
    /\ submitted \in {0, 1}
    /\ pc \in {"post", "posted", "loop", "wait", "done"}
    /\ lines \in [Jobs -> LineOrNone]
    /\ footer \subseteq Jobs
    /\ previous \in (SUBSET Jobs) \cup {NotYet}
    /\ retries \in 0 .. MaxRetries
    /\ now \in Nat
    /\ outcome \in [kind : OutcomeKinds, jobs : SUBSET Jobs]
    /\ lost \subseteq Jobs
    /\ reasked \subseteq Jobs

\* An answer is the submission's first job, and no other job failed: however the lines
\* were spread over run and wait responses.  Only a job whose line was in a response that
\* never arrived escapes this (http.py, _primary_job and _raise_first_failure).
AnswerIsSound ==
    outcome.kind = "answer" =>
        /\ Submitted[1] \in outcome.jobs \cup lost
        /\ \A j \in Jobs \ lost : truth[j] \notin Failing \cup {"running"}

\* "carried no result" and "no job lines" are said only of a job that had none, with two
\* exceptions: a lost response, and a plan whose intermediate line was kept instead.
NoSpuriousError ==
    outcome.kind \in {"no_lines", "no_answer"} =>
        \/ lost # {}
        \/ plan_only /\ \E j \in outcome.jobs : lines[j] = "executing"
        \/ \E j \in outcome.jobs : truth[j] = "no_result"

\* A footer that lags is seen through: the loop asks again about a job whose line has
\* arrived, or lets the deadline pass for it, only when that line was a plan, which the
\* client does not count among the lines that end a job (ndjson.py, pending_job_ids).
ResolvedIsNotAwaited ==
    LET planned == {j \in Jobs : truth[j] \in {"planned", "planned_missing"}}
    IN  /\ reasked \subseteq planned
        /\ outcome.kind = "timeout" => outcome.jobs \cap told \subseteq planned

\* A call outlives its deadline by less than the requests of one wait and their retries:
\* the deadline is checked before a poll's pause and again after it.
OvershootBounded ==
    \/ now <= MaxSend
    \/ now < budget + PollInterval
    \/ now < budget + (MaxRetries + 1) * MaxSend

\* The call ends although the jobs may never do, and although a wait may be answered in
\* no time: the pause after a poll without progress is what makes time pass.
Terminates == <>(pc = "done")

Call == INSTANCE QueryCall WITH
            submitted <- submitted > 0,
            forgotten <- IF Redelivers THEN {} ELSE lost \cup reasked,
            Successes <- {"complete", "planned", "no_result"},
            Failures  <- {"missing_fields", "planned_missing", "disguised", "failed"},
            outcome   <- IF outcome.kind \in {"none", "answer", "query_error", "timeout"}
                         THEN outcome
                         ELSE [kind |-> "transport_error", jobs |-> {}]

\* run and plan implement the one-call promise: at most one submission, at most one
\* ending, an answer from a job that succeeded, blame for a job that failed, or that the
\* server had dropped when it was asked about again: its line was in a response that never
\* arrived, or was a plan under a footer that still listed the job.
ImplementsQueryCall == Call!Spec

\* What base.py:60 says of deadline_seconds: it bounds the wall time across all polls.
WallTimeBounded == now <= budget

\* What ndjson.py:571 says of pending_job_ids: a job that is resolved is not waited on.
ResolvedIsNeverAwaited == reasked = {}

\* What ndjson.py:476 says of repeated lines, for a caller: the outcome of a job that was
\* planned or run to the end reaches it, whatever intermediate lines came first.
SuccessIsReturned ==
    outcome.kind \in {"query_error", "no_lines", "no_answer"} =>
        \E j \in Jobs : truth[j] \notin {"complete", "planned"}
=============================================================================

------------------------------ MODULE HttpSend ------------------------------
(***************************************************************************)
(* HttpTransport._send (transport/http.py): one logical request, retried.  *)
(* A step is one iteration of its loop: the request, the server's or the   *)
(* network's answer, and the sleep before the next iteration.              *)
(*                                                                         *)
(* Network failures and 429s have separate counters.  A GET waits out 429s *)
(* under a cumulative time budget; a POST under an attempt count, and it   *)
(* is never replayed after a failure that hides whether it arrived.        *)
(*                                                                         *)
(* Time is counted in ticks, a tick being the finest delay a Retry-After   *)
(* header or the backoff asks for.  executed, slept and requests are       *)
(* history variables: what the server and an observer of the call saw.     *)
(***************************************************************************)
EXTENDS Integers

CONSTANTS
    MaxRetries,          \* max_retries: GET network failures and POST 429s
    RateLimitMaxWait,    \* rate_limit_max_wait_seconds, per GET
    MaxZeroDelayRetries, \* _MAX_ZERO_DELAY_RETRIES
    BackoffBase,         \* _BACKOFF_BASE_SECONDS
    MaxBackoff,          \* _MAX_BACKOFF_SECONDS
    RetryAfters          \* the delays a Retry-After header may carry

ASSUME SendAssumption ==
    /\ MaxRetries \in Nat
    /\ RateLimitMaxWait \in Nat
    /\ MaxZeroDelayRetries \in Nat
    /\ BackoffBase \in Nat \ {0}
    /\ MaxBackoff \in Nat \ {0}
    /\ RetryAfters \subseteq Nat

VARIABLES
    method,
    outcome,             \* "none" until _send returns or raises
    network_attempts,
    throttle_attempts,
    throttle_waited,
    zero_delay_retries,
    executed,            \* how often the server's handler ran
    requests,            \* how many requests left the client
    slept                \* total time spent in self._sleep

counters == <<network_attempts, throttle_attempts, throttle_waited, zero_delay_retries>>
vars == <<method, outcome, counters, executed, requests, slept>>

Outcomes == {"none", "response", "unreachable", "rate_limited", "http_error"}

NoHeader == -1           \* _retry_after: absent, unparsable, negative or infinite

Lesser(a, b) == IF a <= b THEN a ELSE b

Doublings == <<1, 2, 4, 8, 16, 32, 64>>

\* Exponential backoff, capped, then lengthened by up to half of it by the jitter.
Backoff(attempt) ==
    LET delay == Lesser(BackoffBase * Doublings[Lesser(attempt, 7)], MaxBackoff)
    IN  delay .. (delay + delay \div 2)

LongestBackoff == MaxBackoff + MaxBackoff \div 2

\* _backoff_delay: an explicit Retry-After wins, under the same cap.
BackoffDelays(attempt, retry_after) ==
    IF retry_after # NoHeader THEN {Lesser(retry_after, MaxBackoff)} ELSE Backoff(attempt)

Remaining == RateLimitMaxWait - throttle_waited

\* Mutants: what a plausible slip in the code would make of the definition below them.
MutRetryNetwork == TRUE
MutNoBudget(retry_after) ==
    IF retry_after # NoHeader THEN retry_after > RateLimitMaxWait ELSE Remaining <= 0
MutNoProgress(delay) == delay = 0 /\ Remaining <= 0
MutOffByOne(delay) ==
    delay = 0 /\ (Remaining <= 0 \/ zero_delay_retries > MaxZeroDelayRetries)

\* What a throttled GET sleeps: the header's delay to the letter, or a backoff
\* clamped to what is left of the budget.
ThrottleDelays(retry_after) ==
    IF retry_after # NoHeader
    THEN {retry_after}
    ELSE {Lesser(delay, Remaining) : delay \in Backoff(throttle_attempts + 1)}

\* The three ways a throttled GET gives up: the server asks for more than is left,
\* nothing is left, or retries that cost no time have been used up.
NoBudget(retry_after) ==
    IF retry_after # NoHeader THEN retry_after > Remaining ELSE Remaining <= 0

NoProgress(delay) ==
    delay = 0 /\ (Remaining <= 0 \/ zero_delay_retries >= MaxZeroDelayRetries)

Init ==
    /\ method \in {"GET", "POST"}
    /\ outcome = "none"
    /\ network_attempts = 0
    /\ throttle_attempts = 0
    /\ throttle_waited = 0
    /\ zero_delay_retries = 0
    /\ executed = 0
    /\ requests = 0
    /\ slept = 0

\* Only idempotent reads are replayed after a network failure.
RetryNetwork == method = "GET"

Request == outcome = "none" /\ requests' = requests + 1

End(result) == outcome' = result /\ slept' = slept

\* A request that got no answer: it was lost (ran = 0) or its response was (ran = 1).
NetworkFailure(ran) ==
    /\ Request
    /\ executed' = executed + ran
    /\ \/ /\ RetryNetwork /\ network_attempts < MaxRetries
          /\ network_attempts' = network_attempts + 1
          /\ \E delay \in Backoff(network_attempts + 1) : slept' = slept + delay
          /\ outcome' = outcome
       \/ /\ ~RetryNetwork \/ network_attempts >= MaxRetries
          /\ End("unreachable")
          /\ network_attempts' = network_attempts
    /\ UNCHANGED <<method, throttle_attempts, throttle_waited, zero_delay_retries>>

\* A 429 answer to a GET.
ThrottledGet(retry_after) ==
    /\ method = "GET"
    /\ Request
    /\ throttle_attempts' = throttle_attempts + 1
    /\ \/ /\ \/ NoBudget(retry_after)
             \/ \E delay \in ThrottleDelays(retry_after) : NoProgress(delay)
          /\ End("rate_limited")
          /\ UNCHANGED <<throttle_waited, zero_delay_retries>>
       \/ /\ ~NoBudget(retry_after)
          /\ \E delay \in ThrottleDelays(retry_after) :
                /\ ~NoProgress(delay)
                /\ zero_delay_retries' = IF delay = 0 THEN zero_delay_retries + 1 ELSE 0
                /\ slept' = slept + delay
                /\ throttle_waited' = throttle_waited + delay
          /\ outcome' = outcome
    /\ UNCHANGED <<method, network_attempts, executed>>

\* A 429 answer to a POST: refused before the handler, so it may be sent again.
ThrottledPost(retry_after) ==
    /\ method = "POST"
    /\ Request
    /\ \/ /\ throttle_attempts < MaxRetries
          /\ throttle_attempts' = throttle_attempts + 1
          /\ \E delay \in BackoffDelays(throttle_attempts + 1, retry_after) :
                slept' = slept + delay
          /\ outcome' = outcome
       \/ /\ throttle_attempts >= MaxRetries
          /\ End("rate_limited")
          /\ throttle_attempts' = throttle_attempts
    /\ UNCHANGED <<method, network_attempts, throttle_waited, zero_delay_retries, executed>>

\* Any other status of 400 or more: raised at once, whether or not the handler ran.
Rejected(ran) ==
    /\ Request
    /\ executed' = executed + ran
    /\ End("http_error")
    /\ UNCHANGED <<method, counters>>

Answered ==
    /\ Request
    /\ executed' = executed + 1
    /\ End("response")
    /\ UNCHANGED <<method, counters>>

Next ==
    \/ \E ran \in {0, 1} : NetworkFailure(ran)
    \/ \E retry_after \in RetryAfters \cup {NoHeader} :
          ThrottledGet(retry_after) \/ ThrottledPost(retry_after)
    \/ \E ran \in {0, 1} : Rejected(ran)
    \/ Answered

Spec == Init /\ [][Next]_vars

-----------------------------------------------------------------------------
TypeOK ==
    /\ method \in {"GET", "POST"}
    /\ outcome \in Outcomes
    /\ network_attempts \in 0 .. MaxRetries
    /\ throttle_attempts \in Nat
    /\ throttle_waited \in 0 .. RateLimitMaxWait
    /\ zero_delay_retries \in 0 .. MaxZeroDelayRetries
    /\ executed \in Nat
    /\ requests \in Nat
    /\ slept \in Nat

\* However network failures, 429s and sleeps interleave, the time a call sleeps is
\* bounded: a GET by its rate-limit budget plus one backoff per network retry, a POST
\* by one backoff per 429 (http.py, the two counters of _send are independent).
SleepBounded ==
    slept <= IF method = "GET"
             THEN RateLimitMaxWait + MaxRetries * LongestBackoff
             ELSE MaxRetries * LongestBackoff

\* _send has no cap on the 429s of a GET, only on time and on retries that take none;
\* together they still bound the number of requests, so the loop cannot spin.
RequestsBounded ==
    requests <= 1 + MaxRetries + IF method = "GET"
                                 THEN (MaxZeroDelayRetries + 1) * RateLimitMaxWait
                                      + MaxZeroDelayRetries + 1
                                 ELSE 0

Send == INSTANCE SendCall
        WITH outcome <- IF outcome \in {"none", "response"} THEN outcome ELSE "error"

\* The retry loop implements the one-call promise: the server runs a POST at most once
\* even though a lost response and a lost request look the same to the client.
ImplementsSendCall == Send!Spec
=============================================================================

--------------------------- MODULE HttpSend_proofs ---------------------------
(***************************************************************************)
(* Theorems about HttpTransport._send, for every retry limit, budget and   *)
(* backoff.  The inductive invariant ties each bound to the counter that   *)
(* pays for it: sleeps to the budget spent and the network retries,        *)
(* requests to the two attempt counters, and the 429s of a GET to the      *)
(* time waited (each costs a tick or uses up one of a run of free retries).*)
(***************************************************************************)
EXTENDS HttpSend, TLAPS

Nap == LongestBackoff

GetBounds ==
    /\ slept <= throttle_waited + network_attempts * Nap
    /\ outcome = "none" =>
          throttle_attempts <= (MaxZeroDelayRetries + 1) * throttle_waited + zero_delay_retries

PostBounds ==
    /\ network_attempts = 0
    /\ throttle_attempts <= MaxRetries
    /\ slept <= throttle_attempts * Nap
    /\ outcome = "none" => executed = 0

IInv ==
    /\ TypeOK
    /\ method = "GET" => GetBounds
    /\ method = "POST" => PostBounds
    /\ outcome = "none" => requests = network_attempts + throttle_attempts
    /\ RequestsBounded

\* Every backoff is positive and no longer than the capped, fully jittered one.
LEMMA BackoffBounds ==
    ASSUME NEW attempt \in Nat \ {0}, NEW delay \in Backoff(attempt)
    PROVE  delay \in Nat \ {0} /\ delay <= Nap /\ Nap \in Nat
<1>. DEFINE step == Lesser(BackoffBase * Doublings[Lesser(attempt, 7)], MaxBackoff)
<1>1. Lesser(attempt, 7) \in 1 .. 7
  BY DEF Lesser
<1>2. Doublings[Lesser(attempt, 7)] \in Nat \ {0}
  BY <1>1 DEF Doublings
<1>3. BackoffBase * Doublings[Lesser(attempt, 7)] \in Nat \ {0}
  <2>. DEFINE d == Doublings[Lesser(attempt, 7)]
  <2>1. d \in Nat \ {0} /\ BackoffBase \in Nat \ {0}
    BY <1>2, SendAssumption
  <2>. HIDE DEF d
  <2>2. BackoffBase * d \in Nat \ {0}
    BY <2>1
  <2>. QED
    BY <2>2 DEF d
<1>4. step \in Nat \ {0} /\ step <= MaxBackoff
  BY <1>3, SendAssumption DEF Lesser
<1>5. delay \in step .. (step + step \div 2)
  BY DEF Backoff
<1>. HIDE DEF step
<1>6. Nap \in Nat /\ step + step \div 2 <= Nap
  BY <1>4, SendAssumption DEF Nap, LongestBackoff
<1>7. step \div 2 \in Nat
  BY <1>4
<1>. QED
  BY <1>4, <1>5, <1>6, <1>7

\* Multiplication by a natural number is monotonic and distributes over addition.
LEMMA Times ==
    ASSUME NEW a \in Nat, NEW b \in Nat, NEW n \in Nat
    PROVE  /\ a * n \in Nat /\ n * a = a * n
           /\ a <= b => a * n <= b * n
           /\ (a + b) * n = a * n + b * n
           /\ a >= 1 => a * n >= n
OBVIOUS

\* The bounds are numbers.
LEMMA Constants ==
    /\ MaxRetries \in Nat /\ RateLimitMaxWait \in Nat /\ MaxZeroDelayRetries \in Nat
    /\ Nap \in Nat
BY SendAssumption DEF Nap, LongestBackoff

\* The bounds of the invariant add up to the bound of the property.
LEMMA InvSleepBounded == IInv => SleepBounded
<1>. SUFFICES ASSUME IInv PROVE SleepBounded
  OBVIOUS
<1>. USE Constants
<1>1. CASE method = "GET"
  <2>1. network_attempts * Nap <= MaxRetries * Nap
    BY Times DEF IInv, TypeOK
  <2>2. network_attempts * Nap \in Nat /\ MaxRetries * Nap \in Nat
    BY Times DEF IInv, TypeOK
  <2>. QED
    BY <1>1, <2>1, <2>2 DEF IInv, TypeOK, GetBounds, SleepBounded, Nap
<1>2. CASE method = "POST"
  <2>1. throttle_attempts * Nap <= MaxRetries * Nap
    BY <1>2, Times DEF IInv, TypeOK, PostBounds
  <2>2. throttle_attempts * Nap \in Nat /\ MaxRetries * Nap \in Nat
    BY Times DEF IInv, TypeOK
  <2>. QED
    BY <1>2, <2>1, <2>2 DEF IInv, TypeOK, PostBounds, SleepBounded, Nap
<1>. QED
  BY <1>1, <1>2 DEF IInv, TypeOK

\* While the call is open, one more request is still within the bound.
LEMMA OneMoreRequest ==
    ASSUME IInv, outcome = "none"
    PROVE  requests + 1 <= 1 + MaxRetries + IF method = "GET"
                                 THEN (MaxZeroDelayRetries + 1) * RateLimitMaxWait
                                      + MaxZeroDelayRetries + 1
                                 ELSE 0
<1>. USE Constants DEF IInv, TypeOK
<1>1. CASE method = "GET"
  <2>. DEFINE k == MaxZeroDelayRetries + 1
  <2>1. throttle_attempts <= k * throttle_waited + zero_delay_retries
    BY <1>1 DEF GetBounds
  <2>2. k * throttle_waited <= k * RateLimitMaxWait
    BY Times, k \in Nat
  <2>3. k * throttle_waited \in Nat /\ k * RateLimitMaxWait \in Nat
    BY Times, k \in Nat
  <2>. HIDE DEF k
  <2>4. k = MaxZeroDelayRetries + 1
    BY DEF k
  <2>5. requests + 1 <= 1 + MaxRetries + (k * RateLimitMaxWait + MaxZeroDelayRetries + 1)
    BY <2>1, <2>2, <2>3
  <2>. QED
    BY <1>1, <2>4, <2>5
<1>2. CASE method = "POST"
  BY <1>2 DEF PostBounds
<1>. QED
  BY <1>1, <1>2

\* The invariant holds at first.
LEMMA InitIInv == Init => IInv
<1>. SUFFICES ASSUME Init PROVE IInv
  OBVIOUS
<1>. USE Constants DEF Init
<1>1. TypeOK
  BY DEF TypeOK, Outcomes
<1>2. 0 * Nap = 0 /\ (MaxZeroDelayRetries + 1) * 0 = 0
  BY Times
<1>3. (MaxZeroDelayRetries + 1) * RateLimitMaxWait \in Nat
  BY Times
<1>. QED
  BY <1>1, <1>2, <1>3 DEF IInv, GetBounds, PostBounds, RequestsBounded

\* Each iteration of the loop preserves the invariant.
LEMMA NextIInv == IInv /\ [Next]_vars => IInv'
<1>. SUFFICES ASSUME IInv, [Next]_vars PROVE IInv'
  OBVIOUS
<1>. USE Constants
<1>a. outcome = "none" =>
        requests + 1 <= 1 + MaxRetries + IF method = "GET"
                                 THEN (MaxZeroDelayRetries + 1) * RateLimitMaxWait
                                      + MaxZeroDelayRetries + 1
                                 ELSE 0
  BY OneMoreRequest
<1>1. ASSUME NEW ran \in {0, 1}, NetworkFailure(ran) PROVE IInv'
  <2>1. TypeOK /\ outcome = "none" /\ method' = method
    BY <1>1 DEF NetworkFailure, Request, IInv
  <2>2. CASE RetryNetwork /\ network_attempts < MaxRetries
    <3>1. /\ method = "GET"
          /\ network_attempts' = network_attempts + 1
          /\ outcome' = "none"
      BY <1>1, <2>1, <2>2 DEF NetworkFailure, RetryNetwork, TypeOK
    <3>2. PICK delay \in Backoff(network_attempts + 1) : slept' = slept + delay
      BY <1>1, <2>1, <2>2 DEF NetworkFailure, RetryNetwork, TypeOK
    <3>3. delay \in Nat /\ delay <= Nap
      BY <2>1, <3>2, BackoffBounds DEF TypeOK
    <3>4. (network_attempts + 1) * Nap = network_attempts * Nap + Nap
          /\ network_attempts * Nap \in Nat
      <4>. HIDE DEF Nap
      <4>. QED
        BY <2>1, Times DEF TypeOK
    <3>5. TypeOK'
      BY <1>1, <2>1, <2>2, <3>1, <3>2, <3>3 DEF NetworkFailure, Request, TypeOK
    <3>. QED
      BY <1>1, <1>a, <2>1, <3>1, <3>2, <3>3, <3>4, <3>5
      DEF NetworkFailure, Request, IInv, TypeOK, GetBounds, RequestsBounded
  <2>3. CASE ~RetryNetwork \/ network_attempts >= MaxRetries
    <3>1. outcome' = "unreachable" /\ slept' = slept /\ network_attempts' = network_attempts
      BY <1>1, <2>1, <2>3 DEF NetworkFailure, End, RetryNetwork, TypeOK
    <3>2. TypeOK'
      BY <1>1, <2>1, <3>1 DEF NetworkFailure, Request, TypeOK, Outcomes
    <3>. QED
      BY <1>1, <1>a, <2>1, <3>1, <3>2
      DEF NetworkFailure, Request, IInv, GetBounds, PostBounds, RequestsBounded
  <2>. QED
    BY <1>1, <2>2, <2>3 DEF NetworkFailure
<1>2. ASSUME NEW retry_after \in RetryAfters \cup {NoHeader}, ThrottledGet(retry_after)
      PROVE  IInv'
  <2>1. TypeOK /\ outcome = "none" /\ method = "GET" /\ method' = method
    BY <1>2 DEF ThrottledGet, Request, IInv
  <2>2. CASE outcome' = "rate_limited" /\ slept' = slept
             /\ UNCHANGED <<throttle_waited, zero_delay_retries>>
    <3>1. TypeOK'
      BY <1>2, <2>1, <2>2 DEF ThrottledGet, Request, TypeOK, Outcomes
    <3>. QED
      BY <1>2, <1>a, <2>1, <2>2, <3>1
      DEF ThrottledGet, Request, IInv, GetBounds, RequestsBounded
  <2>3. ASSUME ~NoBudget(retry_after), outcome' = outcome,
               NEW delay \in ThrottleDelays(retry_after),
               ~NoProgress(delay),
               zero_delay_retries' = IF delay = 0 THEN zero_delay_retries + 1 ELSE 0,
               slept' = slept + delay,
               throttle_waited' = throttle_waited + delay
        PROVE  IInv'
    <3>1. delay \in Nat /\ delay <= Remaining /\ Remaining \in Nat
      <4>1. CASE retry_after # NoHeader
        BY <1>2, <2>1, <2>3, <4>1, SendAssumption
        DEF ThrottleDelays, NoBudget, Remaining, TypeOK
      <4>2. CASE retry_after = NoHeader
        <5>1. PICK d \in Backoff(throttle_attempts + 1) : delay = Lesser(d, Remaining)
          BY <2>3, <4>2 DEF ThrottleDelays
        <5>2. d \in Nat \ {0}
          BY <2>1, <5>1, BackoffBounds DEF TypeOK
        <5>. QED
          BY <2>1, <2>3, <4>2, <5>1, <5>2 DEF NoBudget, Remaining, Lesser, TypeOK
      <4>. QED
        BY <4>1, <4>2
    <3>2. TypeOK'
      BY <1>2, <2>1, <2>3, <3>1 DEF ThrottledGet, Request, TypeOK, Remaining, NoProgress
    <3>3. throttle_attempts'
          <= (MaxZeroDelayRetries + 1) * throttle_waited' + zero_delay_retries'
      <4>. DEFINE k == MaxZeroDelayRetries + 1
      <4>1. k \in Nat /\ throttle_attempts <= k * throttle_waited + zero_delay_retries
        BY <2>1 DEF IInv, GetBounds
      <4>2. k * throttle_waited' = k * throttle_waited + k * delay
            /\ k * throttle_waited \in Nat /\ k * delay \in Nat /\ (delay >= 1 => k * delay >= k)
        <5>. HIDE DEF k
        <5>1. throttle_waited \in Nat /\ throttle_waited' = throttle_waited + delay
          BY <2>1, <2>3 DEF TypeOK
        <5>. QED
          BY <3>1, <4>1, <5>1, Times
      <4>3. throttle_attempts' = throttle_attempts + 1
        BY <1>2 DEF ThrottledGet
      <4>4. zero_delay_retries <= MaxZeroDelayRetries
        BY <2>1 DEF TypeOK
      <4>. HIDE DEF k
      <4>5. k = MaxZeroDelayRetries + 1
        BY DEF k
      <4>6. throttle_attempts' <= k * throttle_waited' + zero_delay_retries'
        BY <2>1, <2>3, <3>1, <4>1, <4>2, <4>3, <4>4, <4>5 DEF TypeOK
      <4>. QED
        BY <4>5, <4>6
    <3>4. slept' <= throttle_waited' + network_attempts' * Nap
      <4>1. network_attempts * Nap \in Nat
        BY <2>1, Times DEF TypeOK
      <4>. QED
        BY <1>2, <2>1, <2>3, <3>1, <4>1 DEF ThrottledGet, IInv, GetBounds, TypeOK
    <3>. QED
      BY <1>2, <1>a, <2>1, <2>3, <3>2, <3>3, <3>4
      DEF ThrottledGet, Request, IInv, GetBounds, RequestsBounded, TypeOK
  <2>. QED
    BY <1>2, <2>2, <2>3 DEF ThrottledGet, End
<1>3. ASSUME NEW retry_after \in RetryAfters \cup {NoHeader}, ThrottledPost(retry_after)
      PROVE  IInv'
  <2>1. TypeOK /\ outcome = "none" /\ method = "POST" /\ method' = method
    BY <1>3 DEF ThrottledPost, Request, IInv
  <2>2. CASE throttle_attempts < MaxRetries
    <3>1. throttle_attempts' = throttle_attempts + 1 /\ outcome' = outcome
      BY <1>3, <2>1, <2>2 DEF ThrottledPost, TypeOK
    <3>2. PICK delay \in BackoffDelays(throttle_attempts + 1, retry_after) :
             slept' = slept + delay
      BY <1>3, <2>1, <2>2 DEF ThrottledPost, TypeOK
    <3>3. delay \in Nat /\ delay <= Nap
      <4>1. CASE retry_after = NoHeader
        BY <2>1, <3>2, <4>1, BackoffBounds DEF BackoffDelays, TypeOK
      <4>2. CASE retry_after # NoHeader
        BY <3>2, <4>2, SendAssumption DEF BackoffDelays, Lesser, Nap, LongestBackoff
      <4>. QED
        BY <4>1, <4>2
    <3>4. (throttle_attempts + 1) * Nap = throttle_attempts * Nap + Nap
          /\ throttle_attempts * Nap \in Nat
      BY <2>1, Times DEF TypeOK
    <3>5. TypeOK'
      BY <1>3, <2>1, <3>1, <3>2, <3>3 DEF ThrottledPost, Request, TypeOK
    <3>. QED
      BY <1>3, <1>a, <2>1, <2>2, <3>1, <3>2, <3>3, <3>4, <3>5
      DEF ThrottledPost, Request, IInv, PostBounds, RequestsBounded, TypeOK
  <2>3. CASE throttle_attempts >= MaxRetries
    <3>1. outcome' = "rate_limited" /\ slept' = slept /\ throttle_attempts' = throttle_attempts
      BY <1>3, <2>1, <2>3 DEF ThrottledPost, End, TypeOK
    <3>2. TypeOK'
      BY <1>3, <2>1, <3>1 DEF ThrottledPost, Request, TypeOK, Outcomes
    <3>. QED
      BY <1>3, <1>a, <2>1, <3>1, <3>2
      DEF ThrottledPost, Request, IInv, PostBounds, RequestsBounded
  <2>. QED
    BY <2>1, <2>2, <2>3 DEF TypeOK
<1>4. ASSUME NEW ran \in {0, 1}, Rejected(ran) PROVE IInv'
  <2>1. TypeOK'
    BY <1>4 DEF Rejected, Request, End, counters, IInv, TypeOK, Outcomes
  <2>. QED
    BY <1>4, <1>a, <2>1
    DEF Rejected, Request, End, counters, IInv, GetBounds, PostBounds, RequestsBounded
<1>5. CASE Answered
  <2>1. TypeOK'
    BY <1>5 DEF Answered, Request, End, counters, IInv, TypeOK, Outcomes
  <2>. QED
    BY <1>5, <1>a, <2>1
    DEF Answered, Request, End, counters, IInv, GetBounds, PostBounds, RequestsBounded
<1>6. CASE UNCHANGED vars
  BY <1>6 DEF vars, counters, IInv, TypeOK, GetBounds, PostBounds, RequestsBounded
<1>. QED
  BY <1>1, <1>2, <1>3, <1>4, <1>5, <1>6 DEF Next

\* The invariant of the loop holds throughout every call.
THEOREM SendInvariant == Spec => []IInv
BY InitIInv, NextIInv, PTL DEF Spec

\* The counters of _send stay within their limits whatever the server answers.
THEOREM SendTypeOK == Spec => []TypeOK
<1>1. IInv => TypeOK
  BY DEF IInv
<1>. QED
  BY <1>1, SendInvariant, PTL

\* No call sleeps longer than its budget and its retries allow.
THEOREM SendSleepBounded == Spec => []SleepBounded
BY InvSleepBounded, SendInvariant, PTL

\* No call sends more requests than its limits allow, so the loop ends.
THEOREM SendRequestsBounded == Spec => []RequestsBounded
<1>1. IInv => RequestsBounded
  BY DEF IInv
<1>. QED
  BY <1>1, SendInvariant, PTL

\* A step of the loop is one of the promise's steps, or invisible to the caller.
LEMMA StepSimulation == IInv /\ [Next]_vars => [Send!Next]_(Send!vars)
<1>. SUFFICES ASSUME IInv, [Next]_vars PROVE [Send!Next]_(Send!vars)
  OBVIOUS
<1>. USE DEF Send!Next, Send!vars, Request, End, counters
<1>0. TypeOK /\ (method = "POST" /\ outcome = "none" => executed = 0)
  BY DEF IInv, PostBounds
<1>1. ASSUME NEW ran \in {0, 1}, NetworkFailure(ran) PROVE [Send!Next]_(Send!vars)
  <2>1. CASE outcome' = outcome
    BY <1>0, <1>1, <2>1 DEF NetworkFailure, RetryNetwork, Send!Replayed, TypeOK
  <2>2. CASE outcome' = "unreachable"
    BY <1>0, <1>1, <2>2 DEF NetworkFailure, Send!Failed, Send!Reaches, TypeOK
  <2>. QED
    BY <1>1, <2>1, <2>2 DEF NetworkFailure
<1>2. ASSUME NEW retry_after \in RetryAfters \cup {NoHeader}, ThrottledGet(retry_after)
      PROVE  [Send!Next]_(Send!vars)
  BY <1>0, <1>2 DEF ThrottledGet, Send!Failed, Send!Reaches, TypeOK
<1>3. ASSUME NEW retry_after \in RetryAfters \cup {NoHeader}, ThrottledPost(retry_after)
      PROVE  [Send!Next]_(Send!vars)
  BY <1>0, <1>3 DEF ThrottledPost, Send!Failed, Send!Reaches, TypeOK
<1>4. ASSUME NEW ran \in {0, 1}, Rejected(ran) PROVE [Send!Next]_(Send!vars)
  BY <1>0, <1>4 DEF Rejected, Send!Failed, Send!Reaches, TypeOK
<1>5. CASE Answered
  BY <1>0, <1>5 DEF Answered, Send!Answered, TypeOK
<1>6. CASE UNCHANGED vars
  BY <1>6 DEF vars
<1>. QED
  BY <1>1, <1>2, <1>3, <1>4, <1>5, <1>6 DEF Next

\* The retry loop implements the one-call promise of SendCall: a POST runs at most once.
THEOREM SendImplementsSendCall == Spec => ImplementsSendCall
<1>1. Init => Send!Init
  BY DEF Init, Send!Init
<1>. QED
  BY <1>1, StepSimulation, SendInvariant, PTL DEF Spec, ImplementsSendCall, Send!Spec

=============================================================================

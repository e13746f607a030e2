\* Small limits, each reachable together with the others: two retries, a budget of six
\* ticks, headers that ask for nothing, for less, for exactly and for more than the budget.
CONSTANTS
    MaxRetries = 2
    RateLimitMaxWait = 6
    MaxZeroDelayRetries = 2
    BackoffBase = 1
    MaxBackoff = 4
    RetryAfters = {0, 1, 3, 6, 9}
SPECIFICATION Spec
INVARIANTS
    TypeOK
    SleepBounded
    RequestsBounded
PROPERTY
    ImplementsSendCall
\* The loop ends: outcome # "none" has no successor.
CHECK_DEADLOCK FALSE

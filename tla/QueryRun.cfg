CONSTANTS
    j1 = j1
    j2 = j2
    Jobs = {j1, j2}
    Submitted <- TwoJobs
    Modes = {TRUE, FALSE}
    Budgets = {3}
    PollInterval = 1
    MaxRetries = 1
    MaxSend = 1
    Redelivers = FALSE
SPECIFICATION FairSpec
INVARIANTS
    TypeOK
    AnswerIsSound
    NoSpuriousError
    ResolvedIsNotAwaited
    OvershootBounded
PROPERTIES
    ImplementsQueryCall
    Terminates
\* A call ends: pc = "done" has no successor once its jobs have ended.
CHECK_DEADLOCK FALSE

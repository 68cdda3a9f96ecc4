\* Three calls of two attempts each, a breaker that opens at two.
SPECIFICATION ExecutorSpec
CONSTANTS
    Calls = {c1, c2, c3}
    max_attempts = 2
    timed = TRUE
    failure_threshold = 2
    recovery_seconds = 1
INVARIANTS
    AuditIsTrue
    BreakerCountsCalls
PROPERTY
    CallsReturn
CHECK_DEADLOCK FALSE

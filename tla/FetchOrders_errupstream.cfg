SPECIFICATION Spec
CONSTANTS
    Attempts = 0
    Timeout = 2
    Sources = {"send"}
    LastCall = 0
CHECK_DEADLOCK FALSE
INVARIANT ErrUpstreamIsNotRetryable

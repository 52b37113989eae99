SPECIFICATION Spec
CONSTANTS
    s1 = s1
    a1 = a1
    w1 = w1
    w2 = w2
    Sends = {s1}
    Actions = {a1}
    Workers = {w1, w2}
    Timeout = 1
    MaxLag = 1
    MaxAttempts = 2
INVARIANT SucceededWasPublished
PROPERTY OutcomeFinal
PROPERTY EveryCommandEnds
CHECK_DEADLOCK FALSE

SPECIFICATION HttpSpec
CONSTANTS
    c1 = c1
    c2 = c2
    s1 = s1
    Null = Null
    Callers = {c1, c2}
    Servers = {s1}
    SourceOf <- MCSourceOf
    Rate = 1
    Cost = 2
    Burst = 2
    MaxAttempts = 3
    RetryAfters = {0, 1, 4}
    DefaultPenalty = 3
    MaxBackoff = 3
INVARIANT RateHonoured
PROPERTY RetryAfterHonoured

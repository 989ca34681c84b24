SPECIFICATION FairSpec
CONSTANTS
    r1 = r1  r2 = r2  r3 = r3  d1 = d1
    Requests = {r1, r3}
    KeyOf <- MCKeyOf
    EventIdOf <- MCEventIdOf
    DocOf <- MCDocOf
    Docs = {d1}
    MaxAttempts = 2
    BatchLimit = 1
    Targets = {"url", "noop", "none"}
    MaxFaults = 1
    MaxRestarts = 1
INVARIANTS AttemptsLeft
PROPERTIES EventSettles
CHECK_DEADLOCK FALSE

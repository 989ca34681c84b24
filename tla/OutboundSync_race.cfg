SPECIFICATION Spec
CONSTANTS
    r1 = r1  r2 = r2  r3 = r3  d1 = d1
    Requests = {r1, r2}
    KeyOf <- MCKeyOf
    EventIdOf <- MCEventIdOf
    DocOf <- MCDocOf
    Docs = {d1}
    MaxAttempts = 1
    BatchLimit = 1
    Targets = {"url"}
    MaxFaults = 0
    MaxRestarts = 0
INVARIANTS RetrySameAnswer
CHECK_DEADLOCK FALSE

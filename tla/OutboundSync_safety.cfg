SPECIFICATION Spec
CONSTANTS
    r1 = r1  r2 = r2  r3 = r3  d1 = d1
    Requests = {r1, r2, r3}
    KeyOf <- MCKeyOf
    EventIdOf <- MCReusedEventId
    DocOf <- MCDocOf
    Docs = {d1}
    MaxAttempts = 2
    BatchLimit = 2
    Targets = {"url", "none"}
    MaxFaults = 1
    MaxRestarts = 1
INVARIANTS TypeOK SameAnswer DeliveredWasReceived PostsPaidFor TrailMatchesAttempts
PROPERTIES ImplementsEvent
CHECK_DEADLOCK FALSE

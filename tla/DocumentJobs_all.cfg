SPECIFICATION FairSpec
CONSTANTS
    j1 = j1  j2 = j2  j3 = j3  d1 = d1  d2 = d2
    Jobs = {j1, j2, j3}
    Docs = {d1, d2}
    DocOf <- MCDocOf
    Workers = {w1, w2}
    MaxFaults = 2
    MaxRestarts = 1
INVARIANTS TypeOK DoneHasDocument OneOwner AuditFollowsJob LossBounded
PROPERTIES ImplementsLifecycle AcceptedJobEnds
CHECK_DEADLOCK FALSE

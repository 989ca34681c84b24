SPECIFICATION FairSpec
CONSTANTS
    Connector = "jwt"
    Tenants = {"t1", "t2"}
    DefaultTenant = "t1"
    DefaultRole = "operator"
    AllowAnonymous = FALSE
    Sessions = {"s1", "s2"}
    Events = {"e1", "e2", "bad", "dang"}
    HashOf <- MCHashOf
    TimeOf <- MCTimeOf
    BadTime = {}
    Dangling = {"dang"}
    CompanyOf <- MCCompanyOf
    StampHashes = {"stamp"}
    Outbox <- MCOutbox
    Clients = {"c1", "c2"}
    ContextOf <- MCContextOf
    Reader = "t1"
    Times = {1, 2, 3}
    Limit = 2
    MaxFaults = 1
INVARIANTS TypeOK AckedIsStored TenantsApart NoGapBehindCursor
PROPERTIES Delivered
CHECK_DEADLOCK FALSE

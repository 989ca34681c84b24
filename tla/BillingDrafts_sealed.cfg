SPECIFICATION Spec
CONSTANTS
    s1 = s1  s2 = s2
    CfdiCodes = {"CFDI40111", "CFDI40112", "CFDI40113", "CFDI40114", "CFDI40132", "CFDI40133", "CFDI40134", "CFDI40139", "CFDI40140", "CFDI40166", "CFDI40158"}
    Moral = {"moral1"}
    Fisica = {"fisica1"}
    ZipCodes = {"32690"}
    Sessions = {s1, s2}
    Drafts = {"d1"}
    Products = {"p1"}
    Prices = {3, 10}
    Items <- MCItems
    Customers <- MCCustomers
    TextCode <- MCTextCode
    Requests <- MCRequests
    Replies <- PlainReplies
    Cfg <- Sandbox
    MaxCalls = 3
INVARIANT PdfTellsTheStamp
CHECK_DEADLOCK FALSE

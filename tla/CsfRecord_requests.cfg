SPECIFICATION Spec
CONSTANTS
    s1 = s1  s2 = s2  u1 = u1  u2 = u2
    Sessions = {s1, s2}
    Companies = {"c1", "c2"}
    Docs = {"with_qr", "without_qr"}
    Users = {u1, u2}
    Fields = {"cp"}
    Values = {"v1", "v2"}
    Extracted <- NoPostalCode
    Texts = {"sat", "other"}
    SatTexts = {"sat"}
    QrOf <- MCQrOf
    Older <- MCOlder
    MaxCalls = 4
SYMMETRY Symmetric
INVARIANTS TypeOK ApprovedIsComplete OwnTenant StatusTold CorrectionsKept
CHECK_DEADLOCK FALSE

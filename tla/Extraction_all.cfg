SPECIFICATION Spec
CONSTANTS
    t1 = t1  t2 = t2
    Threads = {t1, t2}
    Docs = {"full", "torn", "other"}
    Fields <- MCFields
    Values = {"rfc", "32690", "juarez", "chihuahua", "qr1", "qr2", "None", "DESCONOCIDO", "SIN NOMBRE"}
    Valid <- MCValid
    GroqParser = TRUE
    GroqFixes = TRUE
    OpenAi = TRUE
    Confident <- MCConfident
    States <- MCStates
    Municipalities <- MCMunicipalities
    Localities <- MCLocalities
    Alike <- MCAlike
    Pdf <- MCPdf
    GroqReads <- MCGroqReads
    AiReplies <- MCAiReplies
    Addresses <- MCAddresses
    QrTexts = {"qr1", "qr2"}
    SatTexts = {"qr1"}
    Statuses = {200, 404, 405}
    LegacyTls = TRUE
    Retries = 2
    MaxCalls = 4
SYMMETRY Symmetric
INVARIANTS TypeOK ReportTellsCorrections LookupsAreGrounded
CHECK_DEADLOCK FALSE

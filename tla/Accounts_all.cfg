SPECIFICATION Spec
CONSTANTS
    Connector = "jwt"
    Tenants = {"demo", "sandbox-root", "sandbox-ana", "sandbox-eva"}
    DefaultTenant = "demo"
    DefaultRole = "operator"
    AllowAnonymous = FALSE
    Requests = {"q1", "q2"}
    Names = {"root", "ana", "eva"}
    SandboxTenant <- MCSandboxTenant
    SandboxRole = "admin"
    SeedName = "root"
    SeedTenant = "demo"
    Lifetime = 1
    SandboxLifetime = 2
    MaxTime = 1
INVARIANTS TokensSpeakForAccounts SandboxesApart
CHECK_DEADLOCK FALSE

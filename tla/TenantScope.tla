----------------------------- MODULE TenantScope -----------------------------
(***************************************************************************)
(* core/auth.py: who a request comes from and which tenant it may touch.   *)
(***************************************************************************)
CONSTANTS
    Connector,    \* AUTH_CONNECTOR: "none", "jwt" or "header"
    Tenants,
    DefaultTenant, DefaultRole, AllowAnonymous   \* the settings of these names

Roles == {"viewer", "operator", "admin", "superadmin"}

ASSUME ScopeAssumption ==
    /\ Connector \in {"none", "jwt", "header"}
    /\ DefaultTenant \in Tenants
    /\ AllowAnonymous \in BOOLEAN

NoContext == [tenant |-> "none", role |-> "none"]
Denied == "denied"
NoTenant == "any"    \* no tenant is asked for

Context == [tenant : Tenants, role : Roles]

\* _normalize_role
NormalizeRole(role) == IF role \in Roles THEN role ELSE "viewer"

DefaultContext == [tenant |-> DefaultTenant, role |-> NormalizeRole(DefaultRole)]

\* get_security_context, where sent is what the token or the headers say.
\* NoContext: nothing was sent; 401 unless anonymous requests are allowed.
SecurityContext(sent) ==
    CASE Connector = "none" -> DefaultContext
      [] Connector # "none" /\ sent # NoContext ->
            [tenant |-> sent.tenant, role |-> NormalizeRole(sent.role)]
      [] Connector # "none" /\ sent = NoContext /\ AllowAnonymous -> DefaultContext
      [] OTHER -> NoContext

\* role_guard
MayCall(ctx, roles) == ctx.role \in roles

\* enforce_tenant_scope
EnforceTenantScope(ctx, asked) ==
    CASE asked \in {NoTenant, ctx.tenant} -> ctx.tenant
      [] /\ asked \notin {NoTenant, ctx.tenant}
         /\ Connector = "none" \/ ctx.role = "superadmin" -> asked
      [] OTHER -> Denied
==============================================================================

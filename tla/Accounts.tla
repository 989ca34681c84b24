------------------------------- MODULE Accounts -------------------------------
(***************************************************************************)
(* api/routers/auth_router.py and services/user_service.py: accounts are   *)
(* made by an administrator or by a developer who signs up for a sandbox,  *)
(* and tokens are given to whoever logs in.  A name is looked up first and *)
(* the account inserted later, after the password has been hashed; what    *)
(* keeps names apart is the constraint of the table.                       *)
(***************************************************************************)
EXTENDS TenantScope, Naturals

CONSTANTS
    Requests,        \* registrations and sign-ups, each made once
    Names,
    SandboxTenant,   \* SandboxTenant[n]: the prefix and the name n
    SandboxRole,     \* DEVELOPER_SANDBOX_DEFAULT_ROLE
    SeedName, SeedTenant,   \* the administrator of an empty table
    Lifetime, SandboxLifetime,   \* of a token
    MaxTime          \* bound: the clock

ASSUME NamesAssumption ==
    /\ SeedName \in Names
    /\ SandboxTenant \in [Names -> Tenants]
    /\ \A n, m \in Names : SandboxTenant[n] = SandboxTenant[m] => n = m
    /\ SeedTenant \in Tenants \ {SandboxTenant[n] : n \in Names}
    /\ Connector = "jwt" /\ ~AllowAnonymous

ASSUME TimesAssumption ==
    /\ Lifetime \in Nat \ {0} /\ SandboxLifetime \in Nat \ {0} /\ MaxTime \in Nat

VARIABLES
    users,    \* app_user by username
    reqs,     \* where each request is
    tokens,   \* tokens that were given
    now

vars == <<users, reqs, tokens, now>>

\* by: who made the account, itself for a sign-up.
NoUser == [tenant |-> "none", role |-> "none", by |-> NoContext]
User == [tenant : Tenants, role : Roles, by : Context]
Token == [sub : Names, tenant : Tenants, role : Roles, exp : Nat]
Pending == [step : {"insert"}, name : Names, user : User, signup : BOOLEAN]
Waiting == [step |-> "new"]
Ends == [step : {"made", "refused"}]

TypeOK ==
    /\ users \in [Names -> User \cup {NoUser}]
    /\ reqs \in [Requests -> {Waiting} \cup Pending \cup Ends]
    /\ tokens \subseteq Token
    /\ now \in 0..MaxTime

Init ==
    /\ users = [n \in Names |->
                    IF n = SeedName
                    THEN [tenant |-> SeedTenant, role |-> "superadmin",
                          by |-> [tenant |-> SeedTenant, role |-> "superadmin"]]
                    ELSE NoUser]
    /\ reqs = [r \in Requests |-> Waiting]
    /\ tokens = {}
    /\ now = 0

---------------------------------------------------------------------------
\* The context of a request that bears a token which has not expired.
Contexts == {SecurityContext([tenant |-> k.tenant, role |-> k.role]) :
                k \in {k \in tokens : now < k.exp}}

Ended(r, how) == reqs' = [reqs EXCEPT ![r] = [step |-> how]]

\* The look at the name, and what will be inserted; 409 for a name in use.
LooksUp(r, name, user, signup) ==
    /\ reqs[r] = Waiting
    /\ IF users[name] # NoUser
       THEN Ended(r, "refused")
       ELSE reqs' = [reqs EXCEPT ![r] = [step |-> "insert", name |-> name,
                                         user |-> user, signup |-> signup]]
    /\ UNCHANGED <<users, tokens, now>>

\* Mutation: an administrator registers for any tenant.
Foreign_Never(ctx, tenant) == FALSE

Foreign(ctx, tenant) == ctx.role # "superadmin" /\ tenant # ctx.tenant

\* register up to create_user: 403 for a foreign tenant.
Register(r) ==
    \E ctx \in Contexts, name \in Names, tenant \in Tenants, role \in Roles :
        /\ MayCall(ctx, {"admin", "superadmin"})
        /\ ~Foreign(ctx, tenant)
        /\ LooksUp(r, name, [tenant |-> tenant, role |-> role, by |-> ctx], FALSE)

SignupRole == IF SandboxRole \in Roles THEN SandboxRole ELSE "operator"

SandboxUser(name) ==
    [tenant |-> SandboxTenant[name], role |-> SignupRole,
     by |-> [tenant |-> SandboxTenant[name], role |-> SignupRole]]

\* sandbox_signup up to create_user
Signup(r) == \E name \in Names : LooksUp(r, name, SandboxUser(name), TRUE)

Claims(name, user, life) ==
    [sub |-> name, tenant |-> user.tenant, role |-> user.role, exp |-> now + life]

\* Mutation: the later of two inserts replaces the account.
Accepts_Later(name) == TRUE

\* The unique constraint on username
Accepts(name) == users[name] = NoUser

\* create_user, and the token of a sign-up
Insert(r) ==
    /\ reqs[r].step = "insert"
    /\ Accepts(reqs[r].name)
    /\ users' = [users EXCEPT ![reqs[r].name] = reqs[r].user]
    /\ tokens' = IF reqs[r].signup
                 THEN tokens \cup {Claims(reqs[r].name, reqs[r].user, SandboxLifetime)}
                 ELSE tokens
    /\ Ended(r, "made")
    /\ UNCHANGED now

\* IntegrityError, which nobody catches, or a stop of the process
Fails(r) ==
    /\ reqs[r].step = "insert"
    /\ Ended(r, "refused")
    /\ UNCHANGED <<users, tokens, now>>

\* login with the right password
Login(name) ==
    /\ users[name] # NoUser
    /\ tokens' = tokens \cup {Claims(name, users[name], Lifetime)}
    /\ UNCHANGED <<users, reqs, now>>

Tick ==
    /\ now < MaxTime
    /\ now' = now + 1
    /\ UNCHANGED <<users, reqs, tokens>>

Next ==
    \/ \E r \in Requests : Register(r) \/ Signup(r) \/ Insert(r) \/ Fails(r)
    \/ \E n \in Names : Login(n)
    \/ Tick

Spec == Init /\ [][Next]_vars

---------------------------------------------------------------------------
(***************************************************************************)
(* A token speaks for the account it names, with its tenant and role: also *)
(* when two requests for one name overlap, and for as long as it lasts     *)
(* (login, sandbox_signup, create_user).                                   *)
(***************************************************************************)
TokensSpeakForAccounts ==
    \A k \in tokens : users[k.sub].tenant = k.tenant /\ users[k.sub].role = k.role

(***************************************************************************)
(* auth_router.py:180: "Creamos tenant por usuario para aislar pruebas."   *)
(* The tenant of a name that has signed up holds only that account and     *)
(* those that a superadmin, or an administrator in the tenant, has put     *)
(* there.                                                                  *)
(***************************************************************************)
SandboxesApart ==
    \A n, m \in Names :
        users[m] # NoUser /\ users[m].tenant = SandboxTenant[n] /\ m # n =>
            \/ users[m].by.role = "superadmin"
            \/ users[m].by.role = "admin" /\ users[m].by.tenant = SandboxTenant[n]
==============================================================================

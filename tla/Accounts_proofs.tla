--------------------------- MODULE Accounts_proofs ---------------------------
(* Accounts and tokens for every set of requests, names and tenants.       *)
EXTENDS Accounts, TLAPS

\* What SandboxesApart says of one account, before it is inserted too.
Apart(name, user) ==
    \A n \in Names : user.tenant = SandboxTenant[n] /\ name # n =>
        \/ user.by.role = "superadmin"
        \/ user.by.role = "admin" /\ user.by.tenant = SandboxTenant[n]

AccountsApart == \A m \in Names : users[m] # NoUser => Apart(m, users[m])

PendingApart == \A r \in Requests : reqs[r].step = "insert" => Apart(reqs[r].name, reqs[r].user)

IInv == TypeOK /\ TokensSpeakForAccounts /\ AccountsApart /\ PendingApart

\* A request about to insert knows its name and its account.
LEMMA PendingType ==
    ASSUME TypeOK, NEW r \in Requests, reqs[r].step = "insert"
    PROVE  reqs[r] \in Pending
BY DEF TypeOK, Pending, Waiting, Ends

LEMMA NoUserIsNone == NoUser \notin User
BY DEF NoUser, User, Roles

\* A token is given for an account that exists.
LEMMA TokenHasAccount ==
    ASSUME TypeOK, TokensSpeakForAccounts, NEW k \in tokens
    PROVE  users[k.sub] # NoUser
BY DEF TypeOK, TokensSpeakForAccounts, Token, NoUser, Roles

\* A caller with a token has the tenant and the role of the token.
LEMMA ContextsType == ASSUME TypeOK PROVE Contexts \subseteq Context
<1> SUFFICES ASSUME NEW k \in tokens PROVE SecurityContext([tenant |-> k.tenant, role |-> k.role]) \in Context
  BY DEF Contexts
<1>1. k.tenant \in Tenants /\ k.role \in Roles
  BY DEF TypeOK, Token
<1> DEFINE sent == [tenant |-> k.tenant, role |-> k.role]
<1>2. sent # NoContext
  BY <1>1 DEF NoContext, Roles
<1>3. SecurityContext(sent) = [tenant |-> sent.tenant, role |-> NormalizeRole(sent.role)]
  BY <1>2, NamesAssumption DEF SecurityContext
<1> QED BY <1>1, <1>3 DEF NormalizeRole, Context

LEMMA SandboxUserType ==
    ASSUME NEW n \in Names PROVE SandboxUser(n) \in User /\ Apart(n, SandboxUser(n))
<1>1. SignupRole \in Roles /\ SandboxTenant[n] \in Tenants
  BY NamesAssumption DEF SignupRole, Roles
<1>2. SandboxUser(n) \in User
  BY <1>1 DEF SandboxUser, User, Context
<1>3. Apart(n, SandboxUser(n))
  BY NamesAssumption DEF SandboxUser, Apart
<1> QED BY <1>2, <1>3

LEMMA InitIInv == Init => IInv
<1> SUFFICES ASSUME Init PROVE IInv
  OBVIOUS
<1> DEFINE seed == [tenant |-> SeedTenant, role |-> "superadmin",
                    by |-> [tenant |-> SeedTenant, role |-> "superadmin"]]
<1>1. seed \in User /\ Apart(SeedName, seed)
  BY NamesAssumption DEF User, Context, Roles, Apart
<1>2. TypeOK
  BY <1>1, TimesAssumption DEF Init, TypeOK
<1>3. TokensSpeakForAccounts
  BY DEF Init, TokensSpeakForAccounts
<1>4. AccountsApart
  BY <1>1 DEF Init, AccountsApart
<1>5. PendingApart
  BY DEF Init, PendingApart, Waiting
<1> QED BY <1>2, <1>3, <1>4, <1>5 DEF IInv

\* The look at the name.
LEMMA LooksUpKeeps ==
    ASSUME IInv, NEW r \in Requests, NEW name \in Names, NEW user \in User,
           NEW signup \in BOOLEAN, Apart(name, user), LooksUp(r, name, user, signup)
    PROVE  IInv'
<1> DEFINE new == [step |-> "insert", name |-> name, user |-> user, signup |-> signup]
<1>1. UNCHANGED <<users, tokens, now>>
  BY DEF LooksUp
<1>2. \/ reqs' = [reqs EXCEPT ![r] = [step |-> "refused"]]
      \/ reqs' = [reqs EXCEPT ![r] = new]
  BY DEF LooksUp, Ended
<1>3. new \in Pending /\ [step |-> "refused"] \in Ends
  BY DEF Pending, Ends
<1>4. TypeOK'
  BY <1>1, <1>2, <1>3 DEF IInv, TypeOK
<1>5. PendingApart'
  <2> SUFFICES ASSUME NEW q \in Requests, reqs'[q].step = "insert"
               PROVE  Apart(reqs'[q].name, reqs'[q].user)
    BY DEF PendingApart, Apart
  <2>1. reqs'[q] = reqs[q] \/ reqs'[q] = [step |-> "refused"] \/ reqs'[q] = new
    BY <1>2 DEF IInv, TypeOK
  <2> QED BY <2>1 DEF IInv, PendingApart
<1> QED BY <1>1, <1>4, <1>5 DEF IInv, TokensSpeakForAccounts, AccountsApart, Apart

LEMMA InsertKeeps == ASSUME IInv, NEW r \in Requests, Insert(r) PROVE IInv'
<1> DEFINE q == reqs[r]
<1>1. q \in Pending
  BY PendingType DEF IInv, Insert
<1>2. q.name \in Names /\ q.user \in User
  BY <1>1 DEF Pending
<1>3. /\ users[q.name] = NoUser /\ UNCHANGED now
      /\ users' = [users EXCEPT ![q.name] = q.user]
      /\ reqs' = [reqs EXCEPT ![r] = [step |-> "made"]]
      /\ tokens' = tokens \/ tokens' = tokens \cup {Claims(q.name, q.user, SandboxLifetime)}
  BY DEF Insert, Accepts, Ended
<1>4. /\ Claims(q.name, q.user, SandboxLifetime) \in Token
      /\ Claims(q.name, q.user, SandboxLifetime).sub = q.name
      /\ Claims(q.name, q.user, SandboxLifetime).tenant = q.user.tenant
      /\ Claims(q.name, q.user, SandboxLifetime).role = q.user.role
  BY <1>2, TimesAssumption DEF Claims, Token, User, IInv, TypeOK
<1>5. TypeOK'
  <2>1. users' \in [Names -> User \cup {NoUser}]
    BY <1>2, <1>3 DEF IInv, TypeOK
  <2>2. reqs' \in [Requests -> {Waiting} \cup Pending \cup Ends]
    BY <1>3 DEF IInv, TypeOK, Ends
  <2>3. tokens' \subseteq Token /\ now' \in 0..MaxTime
    BY <1>3, <1>4 DEF IInv, TypeOK
  <2> QED BY <2>1, <2>2, <2>3 DEF TypeOK
<1>6. TokensSpeakForAccounts'
  <2> SUFFICES ASSUME NEW k \in tokens'
               PROVE  users'[k.sub].tenant = k.tenant /\ users'[k.sub].role = k.role
    BY DEF TokensSpeakForAccounts
  <2>1. CASE k \in tokens
    <3>1. users[k.sub] # NoUser /\ k.sub \in Names
      BY <2>1, TokenHasAccount DEF IInv, TypeOK, Token
    <3>2. users'[k.sub] = users[k.sub]
      BY <1>3, <3>1 DEF IInv, TypeOK
    <3> QED BY <2>1, <3>2 DEF IInv, TokensSpeakForAccounts
  <2>2. CASE k = Claims(q.name, q.user, SandboxLifetime)
    <3>1. users'[q.name] = q.user
      BY <1>2, <1>3 DEF IInv, TypeOK
    <3> QED BY <1>4, <2>2, <3>1
  <2> QED BY <1>3, <2>1, <2>2
<1>7. AccountsApart'
  <2> SUFFICES ASSUME NEW m \in Names, users'[m] # NoUser PROVE Apart(m, users'[m])
    BY DEF AccountsApart, Apart
  <2>1. Apart(q.name, q.user)
    BY DEF IInv, PendingApart, Insert
  <2>2. users'[m] = IF m = q.name THEN q.user ELSE users[m]
    BY <1>3 DEF IInv, TypeOK
  <2> QED BY <2>1, <2>2 DEF IInv, AccountsApart
<1>8. PendingApart'
  <2> SUFFICES ASSUME NEW p \in Requests, reqs'[p].step = "insert"
               PROVE  Apart(reqs'[p].name, reqs'[p].user)
    BY DEF PendingApart, Apart
  <2>1. reqs'[p] = reqs[p]
    BY <1>3 DEF IInv, TypeOK
  <2> QED BY <2>1 DEF IInv, PendingApart
<1> QED BY <1>5, <1>6, <1>7, <1>8 DEF IInv

LEMMA NextIInv == IInv /\ [Next]_vars => IInv'
<1> SUFFICES ASSUME IInv, [Next]_vars PROVE IInv'
  OBVIOUS
<1>1. CASE UNCHANGED vars
  BY <1>1 DEF vars, IInv, TypeOK, TokensSpeakForAccounts, AccountsApart, PendingApart, Apart
<1>2. ASSUME NEW r \in Requests, Register(r) PROVE IInv'
  <2>1. PICK ctx \in Contexts, name \in Names, tenant \in Tenants, role \in Roles :
            /\ MayCall(ctx, {"admin", "superadmin"})
            /\ ~Foreign(ctx, tenant)
            /\ LooksUp(r, name, [tenant |-> tenant, role |-> role, by |-> ctx], FALSE)
    BY <1>2 DEF Register
  <2> DEFINE user == [tenant |-> tenant, role |-> role, by |-> ctx]
  <2>2. ctx \in Context
    BY ContextsType DEF IInv
  <2>3. user \in User
    BY <2>2 DEF User
  <2>4. Apart(name, user)
    BY <2>1 DEF MayCall, Foreign, Apart
  <2> QED BY <2>1, <2>3, <2>4, LooksUpKeeps
<1>3. ASSUME NEW r \in Requests, Signup(r) PROVE IInv'
  BY <1>3, SandboxUserType, LooksUpKeeps DEF Signup
<1>4. ASSUME NEW r \in Requests, Insert(r) PROVE IInv'
  BY <1>4, InsertKeeps
<1>5. ASSUME NEW r \in Requests, Fails(r) PROVE IInv'
  <2>1. reqs' = [reqs EXCEPT ![r] = [step |-> "refused"]] /\ UNCHANGED <<users, tokens, now>>
    BY <1>5 DEF Fails, Ended
  <2>2. [step |-> "refused"] \in Ends
    BY DEF Ends
  <2>3. TypeOK'
    BY <2>1, <2>2 DEF IInv, TypeOK
  <2>4. PendingApart'
    <3> SUFFICES ASSUME NEW p \in Requests, reqs'[p].step = "insert"
                 PROVE  Apart(reqs'[p].name, reqs'[p].user)
      BY DEF PendingApart, Apart
    <3>1. reqs'[p] = reqs[p]
      BY <2>1 DEF IInv, TypeOK
    <3> QED BY <3>1 DEF IInv, PendingApart
  <2> QED BY <2>1, <2>3, <2>4 DEF IInv, TokensSpeakForAccounts, AccountsApart, Apart
<1>6. ASSUME NEW n \in Names, Login(n) PROVE IInv'
  <2> DEFINE k == Claims(n, users[n], Lifetime)
  <2>1. users[n] \in User /\ tokens' = tokens \cup {k} /\ UNCHANGED <<users, reqs, now>>
    BY <1>6 DEF Login, IInv, TypeOK
  <2>2. k \in Token /\ k.sub = n /\ k.tenant = users[n].tenant /\ k.role = users[n].role
    BY <2>1, TimesAssumption DEF Claims, Token, User, IInv, TypeOK
  <2>3. TypeOK'
    BY <2>1, <2>2 DEF IInv, TypeOK
  <2>4. TokensSpeakForAccounts'
    BY <2>1, <2>2 DEF IInv, TokensSpeakForAccounts
  <2> QED BY <2>1, <2>3, <2>4 DEF IInv, AccountsApart, PendingApart, Apart
<1>7. ASSUME Tick PROVE IInv'
  BY <1>7, TimesAssumption
     DEF Tick, IInv, TypeOK, TokensSpeakForAccounts, AccountsApart, PendingApart, Apart
<1> QED BY <1>1, <1>2, <1>3, <1>4, <1>5, <1>6, <1>7 DEF Next

LEMMA Invariance == Spec => []IInv
BY InitIInv, NextIInv, PTL DEF Spec

\* Type correctness of the accounts, the requests, the tokens and the clock.
THEOREM TypeCorrect == Spec => []TypeOK
<1>1. IInv => TypeOK
  BY DEF IInv
<1> QED BY <1>1, Invariance, PTL

\* For any number of overlapping requests a token speaks for its account: the
\* unique constraint alone keeps a name from being given twice.
THEOREM TokensSpeakForAccountsThm == Spec => []TokensSpeakForAccounts
<1>1. IInv => TokensSpeakForAccounts
  BY DEF IInv
<1> QED BY <1>1, Invariance, PTL

\* The tenant of a sandbox holds what its owner or a superadmin put there.
THEOREM SandboxesApartThm == Spec => []SandboxesApart
<1>1. IInv => SandboxesApart
  BY DEF IInv, SandboxesApart, AccountsApart, Apart
<1> QED BY <1>1, Invariance, PTL
==============================================================================

-------------------------- MODULE TokenAuth_proofs --------------------------
(***************************************************************************)
(* Proofs about the token API, for any users, tenants, accounts, requests, *)
(* replicas and clocks.                                                    *)
(***************************************************************************)
EXTENDS TokenAuth, TLAPS

(* What is known of the fields of a request that is past ParseRequest. *)
RepoScope(s) ==
    /\ s = [type |-> "repository", name |-> s.name, actions |-> s.actions]
    /\ s.name \in RepoNames
    /\ s.actions \subseteq {"pull", "push"}
ScopeOK(s) == s = NoScope \/ s = CatalogScope \/ RepoScope(s)

(* A tenant that FindAccount found still owns the account, since accounts   *)
(* are never handed on (Accounts, TenantImmutable).                         *)
TenantOK(q, own) ==
    /\ q.tenant \in Tenants \cup {None}
    /\ q.tenant # None => /\ q.scope.type = "repository"
                          /\ own[AccountOf[q.scope.name]] = q.tenant

MayIn(authz, own, perm, n) == own[n] # None /\ <<perm, own[n]>> \in authz

RepoGrant(s, scope, authz, own) ==
    /\ RepoScope(s)
    /\ RepoScope(scope)
    /\ s.name = scope.name
    /\ s.actions \subseteq scope.actions
    /\ own[AccountOf[s.name]] # None
    /\ "pull" \in s.actions => MayIn(authz, own, "view", AccountOf[s.name])
    /\ "push" \in s.actions => MayIn(authz, own, "change", AccountOf[s.name])
AccountGrant(s, scope, authz, own) ==
    /\ s = [type |-> "keppel_account", name |-> s.name, actions |-> {"view"}]
    /\ s.name \in Names
    /\ MayIn(authz, own, "view", s.name)
    /\ scope = CatalogScope
Granted(s, scope, authz, own) ==
    \/ RepoGrant(s, scope, authz, own)
    \/ AccountGrant(s, scope, authz, own)
    \/ s = CatalogScope

(* The claims are those that the replica signs at the time of issue. *)
ClaimsOK(q) ==
    /\ q.issued \in Nat
    /\ q.claims.host = Host[q.replica]
    /\ q.claims.nbf = q.issued + Skew[q.replica]
    /\ q.claims.exp = q.issued + Skew[q.replica] + Lifetime
    /\ q.scope = CatalogScope => CatalogScope \in q.claims.access

RequestOK(q, own) ==
    \/ q.pc \in {"idle"} \cup Answers
    \/ /\ q.pc = "find"
       /\ q.replica \in Replicas /\ q.login \in Logins /\ ScopeOK(q.scope)
    \/ /\ q.pc = "auth"
       /\ q.replica \in Replicas /\ q.login \in Logins /\ ScopeOK(q.scope)
       /\ TenantOK(q, own)
    \/ /\ q.pc = "respond"
       /\ q.replica \in Replicas /\ ScopeOK(q.scope)
       /\ TenantOK(q, own) /\ q.authz \in Authz
    \/ /\ q.pc = "token"
       /\ q.replica \in Replicas /\ ScopeOK(q.scope)
       /\ q.authz \in Authz /\ ClaimsOK(q)
       /\ \A s \in q.claims.access : Granted(s, q.scope, q.authz, own)

(* The inductive invariant of the token API. *)
IInv ==
    /\ owner \in [Names -> Tenants \cup {None}]
    /\ rights \in [Users -> Authz]
    /\ clock \in 0 .. MaxClock
    /\ auth = [h \in Handlers |-> auth[h]]
    /\ \A h \in Handlers : RequestOK(auth[h], owner)

(* Creating an account takes away nothing that was found or granted. *)
LEMMA AccountsGrow ==
    ASSUME NEW own \in [Names -> Tenants \cup {None}], NEW n \in Names,
           NEW t \in Tenants, own[n] = None, NEW q, RequestOK(q, own)
    PROVE  RequestOK(q, [own EXCEPT ![n] = t])
  <1> DEFINE new == [own EXCEPT ![n] = t]
  <1>1. \A m \in Names : own[m] # None => new[m] = own[m]
    OBVIOUS
  <1>2. \A s : RepoScope(s) => AccountOf[s.name] \in Names
    BY TokenAuthAssumption DEF RepoScope
  <1>3. ASSUME TenantOK(q, own), ScopeOK(q.scope) PROVE TenantOK(q, new)
    <2>1. q.scope.type = "repository" => RepoScope(q.scope)
      BY <1>3 DEF ScopeOK, NoScope, CatalogScope, ParseScope
    <2> QED BY <1>1, <1>2, <1>3, <2>1 DEF TenantOK
  <1>4. ASSUME NEW authz, NEW perm, NEW m \in Names, MayIn(authz, own, perm, m)
        PROVE  MayIn(authz, new, perm, m)
    BY <1>1, <1>4 DEF MayIn
  <1>5. ASSUME NEW s, NEW scope, NEW authz, Granted(s, scope, authz, own)
        PROVE  Granted(s, scope, authz, new)
    BY <1>1, <1>2, <1>4, <1>5 DEF Granted, RepoGrant, AccountGrant
  <1> HIDE DEF new
  <1>6. RequestOK(q, new)
    BY <1>3, <1>5 DEF RequestOK
  <1> QED BY <1>6 DEF new

(* A step that only changes the state of one request. *)
LEMMA RequestStep ==
    ASSUME IInv, NEW h \in Handlers, NEW q,
           auth' = [auth EXCEPT ![h] = q], RequestOK(q, owner),
           UNCHANGED <<owner, rights, clock>>
    PROVE  IInv'
  <1>1. auth' = [g \in Handlers |-> IF g = h THEN q ELSE auth[g]]
    BY DEF IInv
  <1>2. \A g \in Handlers : RequestOK(auth'[g], owner)
    BY <1>1 DEF IInv
  <1>3. auth' = [g \in Handlers |-> auth'[g]]
    BY <1>1
  <1> QED BY <1>2, <1>3 DEF IInv

(* A request is refused. *)
LEMMA RefuseStep ==
    ASSUME IInv, NEW h \in Handlers, NEW code \in Answers, Refuse(h, code),
           UNCHANGED <<owner, rights, clock>>
    PROVE  IInv'
  <1>1. RequestOK([pc |-> code], owner)
    BY DEF RequestOK
  <1> QED BY <1>1, RequestStep DEF Refuse

(* A scope that ParseRequest lets pass. *)
LEMMA ParsedScope ==
    ASSUME NEW in, ~RequestInvalid(in)
    PROVE  ScopeOK(ParseRequest(in))
  <1>1. CASE in.scope = <<>>
    BY <1>1 DEF ParseRequest, ScopeOK
  <1>2. CASE in.scope # <<>>
    <2> DEFINE f == in.scope
    <2>1. /\ ParseRequest(in) = ParseScope(f)
          /\ \/ f[1] = "registry" /\ f[2] = "catalog"
             \/ f[1] = "repository" /\ f[2] \in RepoNames
                /\ f[3] \subseteq {"pull", "push"}
      BY <1>2 DEF RequestInvalid, ScopeInvalid, ParseRequest
    <2> HIDE DEF f
    <2>2. CASE f[1] = "registry" /\ f[2] = "catalog"
      BY <2>1, <2>2 DEF ParseScope, ScopeOK, CatalogScope
    <2>3. CASE f[1] = "repository" /\ f[2] \in RepoNames
               /\ f[3] \subseteq {"pull", "push"}
      BY <2>1, <2>3 DEF ParseScope, ScopeOK, RepoScope
    <2> QED BY <2>1, <2>2, <2>3
  <1> QED BY <1>1, <1>2

(* What a token grants when handleGetAuth signs it. *)
LEMMA TokenGrants ==
    ASSUME NEW q, ScopeOK(q.scope), TenantOK(q, owner), q.authz \in Authz,
           owner \in [Names -> Tenants \cup {None}],
           NEW s \in ToToken(q.scope, q.tenant, q.authz)
    PROVE  Granted(s, q.scope, q.authz, owner)
  <1> DEFINE g == [q.scope EXCEPT !.actions =
                     GrantedActions(q.scope, q.tenant, q.authz)]
  <1>1. CASE q.scope = NoScope
    <2>1. GrantedActions(q.scope, q.tenant, q.authz) = {}
      BY <1>1 DEF NoScope, GrantedActions
    <2>2. g.actions = {}
      BY <1>1, <2>1 DEF NoScope
    <2> QED BY <1>1, <2>2 DEF ToToken, NoScope
  <1>2. CASE q.scope = CatalogScope
    <2>1. /\ q.scope.type = "registry" /\ q.scope.name = "catalog"
          /\ GrantedActions(q.scope, q.tenant, q.authz) = {"*"}
          /\ g = CatalogScope
      BY <1>2 DEF CatalogScope, ParseScope, GrantedActions
    <2>2. s = CatalogScope \/ s \in compileCatalogAccess(q.authz)
      BY <2>1 DEF ToToken
    <2>3. ASSUME s \in compileCatalogAccess(q.authz)
          PROVE  AccountGrant(s, q.scope, q.authz, owner)
      <3>1. PICK n \in Names :
              /\ owner[n] # None /\ HasPermission(q.authz, "view", owner[n])
              /\ s = [type |-> "keppel_account", name |-> n,
                      actions |-> {"view"}]
        BY <2>3 DEF compileCatalogAccess
      <3> QED BY <1>2, <3>1 DEF AccountGrant, MayIn, HasPermission
    <2> QED BY <2>2, <2>3 DEF Granted
  <1>3. CASE RepoScope(q.scope)
    <2>1. /\ q.scope.type = "repository"
          /\ g = [type |-> "repository", name |-> q.scope.name,
                  actions |-> GrantedActions(q.scope, q.tenant, q.authz)]
      BY <1>3 DEF RepoScope
    <2>2. s = g /\ g.actions # {}
      BY <2>1 DEF ToToken
    <2>3. /\ q.tenant # None
          /\ s.actions = filterRepoActions(q.scope.actions, q.authz, q.tenant)
      BY <2>1, <2>2 DEF GrantedActions
    <2>4. owner[AccountOf[s.name]] = q.tenant
      BY <2>1, <2>2, <2>3 DEF TenantOK
    <2>5. RepoScope(s) /\ s.name = q.scope.name
          /\ s.actions \subseteq q.scope.actions
      BY <1>3, <2>1, <2>2, <2>3 DEF RepoScope, filterRepoActions
    <2> QED BY <1>3, <2>3, <2>4, <2>5
            DEF Granted, RepoGrant, MayIn, filterRepoActions, HasPermission
  <1> QED BY <1>1, <1>2, <1>3 DEF ScopeOK

(* Whoever asks for the catalog gets it. *)
LEMMA CatalogGranted ==
    ASSUME NEW tenant, NEW authz
    PROVE  CatalogScope \in ToToken(CatalogScope, tenant, authz)
  BY DEF ToToken, CatalogScope, ParseScope, GrantedActions

(* Every step preserves the invariant. *)
LEMMA Invariance == IInv /\ [Next]_vars => IInv'
  <1> SUFFICES ASSUME IInv, [Next]_vars PROVE IInv'
    OBVIOUS
  <1>1. ASSUME NEW h \in Handlers, NEW i \in Replicas, NEW in \in Inputs,
               GetAuthStart(h, i, in)
        PROVE  IInv'
    <2>1. CASE RequestInvalid(in)
      <3>1. Refuse(h, "400")
        BY <1>1, <2>1 DEF GetAuthStart, Refuse
      <3> QED BY <1>1, <3>1, RefuseStep DEF GetAuthStart, Answers
    <2>2. CASE ~RequestInvalid(in)
      <3> DEFINE q == [pc |-> "find", replica |-> i, login |-> in.login,
                       scope |-> ParseRequest(in)]
      <3>1. auth' = [auth EXCEPT ![h] = q]
        BY <1>1, <2>2 DEF GetAuthStart
      <3>2. RequestOK(q, owner)
        BY <2>2, ParsedScope DEF RequestOK, Logins
      <3> HIDE DEF q
      <3> QED BY <1>1, <3>1, <3>2, RequestStep DEF GetAuthStart
    <2> QED BY <2>1, <2>2
  <1>2. ASSUME NEW h \in Handlers, GetAuthFind(h) PROVE IInv'
    <2> DEFINE p == auth[h]
               tenant == IF p.scope.type = "repository"
                         THEN owner[AccountOf[p.scope.name]] ELSE None
               q == [pc |-> "auth", replica |-> p.replica, login |-> p.login,
                     scope |-> p.scope, tenant |-> tenant]
    <2>1. auth' = [auth EXCEPT ![h] = q]
      BY <1>2 DEF GetAuthFind
    <2>2. p.replica \in Replicas /\ p.login \in Logins /\ ScopeOK(p.scope)
      BY <1>2 DEF GetAuthFind, IInv, RequestOK, Answers
    <2>3. p.scope.type = "repository" => p.scope.name \in RepoNames
      BY <2>2 DEF ScopeOK, RepoScope, NoScope, CatalogScope, ParseScope
    <2>4. tenant \in Tenants \cup {None}
      BY <2>3, TokenAuthAssumption DEF IInv
    <2>5. TenantOK(q, owner)
      BY <2>4 DEF TenantOK
    <2>6. RequestOK(q, owner)
      BY <2>2, <2>5 DEF RequestOK
    <2> HIDE DEF q
    <2> QED BY <1>2, <2>1, <2>6, RequestStep DEF GetAuthFind
  <1>3. ASSUME NEW h \in Handlers, GetAuthAuthenticate(h) PROVE IInv'
    <2> DEFINE p == auth[h]
               authz == rights[AuthOptions(p.login)]
               q == [pc |-> "respond", replica |-> p.replica,
                     scope |-> p.scope, tenant |-> p.tenant, authz |-> authz]
    <2>1. CASE Refuse(h, "401") \/ Refuse(h, "panic")
      BY <1>3, <2>1, RefuseStep DEF GetAuthAuthenticate, Answers
    <2>2. CASE AuthenticateUser(p.login) /\ auth' = [auth EXCEPT ![h] = q]
      <3>1. /\ p.replica \in Replicas /\ ScopeOK(p.scope)
            /\ TenantOK(p, owner)
        BY <1>3 DEF GetAuthAuthenticate, IInv, RequestOK, Answers
      <3>2. authz \in Authz
        BY <2>2 DEF IInv, AuthenticateUser
      <3>3. TenantOK(q, owner)
        BY <3>1 DEF TenantOK
      <3>4. RequestOK(q, owner)
        BY <3>1, <3>2, <3>3 DEF RequestOK
      <3> HIDE DEF q
      <3> QED BY <1>3, <2>2, <3>4, RequestStep DEF GetAuthAuthenticate
    <2> QED BY <1>3, <2>1, <2>2 DEF GetAuthAuthenticate
  <1>4. ASSUME NEW h \in Handlers, GetAuthRespond(h) PROVE IInv'
    <2> DEFINE p == auth[h]
               access == ToToken(p.scope, p.tenant, p.authz)
               q == [pc |-> "token", replica |-> p.replica,
                     scope |-> p.scope, authz |-> p.authz, issued |-> clock,
                     claims |-> ToResponse(p.replica, access)]
    <2>1. auth' = [auth EXCEPT ![h] = q]
      BY <1>4 DEF GetAuthRespond
    <2>2. /\ p.replica \in Replicas /\ ScopeOK(p.scope)
          /\ TenantOK(p, owner) /\ p.authz \in Authz
      BY <1>4 DEF GetAuthRespond, IInv, RequestOK, Answers
    <2>3. \A s \in access : Granted(s, p.scope, p.authz, owner)
      BY <2>2, TokenGrants DEF IInv
    <2>4. p.scope = CatalogScope => CatalogScope \in access
      BY CatalogGranted
    <2> HIDE DEF access
    <2>5. ClaimsOK(q) /\ q.claims.access = access
      BY <2>4, TokenAuthAssumption DEF ClaimsOK, ToResponse, IInv
    <2>6. RequestOK(q, owner)
      BY <2>2, <2>3, <2>5 DEF RequestOK
    <2> HIDE DEF q
    <2> QED BY <1>4, <2>1, <2>6, RequestStep DEF GetAuthRespond
  <1>5. ASSUME NEW h \in Handlers, GetAuthFails(h) PROVE IInv'
    BY <1>5, RefuseStep DEF GetAuthFails, Answers
  <1>6. ASSUME NEW n \in Names, NEW t \in Tenants, CreateAccount(n, t)
        PROVE  IInv'
    <2>1. \A h \in Handlers : RequestOK(auth[h], owner')
      BY <1>6, AccountsGrow DEF CreateAccount, IInv
    <2> QED BY <1>6, <2>1 DEF CreateAccount, IInv
  <1>7. ASSUME NEW u \in Users, NEW R \in RightSets, AssignRoles(u, R)
        PROVE  IInv'
    BY <1>7, TokenAuthAssumption DEF AssignRoles, IInv, Authz
  <1>8. CASE Tick
    BY <1>8, TokenAuthAssumption DEF Tick, IInv
  <1>9. CASE UNCHANGED vars
    BY <1>9 DEF vars, IInv
  <1> QED BY <1>1, <1>2, <1>3, <1>4, <1>5, <1>6, <1>7, <1>8, <1>9 DEF Next

(* The inductive invariant holds in every state of the token API. *)
THEOREM IInvCorrect == Spec => []IInv
  <1>1. Init => IInv
    BY TokenAuthAssumption DEF Init, IInv, RequestOK, Idle, Authz
  <1> QED BY <1>1, Invariance, PTL DEF Spec

(* A scope that was parsed or granted is of the type Scopes. *)
LEMMA ScopeTypes ==
    /\ \A s : ScopeOK(s) => s \in Scopes
    /\ \A s, scope, authz, own : Granted(s, scope, authz, own) => s \in Scopes
  <1>1. NoScope \in Scopes /\ CatalogScope \in Scopes
    BY DEF NoScope, CatalogScope, ParseScope, Scopes
  <1>2. \A s : RepoScope(s) => s \in Scopes
    BY DEF RepoScope, Scopes
  <1>3. \A s, scope, authz, own :
          AccountGrant(s, scope, authz, own) => s \in Scopes
    BY DEF AccountGrant, Scopes
  <1> QED BY <1>1, <1>2, <1>3 DEF ScopeOK, Granted, RepoGrant

(* Type correctness of the token API. *)
THEOREM TypeCorrect == Spec => []TypeOK
  <1>1. IInv => TypeOK
    <2> SUFFICES ASSUME IInv PROVE TypeOK
      OBVIOUS
    <2>1. ASSUME NEW h \in Handlers, auth[h].pc = "token"
          PROVE  /\ auth[h].issued \in Nat
                 /\ auth[h].claims.access \subseteq Scopes
      BY <2>1, ScopeTypes DEF IInv, RequestOK, Answers, ClaimsOK
    <2> QED BY <2>1, ScopeTypes DEF IInv, TypeOK, RequestOK, TenantOK
  <1> QED BY <1>1, IInvCorrect, PTL

(* handleGetAuth never grants more than was asked for, nothing for accounts *)
(* that do not exist and, where the policy ties viewing to pulling and      *)
(* changing to pushing, only what the user had the permission for in the    *)
(* tenant that owns the account now, however accounts and role assignments  *)
(* change between its steps.  (The code as it is issues no tokens, see      *)
(* AuthenticatedGetsAnswer; this is about the rest of the handler.)         *)
THEOREM Grants == Spec => []GrantsCovered
  <1>1. IInv => GrantsCovered
    <2> SUFFICES ASSUME IInv, NEW h \in Handlers, HasToken(h),
                        NEW s \in auth[h].claims.access
                 PROVE  CASE s.type = "repository" ->
                               /\ s.name = auth[h].scope.name
                               /\ s.actions \subseteq auth[h].scope.actions
                               /\ owner[AccountOf[s.name]] # None
                               /\ PolicyTies(auth[h].authz) =>
                                    \A a \in s.actions :
                                        May(a, AccountOf[s.name], auth[h].authz)
                          [] s.type = "keppel_account" ->
                               /\ May("view", s.name, auth[h].authz)
                               /\ auth[h].scope = CatalogScope
                          [] OTHER -> s = CatalogScope
      BY DEF GrantsCovered
    <2>1. Granted(s, auth[h].scope, auth[h].authz, owner)
      BY DEF IInv, RequestOK, HasToken, Answers
    <2>2. CASE RepoGrant(s, auth[h].scope, auth[h].authz, owner)
      <3>1. s.type = "repository" /\ s.actions \subseteq {"pull", "push"}
        BY <2>2 DEF RepoGrant, RepoScope
      <3>2. owner[AccountOf[s.name]] \in Tenants
        BY <2>2, TokenAuthAssumption DEF RepoGrant, RepoScope, IInv
      <3>3. ASSUME PolicyTies(auth[h].authz), NEW a \in s.actions
            PROVE  May(a, AccountOf[s.name], auth[h].authz)
        <4>1. CASE a = "pull"
          BY <2>2, <3>2, <3>3, <4>1 DEF RepoGrant, PolicyTies, May, MayIn
        <4>2. CASE a = "push"
          BY <2>2, <3>2, <3>3, <4>2 DEF RepoGrant, PolicyTies, May, MayIn
        <4> QED BY <3>1, <3>3, <4>1, <4>2
      <3> QED BY <2>2, <3>1, <3>3 DEF RepoGrant
    <2>3. CASE AccountGrant(s, auth[h].scope, auth[h].authz, owner)
      <3>1. s.type = "keppel_account"
        BY <2>3 DEF AccountGrant
      <3> QED BY <2>3, <3>1 DEF AccountGrant, May, MayIn
    <2>4. CASE s = CatalogScope
      <3>1. s.type = "registry"
        BY <2>4 DEF CatalogScope, ParseScope
      <3> QED BY <2>4, <3>1
    <2> QED BY <2>1, <2>2, <2>3, <2>4 DEF Granted
  <1> QED BY <1>1, IInvCorrect, PTL

(* ParseTokenFromRequest takes a token only from its issue to its expiry,   *)
(* up to the difference of the clocks and the tolerance, and only on        *)
(* replicas of the host that issued it.                                     *)
THEOREM Window == Spec => []AcceptanceWindow
  <1>1. IInv => AcceptanceWindow
    <2> SUFFICES ASSUME IInv, NEW h \in Handlers, NEW p \in Replicas,
                        HasToken(h),
                        requireBearerToken(p, auth[h].claims, NoScope)
                 PROVE  LET age == clock - auth[h].issued + Skew[p]
                                   - Skew[auth[h].replica]
                        IN  /\ Host[p] = Host[auth[h].replica]
                            /\ -Leeway <= age /\ age <= Lifetime + Leeway
      BY DEF AcceptanceWindow
    <2>1. auth[h].replica \in Replicas /\ ClaimsOK(auth[h])
      BY DEF IInv, RequestOK, HasToken, Answers
    <2>2. clock \in Int /\ Skew[p] \in Int /\ Skew[auth[h].replica] \in Int
          /\ Lifetime \in Int /\ Leeway \in Nat /\ auth[h].issued \in Int
      BY <2>1, TokenAuthAssumption DEF IInv, ClaimsOK
    <2> QED BY <2>1, <2>2 DEF ClaimsOK, requireBearerToken,
                              ParseTokenFromRequest, ClaimsValid
  <1> QED BY <1>1, IInvCorrect, PTL

(* The scope that handleProxyCatalog writes into its challenge can be asked *)
(* for, and the token that is given for it is accepted there.               *)
THEOREM Challenge == Spec => []ChallengeAnswerable
  <1>1. IInv => ChallengeAnswerable
    <2> SUFFICES ASSUME IInv, NEW h \in Handlers, NEW p \in Replicas,
                        HasToken(h),
                        ParseScope(String(CatalogScope)) = auth[h].scope,
                        Host[p] = Host[auth[h].replica],
                        clock + Skew[p] \in
                           auth[h].claims.nbf .. auth[h].claims.exp
                 PROVE  requireBearerToken(p, auth[h].claims, CatalogScope)
      BY DEF ChallengeAnswerable
    <2>1. auth[h].replica \in Replicas /\ ClaimsOK(auth[h])
      BY DEF IInv, RequestOK, HasToken, Answers
    <2>2. auth[h].scope = CatalogScope
      BY DEF String, CatalogScope, ParseScope
    <2>3. TokenContains(auth[h].claims, CatalogScope)
      BY <2>1, <2>2 DEF ClaimsOK, TokenContains, ScopeContains
    <2>4. clock \in Int /\ Skew[p] \in Int /\ Skew[auth[h].replica] \in Int
          /\ Lifetime \in Nat /\ Leeway \in Nat /\ auth[h].issued \in Int
      BY <2>1, TokenAuthAssumption DEF IInv, ClaimsOK
    <2>5. ParseTokenFromRequest(p, auth[h].claims)
      BY <2>1, <2>4 DEF ClaimsOK, ParseTokenFromRequest, ClaimsValid
    <2> QED BY <2>3, <2>5 DEF requireBearerToken
  <1> QED BY <1>1, IInvCorrect, PTL
=============================================================================

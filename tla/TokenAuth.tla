----------------------------- MODULE TokenAuth ------------------------------
(***************************************************************************)
(* The token API of keppel-api: GET /keppel/v1/auth                        *)
(* (src/pkg/api/auth/token.go), the scopes, requests, tokens and           *)
(* challenges of src/pkg/auth, and the checks that the registry API makes  *)
(* on a token (src/pkg/api/registry/proxy.go).                             *)
(*                                                                         *)
(* handleGetAuth looks up the account, asks Keystone about the user and    *)
(* then, for the catalog, reads all accounts.  Accounts are created and    *)
(* role assignments change in between.  The token is verified later by any *)
(* replica of keppel-api, on a clock of its own.                           *)
(*                                                                         *)
(* A scope string is the sequence of its fields between colons, the third  *)
(* of which is the set of words between commas ({""} if it is empty).      *)
(***************************************************************************)
EXTENDS Integers, Sequences

CONSTANTS
    Handlers,      \* concurrent requests for tokens
    Users,         \* <<user, domain, project, domain>> known to Keystone
    Tenants,
    Names,         \* account names
    RepoNames,     \* resource names that match repoNameRegexp, <= 256 long
    AccountOf,     \* the first path element of a name in RepoNames
    Inputs,        \* requests: see ParseRequest
    RightSets,     \* sets of <<permission, tenant>> a user may have
    Replicas,      \* processes that issue and verify tokens with one key
    Host,          \* Replicas -> the public hostname in their configuration
    Skew,          \* Replicas -> what their clock shows beyond true time
    Lifetime,      \* of a token (one hour)
    Leeway,        \* the three seconds in ParseTokenFromRequest
    None,
    NilErrorIsNil, \* see GetAuthAuthenticate; FALSE is the code as it is
    MaxClock       \* bound of the clock

Perms == {"view", "pull", "push", "change"}

ASSUME TokenAuthAssumption ==
    /\ AccountOf \in [RepoNames -> Names]
    /\ RightSets \subseteq SUBSET (Perms \X Tenants)
    /\ Skew \in [Replicas -> Int]
    /\ Lifetime \in Nat /\ Leeway \in Nat /\ MaxClock \in Nat
    /\ NilErrorIsNil \in BOOLEAN
    /\ None \notin Tenants

VARIABLES
    owner,   \* committed accounts: name -> AuthTenantID or None
    rights,  \* Keystone: user -> set of <<permission, tenant>>
    clock,   \* true time
    auth     \* handler -> the request it is at or has answered

vars == <<owner, rights, clock, auth>>

-----------------------------------------------------------------------------
(* Scopes. *)

NoScope == [type |-> "none", name |-> "none", actions |-> {}]

(* The early returns of ParseScope and of its switch. *)
ScopeInvalid(fields) ==
    \/ fields[1] = ""
    \/ Len(fields) # 3
    \/ ~ \/ fields[1] = "registry" /\ fields[2] = "catalog"
         \/ /\ fields[1] = "repository"
            /\ fields[2] \in RepoNames
            /\ fields[3] \subseteq {"pull", "push"}

ParseScope(fields) ==
    [type |-> fields[1], name |-> fields[2],
     actions |-> IF fields[1] = "registry" THEN {"*"} ELSE fields[3]]

String(s) == <<s.type, s.name, s.actions>>

ScopeContains(s, other) ==
    /\ s.type = other.type
    /\ s.name = other.name
    /\ other.actions \subseteq s.actions

(* A request [header, login, service, offline, scope]: whether there is a   *)
(* Basic Authorization header with a colon in it, the user name in it (its  *)
(* fields between "@" and "/"), whether the service is ours, whether an     *)
(* offline token is wanted, and the scope, <<>> if it is absent.            *)
RequestInvalid(in) ==
    \/ ~in.header
    \/ ~in.service
    \/ IF in.scope = <<>> THEN ~in.offline ELSE ScopeInvalid(in.scope)

ParseRequest(in) == IF in.scope = <<>> THEN NoScope ELSE ParseScope(in.scope)

-----------------------------------------------------------------------------
(* AuthenticateUser of the Keystone driver. *)

(* userNameRx: user@domain/project or user@domain/project@domain. *)
UserNameMatches(login) == Len(login) \in {3, 4}

(* Whose token Keystone is asked for: the project is in the user's domain   *)
(* unless another one is named.                                             *)
AuthOptions(login) ==
    IF Len(login) = 3 THEN Append(login, login[2]) ELSE login

(* Whether Keystone may issue a token: it does not know other users, and    *)
(* has the last word on the password.                                       *)
AuthenticateUser(login) ==
    UserNameMatches(login) /\ AuthOptions(login) \in Users

-----------------------------------------------------------------------------
(* Tokens. *)

HasPermission(authz, perm, tenant) == <<perm, tenant>> \in authz

(* Deliberately wrong: whoever may see the account may push. *)
filterRepoActions_View(actions, authz, tenant) ==
    {a \in actions : HasPermission(authz, "view", tenant)}

filterRepoActions(actions, authz, tenant) ==
    {a \in actions :
        \/ a = "pull" /\ HasPermission(authz, "view", tenant)
        \/ a = "push" /\ HasPermission(authz, "change", tenant)}

compileCatalogAccess(authz) ==
    {[type |-> "keppel_account", name |-> n, actions |-> {"view"}] :
        n \in {m \in Names : owner[m] # None
                             /\ HasPermission(authz, "view", owner[m])}}

(* Deliberately wrong: the catalog has no case of its own. *)
GrantedActions_NoCatalog(scope, tenant, authz) ==
    IF scope.type = "repository" /\ tenant # None
    THEN filterRepoActions(scope.actions, authz, tenant) ELSE {}

(* What handleGetAuth leaves of the actions of a scope when the account     *)
(* that FindAccount found belongs to tenant.                                *)
GrantedActions(scope, tenant, authz) ==
    CASE scope.type = "registry" /\ scope.name = "catalog" -> {"*"}
      [] scope.type = "repository" /\ tenant # None ->
            filterRepoActions(scope.actions, authz, tenant)
      [] OTHER -> {}

(* The access of the token: the scope and the compiled scopes with actions. *)
ToToken(scope, tenant, authz) ==
    LET compiled == IF scope.type = "registry" /\ scope.name = "catalog"
                    THEN compileCatalogAccess(authz) ELSE {}
        granted == [scope EXCEPT !.actions =
                        GrantedActions(scope, tenant, authz)]
    IN  {s \in {granted} \cup compiled : s.actions # {}}

(* The claims that replica i signs. *)
ToResponse(i, access) ==
    [host |-> Host[i], access |-> access,
     exp |-> clock + Skew[i] + Lifetime, nbf |-> clock + Skew[i]]

(* jwt.ParseWithClaims calls StandardClaims.Valid, which knows no leeway    *)
(* ("iat" and "nbf" are the same time).                                     *)
ClaimsValid(claims, now) == now <= claims.exp /\ now >= claims.nbf

(* Deliberately wrong: issuer and audience are not checked. *)
ParseTokenFromRequest_AnyHost(i, claims) ==
    LET now == clock + Skew[i]
    IN  /\ ClaimsValid(claims, now)
        /\ now - Leeway <= claims.exp
        /\ now + Leeway >= claims.nbf

(* Whether replica i takes the claims of a token with a valid signature.    *)
(* Issuer and audience both name the host.                                  *)
ParseTokenFromRequest(i, claims) ==
    LET now == clock + Skew[i]
    IN  /\ ClaimsValid(claims, now)
        /\ now - Leeway <= claims.exp
        /\ now + Leeway >= claims.nbf
        /\ claims.host = Host[i]

(* Token.Contains. *)
TokenContains(claims, scope) ==
    \E s \in claims.access : ScopeContains(s, scope)

(* 200; NoScope stands for no required scope. *)
requireBearerToken(i, claims, scope) ==
    /\ ParseTokenFromRequest(i, claims)
    /\ scope # NoScope => TokenContains(claims, scope)

(* What handleProxyCatalog requires, and writes into its challenge. *)
CatalogScope == ParseScope(<<"registry", "catalog", {"*"}>>)

-----------------------------------------------------------------------------
(* handleGetAuth. *)

Idle == [pc |-> "idle"]
Answers == {"400", "401", "500", "panic"}
Running(h) == auth[h].pc \in {"find", "auth", "respond"}

Init ==
    /\ owner = [n \in Names |-> None]
    /\ rights \in [Users -> RightSets]
    /\ clock = 0
    /\ auth = [h \in Handlers |-> Idle]

Refuse(h, code) == auth' = [auth EXCEPT ![h] = [pc |-> code]]

(* ParseRequest. *)
GetAuthStart(h, i, in) ==
    /\ ~Running(h)
    /\ auth' = [auth EXCEPT ![h] =
         IF RequestInvalid(in) THEN [pc |-> "400"]
         ELSE [pc |-> "find", replica |-> i, login |-> in.login,
               scope |-> ParseRequest(in)]]
    /\ UNCHANGED <<owner, rights, clock>>

(* Deliberately wrong: an unknown account is an error before the user is    *)
(* authenticated.                                                           *)
GetAuthFind_Unknown(h) ==
    /\ auth[h].pc = "find"
    /\ LET s == auth[h].scope
           tenant == IF s.type = "repository" THEN owner[AccountOf[s.name]]
                     ELSE None
       IN  IF s.type = "repository" /\ tenant = None THEN Refuse(h, "404")
           ELSE auth' = [auth EXCEPT ![h] =
                  [pc |-> "auth", replica |-> @.replica, login |-> @.login,
                   scope |-> s, tenant |-> tenant]]
    /\ UNCHANGED <<owner, rights, clock>>

(* FindAccount, if the scope is for a repository. *)
GetAuthFind(h) ==
    /\ auth[h].pc = "find"
    /\ LET s == auth[h].scope
       IN  auth' = [auth EXCEPT ![h] =
             [pc |-> "auth", replica |-> @.replica, login |-> @.login,
              scope |-> s,
              tenant |-> IF s.type = "repository"
                         THEN owner[AccountOf[s.name]] ELSE None]]
    /\ UNCHANGED <<owner, rights, clock>>

(* AuthenticateUser returns a *RegistryV2Error, which handleGetAuth assigns *)
(* to its variable err of the interface type error.  Even when the pointer  *)
(* is nil, err # nil, and respondWithError calls Error() on the nil         *)
(* pointer: the handler panics and the connection is closed.                *)
(* NilErrorIsNil = TRUE supposes a variable of its own, as in the handlers  *)
(* of accounts.go, so that what follows in the handler can be checked.      *)
GetAuthAuthenticate(h) ==
    /\ auth[h].pc = "auth"
    /\ \/ Refuse(h, "401")
       \/ /\ AuthenticateUser(auth[h].login)
          /\ IF NilErrorIsNil
             THEN auth' = [auth EXCEPT ![h] =
                    [pc |-> "respond", replica |-> @.replica,
                     scope |-> @.scope, tenant |-> @.tenant,
                     authz |-> rights[AuthOptions(@.login)]]]
             ELSE Refuse(h, "panic")
    /\ UNCHANGED <<owner, rights, clock>>

(* The actions are filtered, the catalog compiled and the token signed.     *)
(* The rights and the time of issue are kept for the properties.            *)
GetAuthRespond(h) ==
    /\ auth[h].pc = "respond"
    /\ LET q == auth[h]
       IN  auth' = [auth EXCEPT ![h] =
             [pc |-> "token", replica |-> q.replica, scope |-> q.scope,
              authz |-> q.authz, issued |-> clock,
              claims |-> ToResponse(q.replica,
                                    ToToken(q.scope, q.tenant, q.authz))]]
    /\ UNCHANGED <<owner, rights, clock>>

(* The query of FindAccount or of compileCatalogAccess fails. *)
GetAuthFails(h) ==
    /\ \/ auth[h].pc = "find" /\ auth[h].scope.type = "repository"
       \/ auth[h].pc = "respond" /\ auth[h].scope.type = "registry"
    /\ Refuse(h, "500")
    /\ UNCHANGED <<owner, rights, clock>>

(* Environment: a PUT of an account commits (Accounts), roles are assigned  *)
(* in Keystone, time passes.                                                *)
CreateAccount(n, t) ==
    /\ owner[n] = None
    /\ owner' = [owner EXCEPT ![n] = t]
    /\ UNCHANGED <<rights, clock, auth>>

AssignRoles(u, R) ==
    /\ rights' = [rights EXCEPT ![u] = R]
    /\ UNCHANGED <<owner, clock, auth>>

Tick ==
    /\ clock < MaxClock
    /\ clock' = clock + 1
    /\ UNCHANGED <<owner, rights, auth>>

Next ==
    \/ \E h \in Handlers :
         \/ \E i \in Replicas, in \in Inputs : GetAuthStart(h, i, in)
         \/ GetAuthFind(h) \/ GetAuthAuthenticate(h) \/ GetAuthRespond(h)
         \/ GetAuthFails(h)
    \/ \E n \in Names, t \in Tenants : CreateAccount(n, t)
    \/ \E u \in Users, R \in RightSets : AssignRoles(u, R)
    \/ Tick

Spec == Init /\ [][Next]_vars

-----------------------------------------------------------------------------
(* Properties. *)

Scopes == [type : {"none", "registry", "repository", "keppel_account"},
           name : {"none", "catalog"} \cup RepoNames \cup Names,
           actions : SUBSET {"pull", "push", "*", "view"}]
Claims == [host : {Host[i] : i \in Replicas}, access : SUBSET Scopes,
           exp : Int, nbf : Int]
Authz == SUBSET (Perms \X Tenants)
Logins == {in.login : in \in Inputs}

(* The type invariant: at which line of handleGetAuth a request is, and     *)
(* which of its variables are set there.                                    *)
TypeOK ==
    /\ owner \in [Names -> Tenants \cup {None}]
    /\ rights \in [Users -> Authz]
    /\ clock \in 0 .. MaxClock
    /\ \A h \in Handlers :
         LET q == auth[h]
         IN  \/ q.pc \in {"idle"} \cup Answers
             \/ /\ q.pc = "find"
                /\ q.replica \in Replicas /\ q.login \in Logins
                /\ q.scope \in Scopes
             \/ /\ q.pc = "auth"
                /\ q.replica \in Replicas /\ q.login \in Logins
                /\ q.scope \in Scopes /\ q.tenant \in Tenants \cup {None}
             \/ /\ q.pc = "respond"
                /\ q.replica \in Replicas /\ q.scope \in Scopes
                /\ q.tenant \in Tenants \cup {None} /\ q.authz \in Authz
             \/ /\ q.pc = "token"
                /\ q.replica \in Replicas /\ q.scope \in Scopes
                /\ q.authz \in Authz /\ q.issued \in Nat
                /\ q.claims.access \subseteq Scopes

HasToken(h) == auth[h].pc = "token"

(* The user authz has the permission for the account n, whoever owns it.    *)
May(perm, n, authz) == owner[n] # None /\ <<perm, owner[n]>> \in authz

(* The rights are such as docs/example-policy.json gives: whoever may see   *)
(* an account may pull from it, whoever may change it may push to it, and   *)
(* the other way round.                                                     *)
PolicyTies(authz) ==
    \A t \in Tenants :
        /\ <<"view", t>> \in authz <=> <<"pull", t>> \in authz
        /\ <<"change", t>> \in authz <=> <<"push", t>> \in authz

(* filterRepoActions and compileCatalogAccess: a token gives access only to *)
(* what was asked for, and to accounts that exist; to pull and push only    *)
(* with the permissions for that (CanPullFromAccount and CanPushToAccount)  *)
(* in the tenant that owns the account now, which the user had when it      *)
(* authenticated, although the account was looked up before or after.       *)
(* The last holds under policies that tie these permissions to viewing and  *)
(* changing, which are the ones that filterRepoActions asks for; under      *)
(* others it does not (see PullAndPushArePermitted).                        *)
GrantsCovered ==
    \A h \in Handlers : HasToken(h) =>
        \A s \in auth[h].claims.access :
            CASE s.type = "repository" ->
                   /\ s.name = auth[h].scope.name
                   /\ s.actions \subseteq auth[h].scope.actions
                   /\ owner[AccountOf[s.name]] # None
                   /\ PolicyTies(auth[h].authz) =>
                        \A a \in s.actions :
                            May(a, AccountOf[s.name], auth[h].authz)
              [] s.type = "keppel_account" ->
                   /\ May("view", s.name, auth[h].authz)
                   /\ auth[h].scope = CatalogScope
              [] OTHER -> s = CatalogScope

(* auth_driver.go: "CanPullFromAccount is the permission for pulling images *)
(* from this account", and CanPushToAccount that for pushing, under every   *)
(* policy.  filterRepoActions never asks for them: this is violated.        *)
PullAndPushArePermitted ==
    \A h \in Handlers : HasToken(h) =>
        \A s \in auth[h].claims.access : s.type = "repository" =>
            \A a \in s.actions : May(a, AccountOf[s.name], auth[h].authz)

(* ParseTokenFromRequest and ToResponse: a token is taken only by replicas  *)
(* of the host that issued it, and, up to how far their clocks are apart    *)
(* and to the tolerance, neither before its issue nor after its lifetime.   *)
AcceptanceWindow ==
    \A h \in Handlers, p \in Replicas :
        HasToken(h) /\ requireBearerToken(p, auth[h].claims, NoScope) =>
            LET age == clock - auth[h].issued + Skew[p] - Skew[auth[h].replica]
            IN  /\ Host[p] = Host[auth[h].replica]
                /\ -Leeway <= age /\ age <= Lifetime + Leeway

(* token.go: "allow up to 3 seconds clock mismatch": a token is taken at    *)
(* once by every replica of the host whose clock differs by no more than    *)
(* that from the issuer's.  jwt.ParseWithClaims has refused it before the   *)
(* tolerance is looked at: this is violated.                                *)
MismatchIsAllowed ==
    \A h \in Handlers, p \in Replicas :
        /\ HasToken(h)
        /\ Host[p] = Host[auth[h].replica]
        /\ clock = auth[h].issued
        /\ Skew[p] - Skew[auth[h].replica] \in -Leeway .. Leeway
        => requireBearerToken(p, auth[h].claims, NoScope)

(* handleProxyCatalog, Challenge.WriteTo and handleGetAuth: a client that   *)
(* asks for the scope it was challenged for gets a token that covers it, on *)
(* every replica of the host whose clock is between issue and expiry (for   *)
(* the tolerance see MismatchIsAllowed).                                    *)
ChallengeAnswerable ==
    \A h \in Handlers, p \in Replicas :
        /\ HasToken(h)
        /\ ParseScope(String(CatalogScope)) = auth[h].scope
        /\ Host[p] = Host[auth[h].replica]
        /\ clock + Skew[p] \in auth[h].claims.nbf .. auth[h].claims.exp
        => requireBearerToken(p, auth[h].claims, CatalogScope)

(* The README: "keppel-api signs tokens for Docker clients".  A request of  *)
(* an authenticated user is answered.                                       *)
AuthenticatedGetsAnswer == \A h \in Handlers : auth[h].pc # "panic"
=============================================================================

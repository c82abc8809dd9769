------------------------------ MODULE Accounts ------------------------------
(***************************************************************************)
(* The accounts API of keppel-api (src/pkg/api/keppel/accounts.go) on its  *)
(* PostgreSQL table accounts and on Keystone, where SetupAccount gives     *)
(* keppel's service user a role in the tenant of a new account.            *)
(*                                                                         *)
(* PUT requests run concurrently.  Each looks for the account outside any  *)
(* transaction, and creates it in one that inserts the row, assigns the    *)
(* role and commits.  PostgreSQL lets an INSERT wait while another         *)
(* transaction has an uncommitted row with the same primary key, and       *)
(* refuses it once such a row is committed.                                *)
(***************************************************************************)
EXTENDS Naturals

CONSTANTS
    Requests,    \* concurrent PUT requests
    Users,
    Names,       \* account names in request paths
    Reserved,    \* those with the prefix "keppel-"
    Tenants,
    EmptyTenant, \* the tenant ID that ValidateTenantID refuses
    None,        \* no row, no lock, no request
    MayList,     \* users with a valid token whom account:list lets in
    MayChange,   \* <<user, tenant>>: HasPermission(CanChangeAccount, tenant)
    MayView,     \* <<user, tenant>>: HasPermission(CanViewAccount, tenant)
    MaxCrashes   \* bound: crashes of keppel-api

ASSUME AccountsAssumption ==
    /\ Reserved \subseteq Names
    /\ EmptyTenant \notin Tenants
    /\ None \notin Tenants \cup {EmptyTenant} \cup Requests
    /\ MayChange \subseteq MayView
    /\ MayView \subseteq Users \X Tenants
    /\ MaxCrashes \in Nat

VARIABLES
    rows,     \* committed rows: name -> tenant or None
    locks,    \* name -> request with an uncommitted row of that name
    roles,    \* tenants in which keppel's service user has its role
    req,      \* per request: where handlePutAccount is, and its input
    crashes

vars == <<rows, locks, roles, req, crashes>>

PCs == {"find", "insert", "setup", "commit",
        "ok", "rejected", "conflict", "error"}
Idle == [pc |-> "idle", user |-> None, name |-> None, tenant |-> None]
ReqStates == {Idle} \cup [pc : PCs, user : Users, name : Names,
                          tenant : Tenants \cup {EmptyTenant}]
Answered(r) == req[r].pc \in {"idle", "ok", "rejected", "conflict", "error"}

Init ==
    /\ rows = [n \in Names |-> None]
    /\ locks = [n \in Names |-> None]
    /\ roles = {}
    /\ req = [r \in Requests |-> Idle]
    /\ crashes = 0

Goto(r, pc) == req' = [req EXCEPT ![r].pc = pc]

(* The defer of RollbackUnlessCommitted, when request r returns early. *)
Rollback(r) ==
    locks' = [n \in Names |-> IF locks[n] = r THEN None ELSE locks[n]]

(* The account in the table, or None. *)
FindAccount(n) == rows[n]

(* The token is checked in Keystone, and the rule account:list. *)
AuthenticateUserFromRequest(u) == u \in MayList

(* Whether user u may do what handlePutAccount(n, t) asks for. *)
Admissible(u, n, t) ==
    /\ t # EmptyTenant
    /\ n \notin Reserved
    /\ AuthenticateUserFromRequest(u)
    /\ <<u, t>> \in MayChange

(* Deliberately wrong: the prefix is not checked. *)
PutStart_NoReserved(r, u, n, t) ==
    /\ Answered(r)
    /\ req' = [req EXCEPT ![r] =
         [pc |-> IF AuthenticateUserFromRequest(u) /\ <<u, t>> \in MayChange
                 THEN "find" ELSE "rejected",
          user |-> u, name |-> n, tenant |-> t]]
    /\ UNCHANGED <<rows, locks, roles, crashes>>

(* A PUT request comes in.  The body is decoded and validated, the name is  *)
(* checked and the user is authenticated and authorized.                    *)
PutStart(r, u, n, t) ==
    /\ Answered(r)
    /\ req' = [req EXCEPT ![r] =
         [pc |-> IF Admissible(u, n, t) THEN "find" ELSE "rejected",
          user |-> u, name |-> n, tenant |-> t]]
    /\ UNCHANGED <<rows, locks, roles, crashes>>

(* FindAccount: the account is there, for another tenant, or is missing. *)
PutFind(r) ==
    /\ req[r].pc = "find"
    /\ LET found == FindAccount(req[r].name)
       IN  Goto(r, IF found = None THEN "insert"
                   ELSE IF found = req[r].tenant THEN "ok" ELSE "conflict")
    /\ UNCHANGED <<rows, locks, roles, crashes>>

(* Deliberately wrong: the row is inserted, or replaced, unconditionally. *)
PutInsert_Upsert(r) ==
    /\ req[r].pc = "insert"
    /\ locks[req[r].name] = None
    /\ locks' = [locks EXCEPT ![req[r].name] = r]
    /\ Goto(r, "setup")
    /\ UNCHANGED <<rows, roles, crashes>>

(* Begin and Insert. *)
PutInsert(r) ==
    /\ req[r].pc = "insert"
    /\ locks[req[r].name] = None
    /\ \/ /\ rows[req[r].name] = None
          /\ locks' = [locks EXCEPT ![req[r].name] = r]
          /\ Goto(r, "setup")
       \/ /\ rows[req[r].name] # None
          /\ Goto(r, "error")
          /\ UNCHANGED locks
    /\ UNCHANGED <<rows, roles, crashes>>

(* Deliberately wrong: the role is left to be assigned later. *)
PutSetup_Skipped(r) ==
    /\ req[r].pc = "setup"
    /\ Goto(r, "commit")
    /\ UNCHANGED <<rows, locks, roles, crashes>>

(* AuthDriver.SetupAccount: roles.Assign in Keystone. *)
PutSetup(r) ==
    /\ req[r].pc = "setup"
    /\ roles' = roles \cup {req[r].tenant}
    /\ Goto(r, "commit")
    /\ UNCHANGED <<rows, locks, crashes>>

(* Deliberately wrong: the answer is sent and the transaction rolled back. *)
PutCommit_Forgotten(r) ==
    /\ req[r].pc = "commit"
    /\ Rollback(r)
    /\ Goto(r, "ok")
    /\ UNCHANGED <<rows, roles, crashes>>

PutCommit(r) ==
    /\ req[r].pc = "commit"
    /\ rows' = [rows EXCEPT ![req[r].name] = req[r].tenant]
    /\ locks' = [locks EXCEPT ![req[r].name] = None]
    /\ Goto(r, "ok")
    /\ UNCHANGED <<roles, crashes>>

(* Deliberately wrong: no deferred rollback. *)
PutFails_NoRollback(r) ==
    /\ ~Answered(r)
    /\ Goto(r, "error")
    /\ UNCHANGED <<rows, locks, roles, crashes>>

(* A query, the role assignment or the commit returns an error, also when   *)
(* it was carried out and only the answer was lost.                         *)
PutFails(r) ==
    /\ ~Answered(r)
    /\ Goto(r, "error")
    /\ Rollback(r)
    /\ \/ UNCHANGED <<rows, roles>>
       \/ /\ req[r].pc = "setup"
          /\ roles' = roles \cup {req[r].tenant}
          /\ UNCHANGED rows
       \/ /\ req[r].pc = "commit"
          /\ rows' = [rows EXCEPT ![req[r].name] = req[r].tenant]
          /\ UNCHANGED roles
    /\ UNCHANGED crashes

(* keppel-api dies; PostgreSQL rolls back what was not committed. *)
Crash ==
    /\ crashes < MaxCrashes
    /\ crashes' = crashes + 1
    /\ req' = [r \in Requests |-> IF Answered(r) THEN req[r] ELSE Idle]
    /\ locks' = [n \in Names |-> None]
    /\ UNCHANGED <<rows, roles>>

Put(r) == PutFind(r) \/ PutInsert(r) \/ PutSetup(r) \/ PutCommit(r)

Next ==
    \/ \E r \in Requests, u \in Users, n \in Names,
          t \in Tenants \cup {EmptyTenant} : PutStart(r, u, n, t)
    \/ \E r \in Requests : Put(r) \/ PutFails(r)
    \/ Crash

Spec == Init /\ [][Next]_vars

(* A handler that can proceed does; nothing makes it fail.  Its INSERT can  *)
(* proceed when no transaction holds the name, and PostgreSQL does not let  *)
(* later inserts overtake a waiting one for ever.                           *)
FairSpec == Spec /\ \A r \in Requests : WF_vars(Put(r)) /\ SF_vars(PutInsert(r))

-----------------------------------------------------------------------------
(* GET requests only read. *)

(* handleGetAccount: 404 (None) also for what the user may not see. *)
GetAccount(u, n) ==
    IF /\ AuthenticateUserFromRequest(u)
       /\ FindAccount(n) # None
       /\ <<u, FindAccount(n)>> \in MayView
    THEN FindAccount(n) ELSE None

(* handleGetAccounts: all accounts, restricted to the visible ones. *)
GetAccounts(u) ==
    {n \in Names : /\ AuthenticateUserFromRequest(u)
                   /\ rows[n] # None
                   /\ <<u, rows[n]>> \in MayView}

-----------------------------------------------------------------------------
(* Properties. *)

(* The type invariant; an uncommitted row belongs to a handler that is in   *)
(* its transaction, and to none after the deferred rollback.                *)
TypeOK ==
    /\ rows \in [Names -> Tenants \cup {None}]
    /\ locks \in [Names -> Requests \cup {None}]
    /\ roles \subseteq Tenants
    /\ req \in [Requests -> ReqStates]
    /\ crashes \in Nat
    /\ \A r \in Requests : \A n \in Names :
         locks[n] = r <=> req[r].pc \in {"setup", "commit"} /\ req[r].name = n

(* Every account that can be seen has its role in Keystone: its registry    *)
(* can reach the Swift container of the tenant.                             *)
RoleBeforeAccount ==
    \A n \in Names : rows[n] # None => rows[n] \in roles

(* No account gets a reserved name, and none belongs to a tenant for which  *)
(* no user who is let in may create accounts.                               *)
OnlyAdmissibleAccounts ==
    \A n \in Names : rows[n] # None =>
        /\ n \notin Reserved
        /\ \E u \in Users : AuthenticateUserFromRequest(u)
                            /\ <<u, rows[n]>> \in MayChange

(* Two concurrent PUTs of one name for different tenants: no request that   *)
(* got 200 loses the account, and both GETs show it to its owner.           *)
SuccessIsVisible ==
    \A r \in Requests : req[r].pc = "ok" =>
        /\ GetAccount(req[r].user, req[r].name) = req[r].tenant
        /\ req[r].name \in GetAccounts(req[r].user)

(* An account is never handed to another tenant and never disappears. *)
TenantImmutable ==
    [][\A n \in Names : rows[n] # None => rows'[n] = rows[n]]_vars

(* Every PUT request is answered, although inserts wait for each other's    *)
(* transactions.                                                            *)
EveryPutAnswered == \A r \in Requests : ~Answered(r) ~> Answered(r)
=============================================================================

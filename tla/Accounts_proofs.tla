-------------------------- MODULE Accounts_proofs ---------------------------
(***************************************************************************)
(* Proofs about the accounts API, for any number of concurrent requests,   *)
(* users, account names and tenants, and any policy.                       *)
(***************************************************************************)
EXTENDS Accounts, TLAPS

Running == {"find", "insert", "setup", "commit"}

(* A handler that goes on, or has answered 200, was allowed to.  While it   *)
(* is in its transaction no row of that name is committed; before its       *)
(* commit the role is assigned; after its 200 the row is there.             *)
RequestInv ==
    \A r \in Requests :
        /\ req[r].pc \in Running \cup {"ok"} =>
             Admissible(req[r].user, req[r].name, req[r].tenant)
        /\ req[r].pc \in {"setup", "commit"} => rows[req[r].name] = None
        /\ req[r].pc = "commit" => req[r].tenant \in roles
        /\ req[r].pc = "ok" => rows[req[r].name] = req[r].tenant

(* The inductive invariant of the accounts API. *)
IInv == TypeOK /\ RequestInv /\ RoleBeforeAccount /\ OnlyAdmissibleAccounts

(* What a handler that is not idle works on. *)
LEMMA RunningType ==
    ASSUME TypeOK, NEW r \in Requests, req[r].pc # "idle"
    PROVE  /\ req[r] \in [pc : PCs, user : Users, name : Names,
                          tenant : Tenants \cup {EmptyTenant}]
           /\ req[r].pc \in PCs
           /\ req[r].user \in Users
           /\ req[r].name \in Names
           /\ req[r].tenant \in Tenants \cup {EmptyTenant}
  BY DEF TypeOK, ReqStates, Idle

(* Goto changes the program counter of one request and nothing else. *)
LEMMA GotoEffect ==
    ASSUME TypeOK, NEW r \in Requests, NEW pc \in PCs, req[r].pc # "idle",
           Goto(r, pc)
    PROVE  /\ req' \in [Requests -> ReqStates]
           /\ req'[r].pc = pc
           /\ req'[r].user = req[r].user
           /\ req'[r].name = req[r].name
           /\ req'[r].tenant = req[r].tenant
           /\ \A s \in Requests : s # r => req'[s] = req[s]
  <1>1. req[r] \in [pc : PCs, user : Users, name : Names,
                    tenant : Tenants \cup {EmptyTenant}]
    BY RunningType
  <1>2. req' = [req EXCEPT ![r] = [req[r] EXCEPT !.pc = pc]]
    BY DEF Goto
  <1> QED BY <1>1, <1>2 DEF TypeOK, ReqStates

(* The rows of a request's uncommitted inserts, and no others, are undone.  *)
LEMMA RollbackEffect ==
    ASSUME TypeOK, NEW r \in Requests, Rollback(r)
    PROVE  /\ locks' \in [Names -> Requests \cup {None}]
           /\ \A n \in Names, s \in Requests :
                locks'[n] = s <=> locks[n] = s /\ s # r
  BY AccountsAssumption DEF TypeOK, Rollback

(* One step of a handler, once its effect on the program counters, locks,   *)
(* rows and roles is known.                                                 *)
LEMMA HandlerStep ==
    ASSUME IInv, NEW r \in Requests, NEW pc \in PCs,
           req[r].pc \in Running, Goto(r, pc),
           locks' \in [Names -> Requests \cup {None}],
           \A n \in Names, s \in Requests :
              locks'[n] = s <=> IF s = r
                                THEN pc \in {"setup", "commit"} /\ n = req[r].name
                                ELSE locks[n] = s,
           rows' \in [Names -> Tenants \cup {None}],
           \A n \in Names : \/ rows'[n] = rows[n]
                           \/ /\ req[r].pc = "commit"
                              /\ n = req[r].name
                              /\ rows'[n] = req[r].tenant,
           roles' = roles \/ roles' = roles \cup {req[r].tenant},
           pc \in {"setup", "commit"} => rows'[req[r].name] = None,
           pc = "commit" => req[r].tenant \in roles',
           pc = "ok" => rows'[req[r].name] = req[r].tenant,
           crashes' = crashes
    PROVE  IInv'
  <1>1. /\ req[r].name \in Names
        /\ req[r].tenant \in Tenants \cup {EmptyTenant}
        /\ req[r].user \in Users
        /\ req[r].pc # "idle"
    BY RunningType DEF IInv, Running
  <1>2. Admissible(req[r].user, req[r].name, req[r].tenant)
    BY DEF IInv, RequestInv
  <1>3. req[r].tenant \in Tenants /\ req[r].tenant # None
    BY <1>1, <1>2, AccountsAssumption DEF Admissible
  <1>4. /\ req' \in [Requests -> ReqStates]
        /\ req'[r].pc = pc
        /\ req'[r].user = req[r].user
        /\ req'[r].name = req[r].name
        /\ req'[r].tenant = req[r].tenant
        /\ \A s \in Requests : s # r => req'[s] = req[s]
    BY <1>1, GotoEffect DEF IInv
  <1>5. /\ roles' \subseteq Tenants
        /\ roles \subseteq roles'
    BY <1>1, <1>3 DEF IInv, TypeOK
  <1>6. TypeOK'
    <2>1. ASSUME NEW s \in Requests, NEW n \in Names
          PROVE  locks'[n] = s <=> req'[s].pc \in {"setup", "commit"}
                                   /\ req'[s].name = n
      <3>1. CASE s = r BY <3>1, <1>4
      <3>2. CASE s # r BY <3>2, <1>4 DEF IInv, TypeOK
      <3> QED BY <3>1, <3>2
    <2> QED BY <1>4, <1>5, <2>1 DEF IInv, TypeOK
  (* A row that the step adds was missing, and is the one of r. *)
  <1>7. \A n \in Names : rows'[n] = rows[n]
           \/ /\ n = req[r].name
              /\ rows[n] = None
              /\ rows'[n] = req[r].tenant
              /\ req[r].pc = "commit"
    BY <1>1 DEF IInv, RequestInv, TypeOK
  <1>8. RequestInv'
    <2>1. ASSUME NEW s \in Requests
          PROVE  /\ req'[s].pc \in Running \cup {"ok"} =>
                       Admissible(req'[s].user, req'[s].name, req'[s].tenant)
                 /\ req'[s].pc \in {"setup", "commit"} =>
                       rows'[req'[s].name] = None
                 /\ req'[s].pc = "commit" => req'[s].tenant \in roles'
                 /\ req'[s].pc = "ok" => rows'[req'[s].name] = req'[s].tenant
      <3>1. CASE s = r
        BY <3>1, <1>2, <1>4
      <3>2. CASE s # r
        <4>1. req'[s] = req[s]
          BY <3>2, <1>4
        <4>2. req[s].pc = "ok" => rows'[req[s].name] = req[s].tenant
          <5> SUFFICES ASSUME req[s].pc = "ok"
                       PROVE  rows'[req[s].name] = req[s].tenant
            OBVIOUS
          <5>1. req[s].name \in Names /\ rows[req[s].name] = req[s].tenant
            BY RunningType DEF IInv, RequestInv
          <5>2. req[s].tenant # None
            BY <5>1, RunningType, AccountsAssumption DEF IInv
          <5> QED BY <5>1, <5>2, <1>7
        <4>3. req[s].pc \in {"setup", "commit"} => rows'[req[s].name] = None
          <5> SUFFICES ASSUME req[s].pc \in {"setup", "commit"}
                       PROVE  rows'[req[s].name] = None
            OBVIOUS
          <5>1. /\ req[s].name \in Names
                /\ rows[req[s].name] = None
                /\ locks[req[s].name] = s
            BY RunningType DEF IInv, RequestInv, TypeOK
          <5>2. req[r].pc = "commit" => locks[req[r].name] = r
            BY <1>1 DEF IInv, TypeOK
          <5> QED BY <3>2, <5>1, <5>2, <1>7
        <4> QED BY <4>1, <4>2, <4>3, <1>5 DEF IInv, RequestInv
      <3> QED BY <3>1, <3>2
    <2> QED BY <2>1 DEF RequestInv, Admissible
  <1>9. RoleBeforeAccount'
    BY <1>5, <1>7 DEF IInv, RequestInv, RoleBeforeAccount
  <1>10. OnlyAdmissibleAccounts'
    BY <1>1, <1>2, <1>7 DEF IInv, OnlyAdmissibleAccounts, Admissible
  <1> QED BY <1>6, <1>8, <1>9, <1>10 DEF IInv

(* Every step preserves the inductive invariant. *)
LEMMA Invariance ==
    ASSUME IInv, [Next]_vars PROVE IInv'
  <1> USE DEF PCs, Running
  <1>1. ASSUME NEW r \in Requests, NEW u \in Users, NEW n \in Names,
               NEW t \in Tenants \cup {EmptyTenant}, PutStart(r, u, n, t)
        PROVE  IInv'
    <2> DEFINE pc == IF Admissible(u, n, t) THEN "find" ELSE "rejected"
               new == [pc |-> pc, user |-> u, name |-> n, tenant |-> t]
    <2>1. /\ req' = [req EXCEPT ![r] = new]
          /\ UNCHANGED <<rows, locks, roles, crashes>>
          /\ req[r].pc \notin {"setup", "commit"}
      BY <1>1 DEF PutStart, Answered
    <2>2. new \in ReqStates /\ new.pc \notin {"setup", "commit", "ok"}
      BY DEF ReqStates
    <2>3. new.pc \in Running => Admissible(new.user, new.name, new.tenant)
      OBVIOUS
    <2> HIDE DEF new
    <2>4. /\ req'[r] = new
          /\ \A s \in Requests : s # r => req'[s] = req[s]
          /\ req' \in [Requests -> ReqStates]
      BY <2>1, <2>2 DEF IInv, TypeOK
    <2>5. TypeOK'
      BY <2>1, <2>2, <2>4 DEF IInv, TypeOK
    <2>6. RequestInv'
      <3>1. ASSUME NEW s \in Requests
            PROVE  /\ req'[s].pc \in Running \cup {"ok"} =>
                        Admissible(req'[s].user, req'[s].name, req'[s].tenant)
                   /\ req'[s].pc \in {"setup", "commit"} =>
                        rows'[req'[s].name] = None
                   /\ req'[s].pc = "commit" => req'[s].tenant \in roles'
                   /\ req'[s].pc = "ok" => rows'[req'[s].name] = req'[s].tenant
        <4>1. CASE s = r BY <4>1, <2>2, <2>3, <2>4
        <4>2. CASE s # r BY <4>2, <2>1, <2>4 DEF IInv, RequestInv
        <4> QED BY <4>1, <4>2
      <3> QED BY <3>1 DEF RequestInv, Admissible
    <2> QED BY <2>1, <2>5, <2>6 DEF IInv, RoleBeforeAccount,
                                    OnlyAdmissibleAccounts
  <1>2. ASSUME NEW r \in Requests, PutFind(r) PROVE IInv'
    <2>1. /\ req[r].pc = "find"
          /\ UNCHANGED <<rows, locks, roles, crashes>>
          /\ \/ Goto(r, "insert")
             \/ rows[req[r].name] = req[r].tenant /\ Goto(r, "ok")
             \/ Goto(r, "conflict")
      BY <1>2 DEF PutFind, FindAccount
    <2>2. /\ locks \in [Names -> Requests \cup {None}]
          /\ rows \in [Names -> Tenants \cup {None}]
          /\ \A n \in Names : locks[n] # r
      BY <2>1 DEF IInv, TypeOK
    <2>3. CASE Goto(r, "insert") BY <2>1, <2>2, <2>3, HandlerStep
    <2>4. CASE rows[req[r].name] = req[r].tenant /\ Goto(r, "ok")
      BY <2>1, <2>2, <2>4, HandlerStep
    <2>5. CASE Goto(r, "conflict") BY <2>1, <2>2, <2>5, HandlerStep
    <2> QED BY <2>1, <2>3, <2>4, <2>5
  <1>3. ASSUME NEW r \in Requests, PutInsert(r) PROVE IInv'
    <2>1. /\ req[r].pc = "insert"
          /\ locks[req[r].name] = None
          /\ UNCHANGED <<rows, roles, crashes>>
      BY <1>3 DEF PutInsert
    <2>2. /\ locks \in [Names -> Requests \cup {None}]
          /\ rows \in [Names -> Tenants \cup {None}]
          /\ \A n \in Names : locks[n] # r
          /\ req[r].name \in Names
      BY <2>1, RunningType DEF IInv, TypeOK
    <2>3. CASE /\ rows[req[r].name] = None
               /\ locks' = [locks EXCEPT ![req[r].name] = r]
               /\ Goto(r, "setup")
      <3>1. \A n \in Names, s \in Requests :
               locks'[n] = s <=> IF s = r THEN n = req[r].name
                                 ELSE locks[n] = s
        BY <2>1, <2>2, <2>3, AccountsAssumption
      <3>2. locks' \in [Names -> Requests \cup {None}]
        BY <2>2, <2>3
      <3>3. rows[req[r].name] = None /\ Goto(r, "setup")
        BY <2>3
      <3> QED BY <2>1, <2>2, <3>1, <3>2, <3>3, HandlerStep
    <2>4. CASE Goto(r, "error") /\ UNCHANGED locks
      BY <2>1, <2>2, <2>4, HandlerStep
    <2> QED BY <1>3, <2>3, <2>4 DEF PutInsert
  <1>4. ASSUME NEW r \in Requests, PutSetup(r) PROVE IInv'
    <2>1. /\ req[r].pc = "setup"
          /\ roles' = roles \cup {req[r].tenant}
          /\ Goto(r, "commit")
          /\ UNCHANGED <<rows, locks, crashes>>
      BY <1>4 DEF PutSetup
    <2>2. /\ locks \in [Names -> Requests \cup {None}]
          /\ rows \in [Names -> Tenants \cup {None}]
          /\ \A n \in Names : locks[n] = r <=> n = req[r].name
          /\ rows[req[r].name] = None
      BY <2>1 DEF IInv, TypeOK, RequestInv
    <2> QED BY <2>1, <2>2, HandlerStep
  <1>5. ASSUME NEW r \in Requests, PutCommit(r) PROVE IInv'
    <2>1. /\ req[r].pc = "commit"
          /\ rows' = [rows EXCEPT ![req[r].name] = req[r].tenant]
          /\ locks' = [locks EXCEPT ![req[r].name] = None]
          /\ Goto(r, "ok")
          /\ UNCHANGED <<roles, crashes>>
      BY <1>5 DEF PutCommit
    <2>2. /\ locks \in [Names -> Requests \cup {None}]
          /\ rows \in [Names -> Tenants \cup {None}]
          /\ \A n \in Names : locks[n] = r <=> n = req[r].name
          /\ req[r].name \in Names
      BY <2>1, RunningType DEF IInv, TypeOK
    <2>3. req[r].tenant \in Tenants
      BY <2>1, RunningType DEF IInv, RequestInv, Admissible
    <2>4. /\ locks' \in [Names -> Requests \cup {None}]
          /\ \A n \in Names, s \in Requests :
               locks'[n] = s <=> IF s = r THEN FALSE ELSE locks[n] = s
      BY <2>1, <2>2, AccountsAssumption
    <2>5. /\ rows' \in [Names -> Tenants \cup {None}]
          /\ \A n \in Names :
               rows'[n] = IF n = req[r].name THEN req[r].tenant ELSE rows[n]
      BY <2>1, <2>2, <2>3
    <2>6. req[r].pc = "commit" /\ Goto(r, "ok") /\ UNCHANGED <<roles, crashes>>
      BY <2>1
    <2> QED BY <2>2, <2>4, <2>5, <2>6, HandlerStep
  <1>6. ASSUME NEW r \in Requests, PutFails(r) PROVE IInv'
    <2>1. /\ Goto(r, "error")
          /\ Rollback(r)
          /\ UNCHANGED crashes
          /\ \/ rows' = rows /\ roles' = roles
             \/ roles' = roles \cup {req[r].tenant} /\ rows' = rows
             \/ /\ req[r].pc = "commit"
                /\ rows' = [rows EXCEPT ![req[r].name] = req[r].tenant]
                /\ roles' = roles
      BY <1>6 DEF PutFails
    <2>2. req[r].pc \in Running
      BY <1>6 DEF PutFails, Answered, IInv, TypeOK, ReqStates, Idle
    <2>3. /\ locks' \in [Names -> Requests \cup {None}]
          /\ \A n \in Names, s \in Requests :
               locks'[n] = s <=> IF s = r THEN FALSE ELSE locks[n] = s
      BY <2>1, RollbackEffect DEF IInv
    <2>4. req[r].name \in Names /\ req[r].tenant \in Tenants
      BY <2>2, RunningType DEF IInv, RequestInv, Admissible
    <2>5. /\ rows' \in [Names -> Tenants \cup {None}]
          /\ \A n \in Names : \/ rows'[n] = rows[n]
                             \/ /\ req[r].pc = "commit"
                                /\ n = req[r].name
                                /\ rows'[n] = req[r].tenant
      BY <2>1, <2>4 DEF IInv, TypeOK
    <2>6. roles' = roles \/ roles' = roles \cup {req[r].tenant}
      BY <2>1
    <2>7. Goto(r, "error") /\ UNCHANGED crashes
      BY <2>1
    <2> QED BY <2>2, <2>3, <2>5, <2>6, <2>7, HandlerStep
  <1>7. CASE Crash
    <2>1. /\ req' = [r \in Requests |-> IF Answered(r) THEN req[r] ELSE Idle]
          /\ locks' = [n \in Names |-> None]
          /\ UNCHANGED <<rows, roles>>
          /\ crashes' = crashes + 1
      BY <1>7 DEF Crash
    <2>2. \A r \in Requests :
             \/ req'[r] = req[r] /\ Answered(r)
             \/ req'[r] = Idle
      BY <2>1
    <2>3. \A r \in Requests : req'[r].pc \notin Running
      BY <2>2 DEF Answered, Idle
    <2>4. TypeOK'
      <3>1. req' \in [Requests -> ReqStates]
        BY <2>1 DEF IInv, TypeOK, ReqStates
      <3>2. \A n \in Names, r \in Requests : locks'[n] # r
        BY <2>1, AccountsAssumption
      <3>3. crashes' \in Nat
        BY <2>1 DEF IInv, TypeOK
      <3> QED BY <2>1, <2>3, <3>1, <3>2, <3>3 DEF IInv, TypeOK
    <2>5. RequestInv'
      <3>1. \A r \in Requests : req'[r].pc = "ok" => req'[r] = req[r]
        BY <2>2 DEF Idle
      <3> QED BY <2>1, <2>3, <3>1 DEF IInv, RequestInv, Admissible
    <2> QED BY <2>1, <2>4, <2>5 DEF IInv, RoleBeforeAccount,
                                    OnlyAdmissibleAccounts
  <1>8. CASE UNCHANGED vars
    BY <1>8 DEF vars, IInv, TypeOK, RequestInv, Admissible, Answered,
                RoleBeforeAccount, OnlyAdmissibleAccounts
  <1> QED BY <1>1, <1>2, <1>3, <1>4, <1>5, <1>6, <1>7, <1>8 DEF Next, Put

(* The inductive invariant holds in every state of the accounts API. *)
THEOREM IInvCorrect == Spec => []IInv
  <1>1. Init => IInv
    <2> SUFFICES ASSUME Init PROVE IInv
      OBVIOUS
    <2>1. \A r \in Requests : req[r] = Idle /\ req[r].pc = "idle"
      BY DEF Init, Idle
    <2> QED BY <2>1, AccountsAssumption
            DEF Init, IInv, TypeOK, ReqStates, Running, RequestInv,
                RoleBeforeAccount, OnlyAdmissibleAccounts
  <1> QED BY <1>1, Invariance, PTL DEF Spec

(* Type correctness of the accounts API; an uncommitted row always belongs  *)
(* to the handler that inserted it, and to no handler that has returned.    *)
THEOREM TypeCorrect == Spec => []TypeOK
  <1>1. IInv => TypeOK
    BY DEF IInv
  <1> QED BY <1>1, IInvCorrect, PTL

(* handlePutAccount never makes an account visible before SetupAccount has  *)
(* assigned the role in its tenant, whatever fails or is repeated.          *)
THEOREM RoleFirst == Spec => []RoleBeforeAccount
  <1>1. IInv => RoleBeforeAccount
    BY DEF IInv
  <1> QED BY <1>1, IInvCorrect, PTL

(* No sequence of concurrent requests creates an account with a reserved    *)
(* name, or in a tenant where nobody may create one.                        *)
THEOREM OnlyAdmissible == Spec => []OnlyAdmissibleAccounts
  <1>1. IInv => OnlyAdmissibleAccounts
    BY DEF IInv
  <1> QED BY <1>1, IInvCorrect, PTL

(* Whoever was answered 200 sees the account with GET, for its own tenant,  *)
(* however many others wanted the same name.                                *)
THEOREM SuccessVisible == Spec => []SuccessIsVisible
  <1>1. IInv => SuccessIsVisible
    <2> SUFFICES ASSUME IInv, NEW r \in Requests, req[r].pc = "ok"
                 PROVE  /\ GetAccount(req[r].user, req[r].name) = req[r].tenant
                        /\ req[r].name \in GetAccounts(req[r].user)
      BY DEF SuccessIsVisible
    <2>1. /\ rows[req[r].name] = req[r].tenant
          /\ Admissible(req[r].user, req[r].name, req[r].tenant)
      BY DEF IInv, RequestInv
    <2>2. req[r].tenant # None /\ req[r].name \in Names
      BY RunningType, AccountsAssumption DEF IInv
    <2> QED BY <2>1, <2>2, AccountsAssumption
            DEF GetAccount, GetAccounts, FindAccount, Admissible
  <1> QED BY <1>1, IInvCorrect, PTL

(* No step gives an account to another tenant or removes it: an INSERT is   *)
(* only committed where FindAccount's answer "no such account" still holds. *)
THEOREM TenantKept == Spec => TenantImmutable
  <1>1. IInv /\ [Next]_vars =>
          [\A n \in Names : rows[n] # None => rows'[n] = rows[n]]_vars
    <2> SUFFICES ASSUME IInv, [Next]_vars, NEW n \in Names, rows[n] # None
                 PROVE  rows'[n] = rows[n]
      OBVIOUS
    <2>1. ASSUME NEW r \in Requests, req[r].pc = "commit",
                 rows' = [rows EXCEPT ![req[r].name] = req[r].tenant]
          PROVE  rows'[n] = rows[n]
      <3>1. rows[req[r].name] = None
        BY <2>1 DEF IInv, RequestInv
      <3> QED BY <2>1, <3>1
    <2>2. CASE rows' = rows
      BY <2>2
    <2> QED BY <2>1, <2>2
            DEF Next, Put, PutStart, PutFind, PutInsert, PutSetup, PutCommit,
                PutFails, Crash, vars
  <1> QED BY <1>1, IInvCorrect, PTL DEF Spec, TenantImmutable
=============================================================================

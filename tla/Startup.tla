------------------------------- MODULE Startup ------------------------------
(***************************************************************************)
(* How a keppel-registry starts (NewDriver of the swift-plus driver): its  *)
(* parameters, the Swift container and its key for temporary URLs, the     *)
(* PostgreSQL database and the schema in it.  All registries of one        *)
(* account share these, and each of them sets up on its first start what   *)
(* it does not find.  A start that fails, or dies, at any point is         *)
(* repeated by keppel-api; with several keppel-apis, or one that was       *)
(* killed and left its children behind, two starts can overlap.            *)
(***************************************************************************)
EXTENDS Integers

CONSTANTS
    Starters,       \* keppel-registry processes of one account
    Nobody,         \* holder of a lock that is free
    Environments,   \* parameters the registries may be given: records of
                    \* given (names with a value), secretkey, chunksize
    MinChunkSize,   \* minChunkSize
    TempURLEnabled, \* Swift offers temporary URLs
    OperatorKey,    \* a key that an operator has set on the container
    MaxKeys,        \* bound: keys ever generated
    MaxFailures     \* bound: starts that fail for no reason modelled here

NoKey == 0
Key   == 0..MaxKeys \cup {OperatorKey}

ASSUME StartupAssumption ==
    /\ Nobody \notin Starters
    /\ OperatorKey \notin 0..MaxKeys
    /\ MaxKeys \in Nat /\ MaxFailures \in Nat /\ MinChunkSize \in Nat
    /\ TempURLEnabled \in BOOLEAN
    /\ \A e \in Environments : e.secretkey \in {NoKey, OperatorKey}

VARIABLES
    params,       \* the parameters, from the environment of keppel-api
    pc,           \* per registry: the statement or request it makes next
    tempURLKey,   \* per registry: swiftInterface.TempURLKey
    key1, key2,   \* X-Container-Meta-Temp-Url-Key and -Key-2
    database,     \* the account's database exists
    versionTable, \* schema_migrations exists
    version,      \* its row, version -1 if there is none
    tables,       \* files and segments exist
    lock,         \* holder of the advisory lock
    nextKey,      \* keys generated so far
    failures,     \* failures so far
    overlapped    \* ghost: two registries have been starting at a time

swiftVars == <<tempURLKey, key1, key2, nextKey>>
dbVars    == <<database, versionTable, version, tables, lock>>
vars == <<params, pc, tempURLKey, key1, key2, database, versionTable, version,
          tables, lock, nextKey, failures, overlapped>>

NilVersion == [number |-> -1, dirty |-> FALSE]
Dirty      == [number |-> 1, dirty |-> TRUE]
Clean      == [number |-> 1, dirty |-> FALSE]

Init ==
    /\ params \in Environments
    /\ pc = [s \in Starters |-> "down"]
    /\ tempURLKey = [s \in Starters |-> NoKey]
    /\ key1 = NoKey
    /\ key2 \in {NoKey, OperatorKey}
    /\ database = FALSE
    /\ versionTable = FALSE
    /\ version = NilVersion
    /\ tables = FALSE
    /\ lock = Nobody
    /\ nextKey = 0
    /\ failures = 0
    /\ overlapped = FALSE

Migrating == {"version", "dirty", "migrate", "clean", "unlock"}
Starting(s) == pc[s] \notin {"down", "serving"}

Goto(s, label) == pc' = [pc EXCEPT ![s] = label]
(* The process ends, and with it its database session. *)
Release(s) == IF lock = s THEN Nobody ELSE lock

-----------------------------------------------------------------------------
(* keppel-api starts a registry (startRegistry). *)
Launch(s) ==
    /\ pc[s] = "down"
    /\ Goto(s, "parameters")
    /\ overlapped' = (overlapped \/ \E t \in Starters : Starting(t))
    /\ UNCHANGED <<params, swiftVars, dbVars, failures>>

Required == {"postgresuri", "username", "password", "authurl", "container"}
parseParametersOK ==
    Required \subseteq params.given /\ params.chunksize >= MinChunkSize

parseParameters(s) ==
    /\ pc[s] = "parameters"
    /\ Goto(s, IF parseParametersOK THEN "headers" ELSE "down")
    /\ UNCHANGED <<params, swiftVars, dbVars, failures, overlapped>>

(* Deliberately wrong: a key is generated on every start. *)
ReadHeaders_AlwaysGenerate(s) ==
    /\ pc[s] = "headers"
    /\ nextKey < MaxKeys
    /\ nextKey' = nextKey + 1
    /\ tempURLKey' = [tempURLKey EXCEPT ![s] = nextKey + 1]
    /\ Goto(s, "update")
    /\ UNCHANGED <<params, key1, key2, dbVars, failures, overlapped>>

(* newSwiftInterface, after authentication and EnsureExists (which succeeds *)
(* for a container that is there already): find a key, or generate one.     *)
ReadHeaders(s) ==
    /\ pc[s] = "headers"
    /\ LET Use(k) == /\ tempURLKey' = [tempURLKey EXCEPT ![s] = k]
                     /\ nextKey' = nextKey
                     /\ Goto(s, "select")
       IN  CASE ~TempURLEnabled \/ params.secretkey # NoKey ->
                  Use(params.secretkey)
             [] OTHER ->
                  CASE key1 # NoKey -> Use(key1)
                    [] key1 = NoKey /\ key2 # NoKey -> Use(key2)
                    [] OTHER -> /\ nextKey < MaxKeys
                                /\ nextKey' = nextKey + 1
                                /\ tempURLKey' = [tempURLKey EXCEPT ![s] =
                                                    nextKey + 1]
                                /\ Goto(s, "update")
    /\ UNCHANGED <<params, key1, key2, dbVars, failures, overlapped>>

UpdateHeaders(s) ==
    /\ pc[s] = "update"
    /\ key1' = tempURLKey[s]
    /\ Goto(s, "select")
    /\ UNCHANGED <<params, tempURLKey, key2, nextKey, dbVars, failures,
                   overlapped>>

(* connectToPostgres: SELECT 1, and CREATE DATABASE if that finds none.     *)
(* The loser of two CREATEs gets an error.                                  *)
Select1(s) ==
    /\ pc[s] = "select"
    /\ Goto(s, IF database THEN "checktable" ELSE "createdatabase")
    /\ UNCHANGED <<params, swiftVars, dbVars, failures, overlapped>>

CreateDatabase(s) ==
    /\ pc[s] = "createdatabase"
    /\ database' = TRUE
    /\ Goto(s, IF database THEN "down" ELSE "checktable")
    /\ UNCHANGED <<params, swiftVars, versionTable, version, tables, lock,
                   failures, overlapped>>

-----------------------------------------------------------------------------
(* initializeSchema, with the library mattes/migrate. *)

(* Deliberately wrong: the table is created without a check. *)
CheckVersionTable_NoCheck(s) ==
    /\ pc[s] = "checktable"
    /\ Goto(s, "createtable")
    /\ UNCHANGED <<params, swiftVars, dbVars, failures, overlapped>>

(* postgres.WithInstance: ensureVersionTable. *)
CheckVersionTable(s) ==
    /\ pc[s] = "checktable"
    /\ Goto(s, IF versionTable THEN "lock" ELSE "createtable")
    /\ UNCHANGED <<params, swiftVars, dbVars, failures, overlapped>>

CreateVersionTable(s) ==
    /\ pc[s] = "createtable"
    /\ versionTable' = TRUE
    /\ Goto(s, IF versionTable THEN "down" ELSE "lock")
    /\ UNCHANGED <<params, swiftVars, database, version, tables, lock,
                   failures, overlapped>>

(* Up: pg_try_advisory_lock does not wait; a held lock is an error. *)
TryLock(s) ==
    /\ pc[s] = "lock"
    /\ lock' = IF lock = Nobody THEN s ELSE lock
    /\ Goto(s, IF lock = Nobody THEN "version" ELSE "down")
    /\ UNCHANGED <<params, swiftVars, database, versionTable, version, tables,
                   failures, overlapped>>

(* Deliberately wrong: the dirty flag is not looked at. *)
ReadVersion_AnyState(s) ==
    /\ pc[s] = "version"
    /\ Goto(s, IF version.number = 1 THEN "unlock" ELSE "dirty")
    /\ UNCHANGED <<params, swiftVars, dbVars, failures, overlapped>>

(* ErrDirty ends the start; with nothing to do (ErrNoChange) it goes on. *)
ReadVersion(s) ==
    /\ pc[s] = "version"
    /\ Goto(s, IF version.dirty THEN "down"
               ELSE IF version = Clean THEN "unlock" ELSE "dirty")
    /\ lock' = IF version.dirty THEN Release(s) ELSE lock
    /\ UNCHANGED <<params, swiftVars, database, versionTable, version, tables,
                   failures, overlapped>>

SetDirty(s) ==
    /\ pc[s] = "dirty"
    /\ version' = Dirty
    /\ Goto(s, "migrate")
    /\ UNCHANGED <<params, swiftVars, database, versionTable, tables, lock,
                   failures, overlapped>>

(* 001_initial.up.sql, one transaction: it fails if the tables exist. *)
RunMigration(s) ==
    /\ pc[s] = "migrate"
    /\ tables' = TRUE
    /\ Goto(s, IF tables THEN "down" ELSE "clean")
    /\ lock' = IF tables THEN Release(s) ELSE lock
    /\ UNCHANGED <<params, swiftVars, database, versionTable, version,
                   failures, overlapped>>

SetClean(s) ==
    /\ pc[s] = "clean"
    /\ version' = Clean
    /\ Goto(s, "unlock")
    /\ UNCHANGED <<params, swiftVars, database, versionTable, tables, lock,
                   failures, overlapped>>

Unlock(s) ==
    /\ pc[s] = "unlock"
    /\ lock' = Release(s)
    /\ Goto(s, "serving")
    /\ UNCHANGED <<params, swiftVars, database, versionTable, version, tables,
                   failures, overlapped>>

-----------------------------------------------------------------------------
(* Deliberately wrong: the lock survives its session. *)
Fails_KeepsLock(s) ==
    /\ Starting(s)
    /\ failures < MaxFailures
    /\ failures' = failures + 1
    /\ Goto(s, "down")
    /\ UNCHANGED <<params, swiftVars, dbVars, overlapped>>

(* A statement or request fails, or the process is killed before it makes   *)
(* it.  (One whose answer is lost has been made, and the next one fails.)   *)
Fails(s) ==
    /\ Starting(s)
    /\ failures < MaxFailures
    /\ failures' = failures + 1
    /\ Goto(s, "down")
    /\ lock' = Release(s)
    /\ UNCHANGED <<params, swiftVars, database, versionTable, version, tables,
                   overlapped>>

(* A registry that serves is stopped, or crashes. *)
Exits(s) ==
    /\ pc[s] = "serving"
    /\ Goto(s, "down")
    /\ UNCHANGED <<params, swiftVars, dbVars, failures, overlapped>>

StartStep(s) ==
    \/ Launch(s) \/ parseParameters(s)
    \/ ReadHeaders(s) \/ UpdateHeaders(s)
    \/ Select1(s) \/ CreateDatabase(s)
    \/ CheckVersionTable(s) \/ CreateVersionTable(s)
    \/ TryLock(s) \/ ReadVersion(s)
    \/ SetDirty(s) \/ RunMigration(s) \/ SetClean(s) \/ Unlock(s)

Next == \E s \in Starters : StartStep(s) \/ Fails(s) \/ Exits(s)

(* keppel-api starts a registry that is down, at its next poll or request;  *)
(* a process that can go on does.  Nothing makes a start fail.              *)
Spec == Init /\ [][Next]_vars /\ \A s \in Starters : WF_vars(StartStep(s))

-----------------------------------------------------------------------------
(* Properties. *)

(* The type invariant; the lock is held by a registry that is migrating.    *)
TypeOK ==
    /\ params \in Environments
    /\ pc \in [Starters -> {"down", "parameters", "headers", "update",
                            "select", "createdatabase", "checktable",
                            "createtable", "lock", "serving"} \cup Migrating]
    /\ tempURLKey \in [Starters -> Key]
    /\ key1 \in Key /\ key2 \in Key
    /\ version \in {NilVersion, Dirty, Clean}
    /\ \A s \in Starters : lock = s <=> pc[s] \in Migrating
    /\ lock \in Starters \cup {Nobody}
    /\ nextKey \in 0..MaxKeys /\ failures \in 0..MaxFailures

(* A registry serves requests only on a complete schema, and no other start *)
(* that races with it, fails or dies can spoil the schema: not the one that *)
(* lost the race to create the database, the version table or the lock.     *)
ServingHasSchema ==
    \A s \in Starters :
        pc[s] = "serving" => database /\ versionTable /\ tables
                             /\ version = Clean

(* As long as no two starts overlap (which the orchestration driver         *)
(* ensures, see OneRegistryPerAccount), a registry that serves signs        *)
(* temporary URLs with a key that Swift accepts, also when it is the second *)
(* one and whatever failed before.  Overlapping first starts both find no   *)
(* key, and the one that is overtaken keeps a key that Swift refuses.       *)
KeyIsAccepted ==
    ~overlapped /\ TempURLEnabled /\ params.secretkey = NoKey =>
        \A s \in Starters :
            pc[s] = "serving" => tempURLKey[s] \in {key1, key2} \ {NoKey}

(* A start died between its two SetVersion statements. *)
Wedged == version = Dirty /\ lock = Nobody

(* With sensible parameters some start succeeds, however many failed before *)
(* and wherever they died, unless one died in the middle of the migration.  *)
SomeStartSucceeds ==
    parseParametersOK ~> Wedged \/ \E s \in Starters : pc[s] = "serving"

(* src/pkg/drivers/local_processes/orchestration.go:104-107 says that       *)
(* abnormal termination of a keppel-registry is not a fatal error, as the   *)
(* next request will launch a new one: so a launch succeeds in the end.     *)
TerminationIsNotFatal ==
    parseParametersOK ~> \E s \in Starters : pc[s] = "serving"
=============================================================================

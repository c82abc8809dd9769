--------------------------- MODULE Startup_proofs ---------------------------
(***************************************************************************)
(* Proofs about the start of keppel-registries, for any number of them,    *)
(* any parameters and any number of failures.                              *)
(***************************************************************************)
EXTENDS Startup, TLAPS

Labels == {"down", "parameters", "headers", "update", "select",
           "createdatabase", "checktable", "createtable", "lock", "serving",
           "version", "dirty", "migrate", "clean", "unlock"}

(* The three states of the version table can be told apart. *)
LEMMA Versions ==
    /\ NilVersion # Dirty /\ NilVersion # Clean /\ Dirty # Clean
    /\ ~NilVersion.dirty /\ Dirty.dirty /\ ~Clean.dirty
  BY DEF NilVersion, Dirty, Clean

(* The parameters of a start are those of keppel-api and never change. *)
LEMMA ParamsConstant ==
    ASSUME [Next]_vars PROVE params' = params
  BY DEF Next, StartStep, Launch, parseParameters, ReadHeaders, UpdateHeaders,
     Select1, CreateDatabase, CheckVersionTable, CreateVersionTable, TryLock,
     ReadVersion, SetDirty, RunMigration, SetClean, Unlock, Fails, Exits, vars

(* What a start leaves in the registries' labels and the lock: the lock is  *)
(* held by exactly the registry that is migrating.                          *)
LockInv ==
    /\ pc \in [Starters -> Labels]
    /\ lock \in Starters \cup {Nobody}
    /\ \A s \in Starters : lock = s <=> pc[s] \in Migrating

LEMMA LockInvariance ==
    ASSUME LockInv, [Next]_vars PROVE LockInv'
  <1> USE StartupAssumption DEF LockInv, Labels, Migrating, Goto, Release
  <1>1. ASSUME NEW s \in Starters,
               \/ Launch(s) \/ parseParameters(s)
               \/ UpdateHeaders(s) \/ Select1(s) \/ CreateDatabase(s)
               \/ CheckVersionTable(s) \/ CreateVersionTable(s)
               \/ SetDirty(s) \/ SetClean(s) \/ Exits(s)
        PROVE  LockInv'
    BY <1>1 DEF Launch, parseParameters, UpdateHeaders, Select1,
       CreateDatabase, CheckVersionTable, CreateVersionTable, SetDirty,
       SetClean, Exits, dbVars
  <1>2. ASSUME NEW s \in Starters, ReadHeaders(s) PROVE LockInv'
    <2>1. lock' = lock /\ pc[s] = "headers"
      BY <1>2 DEF ReadHeaders, dbVars
    <2>2. pc' = [pc EXCEPT ![s] = "select"] \/ pc' = [pc EXCEPT ![s] = "update"]
      BY <1>2 DEF ReadHeaders
    <2> QED BY <2>1, <2>2
  <1>3. ASSUME NEW s \in Starters,
               TryLock(s) \/ ReadVersion(s) \/ RunMigration(s) \/ Unlock(s)
        PROVE  LockInv'
    BY <1>3 DEF TryLock, ReadVersion, RunMigration, Unlock
  <1>4. ASSUME NEW s \in Starters, Fails(s) PROVE LockInv'
    BY <1>4 DEF Fails
  <1>5. CASE UNCHANGED vars
    BY <1>5 DEF vars
  <1> QED BY <1>1, <1>2, <1>3, <1>4, <1>5 DEF Next, StartStep

(* The type invariant holds, and with it that the lock belongs to the       *)
(* registry that is migrating.                                              *)
KeyTypes ==
    /\ params \in Environments
    /\ tempURLKey \in [Starters -> Key]
    /\ key1 \in Key /\ key2 \in Key
    /\ nextKey \in 0..MaxKeys /\ failures \in 0..MaxFailures
    /\ version \in {NilVersion, Dirty, Clean}

LEMMA KeyTypesInvariance ==
    ASSUME KeyTypes, [Next]_vars PROVE KeyTypes'
  <1> USE StartupAssumption DEF KeyTypes
  <1>0. params' = params
    BY ParamsConstant
  <1>1. ASSUME NEW s \in Starters, ReadHeaders(s) PROVE KeyTypes'
    <2>1. UNCHANGED <<key1, key2, failures, version>>
      BY <1>1 DEF ReadHeaders, dbVars
    <2>2. params.secretkey \in Key
      BY DEF Key, NoKey
    <2>3. CASE \E k \in Key : /\ tempURLKey' = [tempURLKey EXCEPT ![s] = k]
                              /\ nextKey' = nextKey
      BY <1>0, <2>1, <2>3
    <2>4. CASE /\ nextKey < MaxKeys
               /\ nextKey' = nextKey + 1
               /\ tempURLKey' = [tempURLKey EXCEPT ![s] = nextKey + 1]
      BY <1>0, <2>1, <2>4 DEF Key
    <2> QED BY <1>1, <2>2, <2>3, <2>4 DEF ReadHeaders
  <1>2. ASSUME NEW s \in Starters, UpdateHeaders(s) PROVE KeyTypes'
    BY <1>0, <1>2 DEF UpdateHeaders, dbVars
  <1>3. ASSUME NEW s \in Starters, Fails(s) PROVE KeyTypes'
    BY <1>0, <1>3 DEF Fails, swiftVars
  <1>4. ASSUME NEW s \in Starters,
               \/ Launch(s) \/ parseParameters(s)
               \/ Select1(s) \/ CreateDatabase(s)
               \/ CheckVersionTable(s) \/ CreateVersionTable(s)
               \/ TryLock(s) \/ ReadVersion(s) \/ SetDirty(s)
               \/ RunMigration(s) \/ SetClean(s) \/ Unlock(s) \/ Exits(s)
        PROVE  KeyTypes'
    BY <1>0, <1>4 DEF Launch, parseParameters, Select1, CreateDatabase,
       CheckVersionTable, CreateVersionTable, TryLock, ReadVersion, SetDirty,
       RunMigration, SetClean, Unlock, Exits, swiftVars, dbVars
  <1>5. CASE UNCHANGED vars
    BY <1>5 DEF vars
  <1> QED BY <1>1, <1>2, <1>3, <1>4, <1>5 DEF Next, StartStep

(* Every start keeps the state typed, and the lock with the migrating one.  *)
THEOREM TypeCorrect == Spec => []TypeOK
  <1>1. Init => LockInv /\ KeyTypes
    BY StartupAssumption DEF Init, LockInv, KeyTypes, Labels, Migrating, Key,
       NoKey
  <1>2. LockInv /\ KeyTypes => TypeOK
    BY DEF LockInv, KeyTypes, TypeOK, Labels, Migrating
  <1> QED BY <1>1, <1>2, LockInvariance, KeyTypesInvariance, PTL DEF Spec

-----------------------------------------------------------------------------
(* What each point of a start knows of the database. *)
SchemaInv ==
    /\ versionTable => database
    /\ version # NilVersion => versionTable
    /\ tables => version # NilVersion
    /\ version = Clean => tables
    /\ \A s \in Starters :
         /\ pc[s] \in {"checktable", "createtable"} => database
         /\ pc[s] \in {"lock"} \cup Migrating => versionTable
         /\ pc[s] = "dirty" => version = NilVersion
         /\ pc[s] = "migrate" => version = Dirty /\ ~tables
         /\ pc[s] = "clean" => version = Dirty /\ tables
         /\ pc[s] \in {"unlock", "serving"} => version = Clean

(* A step that moves one registry and leaves the database alone. *)
LEMMA SchemaStep ==
    ASSUME SchemaInv, LockInv, NEW s \in Starters, NEW label,
           pc' = [pc EXCEPT ![s] = label],
           UNCHANGED <<database, versionTable, version, tables>>,
           label \in {"checktable", "createtable"} => database,
           label \in {"lock"} \cup Migrating => versionTable,
           label = "dirty" => version = NilVersion,
           label \notin {"migrate", "clean"},
           label \in {"unlock", "serving"} => version = Clean
    PROVE  SchemaInv'
  BY DEF SchemaInv, LockInv

LEMMA SchemaInvariance ==
    ASSUME SchemaInv, LockInv, version \in {NilVersion, Dirty, Clean},
           [Next]_vars
    PROVE  SchemaInv'
  <1> USE DEF Goto
  <1>1. ASSUME NEW s \in Starters,
               \/ Launch(s) \/ parseParameters(s) \/ UpdateHeaders(s)
               \/ Fails(s) \/ Exits(s)
        PROVE  SchemaInv'
    <2>1. UNCHANGED <<database, versionTable, version, tables>>
      BY <1>1 DEF Launch, parseParameters, UpdateHeaders, Fails, Exits, dbVars
    <2>2. \E l \in {"parameters", "headers", "down", "select"} :
             pc' = [pc EXCEPT ![s] = l]
      BY <1>1 DEF Launch, parseParameters, UpdateHeaders, Fails, Exits
    <2> QED BY <2>1, <2>2, SchemaStep DEF Migrating
  <1>2. ASSUME NEW s \in Starters, ReadHeaders(s) PROVE SchemaInv'
    <2>1. UNCHANGED <<database, versionTable, version, tables>>
      BY <1>2 DEF ReadHeaders, dbVars
    <2>2. \E l \in {"select", "update"} : pc' = [pc EXCEPT ![s] = l]
      BY <1>2 DEF ReadHeaders
    <2> QED BY <2>1, <2>2, SchemaStep DEF Migrating
  <1>3. ASSUME NEW s \in Starters, Select1(s) \/ CheckVersionTable(s)
        PROVE  SchemaInv'
    BY <1>3, SchemaStep DEF Select1, CheckVersionTable, dbVars, SchemaInv,
       LockInv, Migrating
  <1>4. ASSUME NEW s \in Starters, CreateDatabase(s) PROVE SchemaInv'
    BY <1>4 DEF CreateDatabase, SchemaInv, LockInv, Migrating
  <1>5. ASSUME NEW s \in Starters, CreateVersionTable(s) PROVE SchemaInv'
    BY <1>5 DEF CreateVersionTable, SchemaInv, LockInv, Migrating
  <1>6. ASSUME NEW s \in Starters, TryLock(s) PROVE SchemaInv'
    BY <1>6 DEF TryLock, SchemaInv, LockInv, Migrating
  <1>7. ASSUME NEW s \in Starters, ReadVersion(s) PROVE SchemaInv'
    BY <1>7, Versions DEF ReadVersion, SchemaInv, LockInv, Migrating
  <1>8. ASSUME NEW s \in Starters, SetDirty(s) PROVE SchemaInv'
    <2>1. pc[s] \in Migrating /\ lock = s
      BY <1>8 DEF SetDirty, LockInv, Migrating
    <2>2. \A t \in Starters \ {s} : pc[t] \notin Migrating
      BY <2>1 DEF LockInv
    <2> QED
      BY <1>8, <2>1, <2>2, Versions DEF SetDirty, SchemaInv, LockInv, Migrating
  <1>9. ASSUME NEW s \in Starters, RunMigration(s) PROVE SchemaInv'
    <2>1. \A t \in Starters \ {s} : pc[t] \notin Migrating
      BY <1>9 DEF RunMigration, LockInv, Migrating
    <2> QED
      BY <1>9, <2>1, Versions DEF RunMigration, SchemaInv, LockInv, Migrating
  <1>10. ASSUME NEW s \in Starters, SetClean(s) PROVE SchemaInv'
    <2>1. \A t \in Starters \ {s} : pc[t] \notin Migrating
      BY <1>10 DEF SetClean, LockInv, Migrating
    <2> QED
      BY <1>10, <2>1, Versions DEF SetClean, SchemaInv, LockInv, Migrating
  <1>11. ASSUME NEW s \in Starters, Unlock(s) PROVE SchemaInv'
    BY <1>11 DEF Unlock, SchemaInv, LockInv, Migrating
  <1>12. CASE UNCHANGED vars
    BY <1>12 DEF vars, SchemaInv
  <1> QED
    BY <1>1, <1>2, <1>3, <1>4, <1>5, <1>6, <1>7, <1>8, <1>9, <1>10, <1>11,
       <1>12 DEF Next, StartStep

(* However many starts race, fail or die, a registry that serves has its    *)
(* complete schema (connectToPostgres and initializeSchema).                *)
THEOREM SchemaComplete == Spec => []ServingHasSchema
  <1>1. Init => LockInv /\ KeyTypes /\ SchemaInv
    BY StartupAssumption, Versions DEF Init, LockInv, KeyTypes, SchemaInv,
       Labels, Migrating, Key, NoKey
  <1>2. KeyTypes => version \in {NilVersion, Dirty, Clean}
    BY DEF KeyTypes
  <1>3. SchemaInv => ServingHasSchema
    BY Versions DEF SchemaInv, ServingHasSchema
  <1> QED
    BY <1>1, <1>2, <1>3, LockInvariance, KeyTypesInvariance, SchemaInvariance,
       PTL DEF Spec

-----------------------------------------------------------------------------
(* What each point of a start knows of the key, if no two starts overlap.   *)
FindsKey == TempURLEnabled /\ params.secretkey = NoKey

KeyInv ==
    FindsKey /\ ~overlapped =>
        /\ \A s, t \in Starters : Starting(s) /\ Starting(t) => s = t
        /\ \A s \in Starters :
             /\ pc[s] = "update" => /\ key1 = NoKey /\ key2 = NoKey
                                   /\ tempURLKey[s] # NoKey
             /\ pc[s] \notin {"down", "parameters", "headers", "update"} =>
                  tempURLKey[s] \in {key1, key2} \ {NoKey}

LEMMA KeyInvariance ==
    ASSUME KeyInv, LockInv, KeyTypes, [Next]_vars PROVE KeyInv'
  <1> USE DEF Goto
  <1>0. params' = params
    BY ParamsConstant
  <1>1. ASSUME NEW s \in Starters, Launch(s) PROVE KeyInv'
    BY <1>0, <1>1 DEF Launch, KeyInv, FindsKey, LockInv, Labels, Starting,
       swiftVars
  <1>2. ASSUME NEW s \in Starters, ReadHeaders(s) PROVE KeyInv'
    <2> SUFFICES ASSUME FindsKey, ~overlapped PROVE KeyInv'
      BY <1>0, <1>2 DEF KeyInv, FindsKey, ReadHeaders
    <2>1. UNCHANGED <<key1, key2, overlapped>> /\ pc[s] = "headers"
      BY <1>2 DEF ReadHeaders
    <2>2. CASE \E k \in {key1, key2} \ {NoKey} :
                 /\ tempURLKey' = [tempURLKey EXCEPT ![s] = k]
                 /\ pc' = [pc EXCEPT ![s] = "select"]
      BY <1>0, <2>1, <2>2 DEF KeyInv, FindsKey, LockInv, KeyTypes, Starting
    <2>3. CASE /\ key1 = NoKey /\ key2 = NoKey
               /\ tempURLKey' = [tempURLKey EXCEPT ![s] = nextKey + 1]
               /\ pc' = [pc EXCEPT ![s] = "update"]
      <3>1. nextKey + 1 # NoKey
        BY StartupAssumption DEF KeyTypes, NoKey
      <3> QED
        BY <1>0, <2>1, <2>3, <3>1 DEF KeyInv, FindsKey, LockInv, KeyTypes,
           Starting
    <2> QED BY <1>2, <2>2, <2>3 DEF ReadHeaders, FindsKey
  <1>3. ASSUME NEW s \in Starters, UpdateHeaders(s) PROVE KeyInv'
    BY <1>0, <1>3 DEF UpdateHeaders, KeyInv, FindsKey, LockInv, KeyTypes,
       Starting
  <1>4. ASSUME NEW s \in Starters,
               \/ parseParameters(s) \/ Select1(s) \/ CreateDatabase(s)
               \/ CheckVersionTable(s) \/ CreateVersionTable(s)
               \/ TryLock(s) \/ ReadVersion(s) \/ SetDirty(s)
               \/ RunMigration(s) \/ SetClean(s) \/ Unlock(s)
               \/ Fails(s) \/ Exits(s)
        PROVE  KeyInv'
    <2>1. UNCHANGED <<tempURLKey, key1, key2, overlapped>>
      BY <1>4 DEF parseParameters, Select1, CreateDatabase, CheckVersionTable,
         CreateVersionTable, TryLock, ReadVersion, SetDirty, RunMigration,
         SetClean, Unlock, Fails, Exits, swiftVars
    <2>2. PICK l \in Labels \ {"update"} : pc' = [pc EXCEPT ![s] = l]
      BY <1>4 DEF parseParameters, Select1, CreateDatabase, CheckVersionTable,
         CreateVersionTable, TryLock, ReadVersion, SetDirty, RunMigration,
         SetClean, Unlock, Fails, Exits, Labels
    <2>3. /\ l \in {"down", "serving"} \/ Starting(s)
          /\ l \in {"down", "headers"}
             \/ pc[s] \notin {"down", "parameters", "headers", "update"}
      BY <1>4, <2>2 DEF parseParameters, Select1, CreateDatabase,
         CheckVersionTable, CreateVersionTable, TryLock, ReadVersion,
         SetDirty, RunMigration, SetClean, Unlock, Fails, Exits, Starting,
         LockInv
    <2> QED
      BY <1>0, <2>1, <2>2, <2>3 DEF KeyInv, FindsKey, LockInv, Starting
  <1>5. CASE UNCHANGED vars
    BY <1>5 DEF vars, KeyInv, FindsKey, Starting
  <1> QED BY <1>1, <1>2, <1>3, <1>4, <1>5 DEF Next, StartStep

(* If starts do not overlap, every registry that serves has a key that      *)
(* Swift accepts (newSwiftInterface).                                       *)
THEOREM KeysAccepted == Spec => []KeyIsAccepted
  <1>1. Init => LockInv /\ KeyTypes /\ KeyInv
    BY StartupAssumption DEF Init, LockInv, KeyTypes, KeyInv, Labels,
       Migrating, Key, NoKey, Starting
  <1>2. KeyInv => KeyIsAccepted
    BY DEF KeyInv, FindsKey, KeyIsAccepted
  <1> QED
    BY <1>1, <1>2, LockInvariance, KeyTypesInvariance, KeyInvariance, PTL
       DEF Spec
=============================================================================

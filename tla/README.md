# A TLA+ model of keppel

keppel is a multi-tenant container image registry: `keppel-api` offers accounts,
issues tokens and forwards the registry API of every account to a
`keppel-registry` process of that account, which is the docker registry with a
storage driver of its own ("swift-plus", Swift objects indexed by a PostgreSQL
database).

This directory holds one TLA+ module per part that has behaviour over time, the
TLC runs that check them on small instances, and TLAPS proofs for all of them:
the orchestration driver, the storage driver and its readers, the accounts API, the
token API and the start of registries. `PROJECT.json` lists the runs, which lines of the repository each
definition models, the hazards, and what was found.

## 1. Inventory

| part | state | operations | what is hard |
|---|---|---|---|
| orchestration driver (`pkg/drivers/local_processes`) | `listenPorts`, `nextListenPort`, two contexts, a WaitGroup, child processes | `Run`'s select loop, `DoHTTPRequest`, `startRegistry`, `waitOnProcess`, the poller | goroutines that meet on unbuffered channels; exit messages that carry only a name; shutdown racing crashes; a 16 bit port counter |
| swift-plus storage driver (`pkg/registry/swift-plus`) | tables `files` and `segments`, objects in Swift, open writers | `GetContent`, `PutContent`, `Writer`, `Write`, `Commit`, `Close`, `Cancel`, `Move`, `Delete`, `Stat`, `List`, `Reader`, `URLFor` | no transaction spans a call: any statement or request can be the last one; loops over rows that do not notice an error; two stores must agree; segment numbers; readers and temporary URLs that overlap with writers |
| start of a registry (`NewDriver`, `params.go`) | the container's keys for temporary URLs, the database and its schema, the migration's lock and version | `parseParameters`, `newSwiftInterface`, `connectToPostgres`, `initializeSchema` | check-then-create four times over; a start that dies anywhere and is repeated; starts that overlap |
| accounts API (`pkg/api/keppel`, `pkg/keppel`) | table `accounts`, role assignments in Keystone | PUT, GET, list | check-then-insert by concurrent requests; a side effect in Keystone inside a transaction; lost answers |
| token API (`pkg/api/auth`, `pkg/auth`) | none of its own; reads accounts and Keystone; tokens live with clients | `handleGetAuth`, `ParseScope`, `ToToken`, `ToResponse`, `ParseTokenFromRequest` | values read at different times; clocks of several replicas; who is entitled to what |
| registry proxy (`pkg/api/registry`) | none | `/v2/`, `/v2/_catalog`, `/v2/<account>/...` | uses a port after it was given out |
| Keystone auth driver (`pkg/drivers/openstack`) | service user, policy | `AuthenticateUser`, `AuthenticateUserFromRequest`, `HasPermission`, `SetupAccount` | calls to Keystone |
| configuration, start-up of keppel-api, error formats, tests | | | straight-line code |

Interaction: the proxy finds an account (accounts API's table) and asks the
orchestration driver for its port; the driver starts registries, each of which
runs the swift-plus driver on a database and a Swift container of its own; the
accounts API grants the service user a role so that this container can be
reached; the token API reads the accounts to decide what a token covers.

What makes each part correct:

* orchestration: one registry per account, bookkeeping that is right about it, no
  request at another account's registry, nothing left running, everything that
  crashed comes back, shutdown ends;
* storage: what was acknowledged can be read, a file that can be read is what one
  `PutContent` was given or one `Commit` put together, no row or object is lost or
  left over, a read or a temporary URL delivers one version of a file or an error;
* start: a registry serves only on a complete schema and with a key that works,
  and a start that failed can be repeated;
* accounts: an account has its role before it can be seen, never changes hands,
  and every request ends;
* tokens: no more than was asked for and the user is permitted, no longer than
  intended.

## 2. Modules

### LocalProcesses (`orchestration.go`, `process.go`)

State: the driver's fields and locals under their own names (`listenPorts`,
`nextListenPort`, `ok`), `runState` (in the select, in `WaitGroup.Wait()`,
returned), the two contexts (`ctxDone`, `innerDone`), and per process its
account, port, state in the operating system and the program point of its
`waitOnProcess` goroutine. Channels are unbuffered: a send and its receive are
one joint action (`ProcessExit`, `ClientGetPort`, `PollSend`). `PropagateCancel`
lets the derived context expire a moment after its parent, as package context
does. `isShutdownBecauseOfSIGINT` only decides about a log line.
`nextListenPort` wraps at `PortModulus` (2^16 in the code). `starts` is a
history variable that says whether it has wrapped.

`Registries` is the abstract specification, from the interface
`OrchestrationDriver`: a set of pairs of an account and its registry, at most one
per account, fresh processes only, and `Run` closing with none left.
`ImplementsRegistries` is `LocalProcesses` under the mapping of living processes
to those pairs; channels, observers, the port map and the contexts are internal.

### SwiftPlus (`core.go`, `swift.go`)

State: the two tables, the objects of the container, and per request handler the
call it is in and its open writer. A call is the list `todo` of SQL statements
and Swift requests that it has still to make, each of which is an action; a
statement whose outcome decides what follows replaces the head of the list
(`ReadTarget`, `DeleteChildren`). At each of them the call may fail (`Fault`) or
the process may crash (`Crash`); the code undoes nothing on either, so both drop
the list. The exception is `CutShort`: `readSegmentInfo` and `deleteDownwards` loop on
`rows.Next()` and never ask for `rows.Err()`, so an error between two rows ends the loop
like the last row does, and the call goes on. `CutSegments` gives a writer a proper prefix
of the segments at its location; it then uses a number that is taken, overwrites a
segment's object and meets the conflict only in the table. `CutChildren` lets `Delete`
go on with some of a directory's rows. The history variables `lost` (of a writer) and
`acked` record that nothing can be promised for the files in question any more. Data come in units, one per buffer of the `bufferedWriter`; the unit is
its own MD5 hash. `GetContent`, `Reader`, `Stat` and `List` are operators on the state.

`FileRegister` is the abstract specification, from what the docker registry
expects of a storage driver: a register per file, whose contents change only while
a call on the file is in progress, never to something nobody stored, and which
holds what a call announced when the call succeeds, or leaves in doubt (`InDoubt`) what
it has announced once it has missed an error. `ImplementsRegister` maps
`GetContent` to the contents and the tasks of a call to its announced effect.

`Above` is the path and the directories above it, as a least set, so that it can be
reasoned about for trees of any depth. `SwiftPlusAssumption` says that paths form a
tree of directories and files, and that the stand-ins for "no row", "absent",
"unknown" and "unreadable" are no rows and no contents.

### SwiftReads (`core.go`, `swift.go`)

Extends SwiftPlus by readers and by holders of temporary URLs. `GetContentRow`,
`ReaderRow` and `URLForRow` are the SELECT and the early returns that follow from
the row; `SwiftOpen` is the request for `<location>/content` with its Range, made by
the registry or, for a URL, by whoever holds it at any later time; `SwiftStream` is
Swift sending the segments of a large object one by one (external). Every step of
the writers fits in between. A crash of the registry ends its readers but not the
holders of URLs. `path` and `base` in a reader's record are history variables.
Offsets count whole units.

Abstractions and external behaviour: random locations never collide; Swift
checks the hashes in an SLO manifest when it accepts and when it serves it, and
accepts an empty manifest; a listing is complete. The callers are those of the
docker registry: writers on upload paths, `PutContent` and `Move` targets on
other paths, no use of a writer after `Close`, `Cancel` (successful or not, as
`plusWriter.cancelled` has it) or (`Write`) `Commit`.
`plusWriter.closed` is never set by the code and has no counterpart. `acked`,
`written` and `cancelled` are history variables for the properties.

### Startup (`core.go`, `swift.go`, `params.go`, `process.go`)

What every `keppel-registry` of an account does before it serves: check its
parameters, find or generate the key for temporary URLs in the container's
headers, find or create the database, and migrate it. The steps of the library
mattes/migrate (version table, advisory lock that does not wait, dirty flag,
migration, flag cleared) are those of the vendored copy, in the order in which `Up`
makes them. At
every step the start may fail or the process die (`Fails`), which ends the database
session and with it the lock; `keppel-api` then launches another one. `initDB` of
keppel-api itself goes through a library with the same steps, for one table.

### Accounts (`accounts.go`, `models.go`, `database.go`, `keystone.go`)

The table with committed rows, the rows of open transactions (`locks`:
PostgreSQL makes a second INSERT of the same key wait), the tenants that have the
role, and concurrent `handlePutAccount`s as `PutStart`, `PutFind`, `PutInsert`,
`PutSetup`, `PutCommit`, each of which can fail (`PutFails`, with or without
effect, as when an answer is lost). The policy is a parameter (`MayList` for
`AuthenticateUserFromRequest`, `MayChange`, `MayView`). GET and list only read and
are operators.

### TokenAuth (`api/auth/token.go`, `auth/*.go`, `proxy.go`)

Scopes, requests, grants, claims and their verification are operators named as in
the code. A scope string is given by its fields. `handleGetAuth` is four actions,
because it reads the accounts, Keystone and the accounts again. `AccountOf` and
`RepoNames` stand for the first path element and for `repoNameRegexp`. A user name
is given by its fields; `AuthOptions` adds the default domain, and Keystone may
refuse any user. Replicas
have clocks that are apart by constants. Signatures are unforgeable. `GrantsCovered`
speaks of the documented permissions for pulling and pushing, under the condition
`PolicyTies` that the policy ties them to viewing and changing; `AcceptanceWindow` allows
the documented tolerance of clocks. What the code's comments promise beyond that is
stated as `PullAndPushArePermitted` and `MismatchIsAllowed`, which do not hold (see 5).

As the code is, no token is ever issued (finding `tokens_answer`): the handler
panics once `AuthenticateUser` succeeds. `NilErrorIsNil = FALSE` is that code.
With `TRUE`, line 67 behaves as the same construct does in `accounts.go`, which
uses a separate variable, and the rest of the handler is checked; the run
`tokens` is to be read with this supposition.

Each module's definitions named `X_Something`, with the comment "Deliberately
wrong", are faulty variants of `X`. No specification uses them; they serve to
show that each property fails when the code is changed in a plausible way.

## 3. Runs

| run | instance | shows |
|---|---|---|
| `lp_driver` | 2 accounts, 1 handler, 4 processes, 2 crashes, ports modulo 5 | all safety properties, also after the wrap of the counter, the refinement of `Registries`, and: every account gets (back) its registry, cancellation reaches every child, no handler hangs before SIGINT (82,093 states) |
| `lp_shutdown` | 1 account, 1 crash | violation, see 5 |
| `sp_exclusive` | 2 handlers, tree of an upload and a blob, 2 locations, 2 units, 1 fault | acknowledged contents, appends, directories, garbage and the refinement of `FileRegister`, one call at a time per file (401,692 states) |
| `sp_overlapping` | 2 handlers on 2 files, 1 location, 2 units, 1 fault | whatever overlaps, what can be read is what one `PutContent` was given or one `Commit` put together (2.7 million states) |
| `sp_cancel` | as `sp_exclusive`, 3 units, no fault | violation, see 5 |
| `sp_delete` | as `sp_exclusive` | violation, see 5 |
| `sp_reads` | 1 handler, 1 reader, 2 files, 2 locations, 3 units, offsets 0 and 1, 1 fault | reads and temporary URLs that overlap with writers (6.5 million states) |
| `accounts` | 2 concurrent requests, 4 users, 2 names, 2 tenants, 1 crash | all properties of the accounts API (19,041 states) |
| `tokens` | 17 forms of requests, 5 sets of rights, 2 accounts, 3 replicas, clock to 6, lifetime 2, leeway 3 | all properties of the token API (205,170 states); see 5 for two of the comments |
| `tokens_answer` | the same, the code as it is | violation, see 5 |
| `startup` | 2 registries, 2 failures, 4 kinds of parameters, container with and without an operator's key | schema, key, and that a start succeeds (27,840 states, deadlock checked) |
| `startup_dirty` | 1 registry, 1 failure | violation, see 5 |

Bounds. In LocalProcesses a start beyond an account's first needs an exit, so
`MaxProcs >= accounts + MaxCrashes` (assumed in `MCLocalProcesses`) means that the
bound on processes never keeps `Run` from a start; two accounts and two crashes
give a crash of the successor of a crashed registry, and a crash of each. Ports
modulo 5 let the counter wrap within the run. With two handlers the safety
properties hold as well (150,303 states up to symmetry), and the proofs cover any number. In SwiftPlus two units make a file
of two segments, an append to a committed one, or two files; two locations make an
overwrite or a blob beside an upload; one fault at any statement is what the
recovery by the next call has to deal with, a loop that is cut short included. With three
units (2.2 million states) `sp_exclusive` holds as well. `sp_reads` needs three units for a
writer to append to a committed file of two segments, or two files to change places, while
a read is under way; readers do not influence anybody, so one is enough, and with one
handler the calls come one after the other while the read overlaps any number of them. In
Startup two registries suffice for each race (every check-then-create has a winner
and a loser), and the second failure can hit the repetition of a failed start;
`EnoughKeys` in `MCStartup` means that the bound on keys never stops a start. In
Accounts two requests suffice for a race on a name and on different names. In
TokenAuth properties speak of one token at a time, and handlers share nothing
but what they read, so one handler is enough; the clock exceeds lifetime plus
leeway.

Three further configurations are not runs of `PROJECT.json`: `LocalProcesses_fatal.cfg`,
`TokenAuth_mismatch.cfg` and `TokenAuth_pull.cfg` reproduce the disagreements of 5 that the
findings of `lp_driver` and `tokens` quote.

Deadlock checking is off in LocalProcesses (`Run` returns), SwiftPlus and SwiftReads
(the bounds are used up).

Fairness. LocalProcesses: goroutines that can run do run; Go's select chooses at
random among ready cases and queues senders, so that one that is blocked on `Run`
is not starved while `Run` is in its select; an interrupted registry exits; some
query of the poller succeeds. Nothing is assumed of crashes, signals or requests.
Accounts: a handler that can proceed does, and PostgreSQL queues waiting inserts,
so that one whose key is free again and again gets its turn (SF); failures and
crashes are not fair. Startup: keppel-api launches a registry that is down (its
poller does so every minute), and a start that can go on does; no failure is fair,
and none is needed for the property.

## 4. Proofs

`LocalProcesses_proofs` proves for every set of accounts and handlers and every
`MaxProcs`, `MaxCrashes`, `FirstPort` and `PortModulus` that satisfy
`ConstantsAssumption`:

* `TypeCorrect`, `OneRegistry`, `Bookkeeping` (`ExitMessageIsCurrent`),
  `EntriesObserved` (`NoStaleEntry`), `Routing`, `NoOrphansLeft`, and the action property
  `EntriesOutlived`;
* `Refinement`: the specification implements `Registries`.

All follow from the inductive invariant `IInv`. None of the properties is
inductive alone: that no two registries of an account live depends on the map,
the map on exit messages being about the current process, and that on every
living process having an unfinished observer. `IInv` therefore adds to `TypeOK`

* `ObserverInv`: which observer states go with which process states (a process
  that lives has an observer before its receive; a sender's process is gone);
* `OneObserver`: at most one unfinished observer per account;
* `WaitedInv`: once `Run` has returned no observer is unfinished;
* `ExitMessageIsCurrent` and `NoStaleEntry` themselves;
* `PortInv`: until the counter wraps, every port that was handed out, to a
  process or to a handler, lies between `FirstPort` and the counter, and belongs
  to one account.

There is one lemma per part, with one step per action. TLC has checked `IInv` on
an instance before it was proved. The step simulation in `Refinement` uses `IInv`:
that `GetPort` starts a registry only for an account without one (`OneObserver`
and the port map), and that `Run` returns with nothing left (`WaitedInv`). All
other actions are invisible, or the exit of one process (lemmas `Invisible`,
`ExitRefines`, `GetPortRefines`).

`Accounts_proofs` proves for any requests, users, names, tenants and policies
that satisfy `AccountsAssumption`: `TypeCorrect`, `RoleFirst`, `OnlyAdmissible`,
`SuccessVisible` and the action property `TenantKept`. Its inductive invariant
adds `RequestInv`, which relates where a handler is to the tables: past its checks
it is entitled to what it asks for; in its transaction no row of that name is
committed (the lock in `TypeOK` belongs to one handler, so a commit cannot
overwrite); before its commit the role is there; after its 200 the row is. The
lemma `HandlerStep` shows once what every step of a handler preserves, and each
action is an instance of it.

`TokenAuth_proofs` proves, for any requests, accounts, users, replicas, clocks,
lifetime and leeway: `TypeCorrect`, `Grants` (`GrantsCovered`), `Window`
(`AcceptanceWindow`) and `Challenge` (`ChallengeAnswerable`). The inductive
invariant says of each request what holds at its line: the scope is one that
`ParseRequest` lets pass; the tenant that was found still owns the account, which
needs that accounts are only ever added (lemma `AccountsGrow`); the claims are
those of the issuing replica at the time of issue; everything granted is covered.
The grants themselves are shown once, in `TokenGrants`, in terms of viewing and changing;
`PolicyTies` turns these into the permissions for pulling and pushing. As in the run, the
theorems say something about tokens only for `NilErrorIsNil = TRUE`.

`Startup_proofs` proves, for any number of registries, failures and keys:
`TypeCorrect` (with the mutual exclusion of migrations), `SchemaComplete`
(`ServingHasSchema`) and `KeysAccepted` (`KeyIsAccepted`). `ServingHasSchema` is not
inductive: `SchemaInv` adds what every start knows at its step (database and
version table exist from there on, a clean version means that the tables exist,
and only the holder of the lock can change the version); `KeyInv` adds
that without overlap at most one start is on its way and that keys in use are
those in the container's headers.

`SwiftPlus_proofs` proves, for any handlers, tree, bounds, faults and crashes, and
whether or not calls overlap: `TypeCorrect` and `ContentsAreWhole` (`WholeContents`).
Both follow from the inductive invariant `StoreInv`. `WholeContents` speaks of rows and
objects only, but depends on what calls have still to do, so that `StoreInv` also
describes the lists of tasks: rows are of the kind of their path, what they hold inline
was asked for, and their locations were chosen before; an object that is not a segment
has contents that somebody asked to be stored, a manifest lists parts whose units are
such contents (the hashes in it do the rest, lemma `SwiftReaderWhole`); segment numbers
are unique per location and start with 1 without gaps, and a writer knows a gapless list
of them; the tasks of a call are about rows and locations
of this kind. The module begins with the facts about sequences that the model's
operators need (what `FlattenSeq`, an enumeration of a set and the ordered list of
segments are); where these are inductions over data they are done by a least
counterexample (`LeastNat`, `SetInduction`).

`SwiftExclusive_proofs` assumes that no two calls at a time work on one path or on a
path and a directory above it (`Exclusive`). The docker registry mostly calls its driver
like this, one request per upload, but nothing keeps two pushes of one blob from moving
their uploads to it at the same time: for such calls only what is proved without
`Exclusive` holds. Under this assumption the module
proves `CallsStayApart`, `NothingIsLeftBehind` (`NoGarbage`), `TreesStayWhole` and
`DirectoriesAreThere` (`NoOrphanRow`), again for any handlers, trees and bounds. The
heart of the argument is that handlers are apart (`Apart`): the paths they may change
and the locations they may use are disjoint, so that what is known of one survives the
steps of the others (`Confined`, `ApartUndisturbed`). The invariants are layered:

* `ShapeInv`: which tasks a call can have, in which order, about which paths;
* `LocInv`: a location is used by one handler, named by one row, and one that a
  handler uses is named only by a row in its region;
* `DataInv`: a row that is about to be deleted or overwritten has its objects listed
  for deletion; a bulk delete covers all that is at its location; a commit that is about
  to return has its row; a writer knows all segments at its location (so that no segment
  number is used twice), unless its loop over them was cut short (`lost`), and then
  everything about its file is in doubt;
* `NoFaultInv` and `KeptInv`: without failures a committed writer has its row, and each
  object has a row, a call, a writer or a cancelled writer: this is `NoGarbage`;
* `TreeInv` and `ParentInv`: a directory's row is deleted after the rows in it (unless
  the loop over them was cut short, which the call's `val` records), the
  target of a rename is free, the directory of a row has a row or is being made.

`SwiftAcked_proofs` proves on top of this what the registry relies on:

* `PromisesAreKept`, the inductive invariant: a file without a call on it holds what
  was acknowledged, in the row, the manifest, the segments and the table of segments
  alike (`Holds`, `ManifestInv`), and a call keeps a promise that grows with its steps
  (`Keeps`: what it has still to do, with what the stores hold, amounts to what it will
  acknowledge; a call that has missed an error keeps none). `InDoubt` says that whoever
  may change a file has withdrawn its acknowledgement before.
* `AcknowledgedStaysReadable` (`AcknowledgedIsReadable`) and `AppendsExtend`
  (`AppendExtends`).
* `DriverIsARegister` (`ImplementsRegister`): the steps that start a call map to `Begin`
  or stutter, `Finish` to `Success` (`FinishHolds`, `HoldsReads`), everything else to
  `Work`, in which only files with a call on them change, and only to something that was
  offered (`ContentSame`, `EffectKept`).

What is acknowledged is not always kept: see 5 on `Delete` after a failure. The theorems therefore say for which files and when they hold. `Direct(p)`: the
directory that is deleted with `p` in it, if there is one, is `p`'s own; `Shallow`: this
is so for all uploads; `Safe(p, f)`: `p` is direct, or there are no failures. The data
file of an upload lies directly in the directory that is deleted, so `Shallow` is how the
registry uses the driver; the files `hashstates/<algorithm>/<offset>` below it are not
direct, and for them only the theorems without failures hold.

`SwiftReads_proofs`: `ReadersOnlyRead` says that a behaviour with readers is one of
SwiftPlus, so that all of the above holds with readers too. `ReadsAreWhole` (`WholeReads`)
holds whatever overlaps; its invariant `ReadInv` says that what was received so far,
together with the segments that are still to come, is something that was asked to be
stored, from the offset on (`UnitsFrom`, `UnitsTail`). With `Exclusive` and all files
safe:

* `UndisturbedReadsAreRight` (`UndisturbedRead`), with a key for temporary URLs (`"GET"`
  among `TempURLMethods`). The invariant `ServedInv` says that a reader whose file was not
  touched is still at the location of that file's row, which holds what was acknowledged,
  and that the segments it waits for are parts of the manifest there; no step of another
  call, of an open writer that is not `lost` or of a failure moves either (`FileFixed`).
* `URLsKeepTheirMeaning` (`URLKeepsMeaning`), needs no assumption on the key. The
  invariant `URLInv` says that the location of a URL is settled: no call has an upload to
  it, no writer is open on it, no upload's row names it, so that nobody can write to it
  again (`SettledNext`), and what is there, if it is not deleted, is what it was. That a
  blob's location is settled when the URL is made (`BlobSettled`) is where the
  invariants about locations and acknowledgements come in.

Only model-checked: liveness (`lp_driver`, `accounts`, `startup`), because the prover has
no fairness or ENABLED. Every other property of the passing runs is a theorem.

## 5. Findings

* `lp_driver`: a registry that cannot be started is "a fatal error" by the comment,
  but `Run` cancels the inner context only and does not return: it goes on answering
  (`RequestsAnswered`), and `FatalErrorEndsRun`, which states the comment, is violated
  (`LocalProcesses_fatal.cfg`).
* `lp_shutdown`: an observer that has found the context alive blocks for ever on
  the exit channel when `Run` leaves its loop at that moment, and `Run` waits for
  it: keppel-api hangs on SIGINT.
* `sp_cancel`: `Cancel` of a writer that was not committed leaves its segments.
* `sp_delete`: `deleteDownwards` does not ask for `rows.Err()`. When the connection breaks
  or the context ends while it goes through a directory, `Delete` removes the directory's
  row and succeeds, and files stay below a directory that no longer exists, against
  "Delete recursively deletes all objects stored at "path" and its subpaths."
  (`vendor/.../storage/driver/storagedriver.go:79`). There is a second way to the same end,
  found by the attempt to prove `AcknowledgedIsReadable` for trees of any depth: when
  `writeFileInfo` or `Move` fails between its row and the row of an intermediate directory
  (`mkdirAll` comes second), a later `Delete` two levels up does not find the file, which
  can still be read. `AcknowledgedIsReadable` is therefore stated, once something has
  failed, for files that lie directly in the directories that are deleted, as the
  registry's upload data does
  (`vendor/github.com/docker/distribution/registry/storage/paths.go:93`).
* `tokens`, clocks: the comment `token.go:96` says "allow up to 3 seconds clock mismatch",
  but `jwt.ParseWithClaims` has checked the times without any tolerance before; a replica
  whose clock is a second behind refuses a fresh token. `MismatchIsAllowed` states the
  comment and is violated (`TokenAuth_mismatch.cfg`); the run's `ChallengeAnswerable` does
  not rely on the tolerance.
* `tokens`, permissions: `auth_driver.go:33-36` defines permissions for pulling and
  pushing, but `filterRepoActions` asks for those to view and to change the account.
  `PullAndPushArePermitted` states the former and is violated (`TokenAuth_pull.cfg`); the
  run's `GrantsCovered` holds under policies in which they coincide, as in
  `docs/example-policy.json`.
* `tokens_answer`: a nil `*RegistryV2Error` in a variable of type `error` makes
  `handleGetAuth` panic for every authenticated user.
* `startup_dirty`: a registry that dies between the two statements that set and
  clear the migration's dirty flag keeps every later registry of the account from
  starting, although its termination "is not a fatal error".

Without a run: the comment in `Move` (`core.go:519-520`) promises "deletion of
now-empty directories above source", but no statement deletes any; registries of
one account that start for the first time at the same time store two keys, and one
of them then signs temporary URLs that Swift refuses (`KeyIsAccepted` is stated for
starts that do not overlap); account names such as `a-`
are legal, but not legal as part of a repository in a scope; `Writer` with append
on a file stored by `PutContent` drops its contents; a `Commit` that comes after
the `Move` of its upload makes two rows share a location.

The loop over segments has the same flaw as that over children: an append whose list of
segments was cut short overwrites a committed segment, and the file cannot be read any
more. No comment promises otherwise; the properties put the file in doubt, and say that
nobody ever reads parts of two versions and that no other file is harmed. A writer that appends also
takes over the segments that another writer of the same upload has recorded and not
committed: `written` counts what one `Commit` puts together, whoever wrote the parts.

## 6. Not modelled

Reading of the configuration file and the start-up of keppel-api (straight-line
code that ends the process on any error: `ReadConfig`, `Connect`, `initDB`), formats
of errors and log lines, the environment variables and files that keppel-api
prepares for its children; the docker registry itself (vendored); regular
expressions character by character; expiry of temporary URLs (a URL may be given up
at any time). The lives of several keppel-apis, one after the other or side by side,
are not composed: LocalProcesses is one life, and Startup only shows what the
registries of two of them do to each other while they start.

## 7. Plan

1. Done: LocalProcesses, Accounts, TokenAuth, Startup, SwiftPlus and SwiftReads with
   their proofs; the refinements of `Registries` and `FileRegister`.
2. Next, in the proofs: that after failures a file below an intermediate directory
   without a row is the only kind of file that `Delete` can miss; how much a failed call
   leaves behind (garbage is so far bounded only without failures).
3. Model: a composition of `Accounts`, `TokenAuth` and `LocalProcesses` along the
   path of an image pull, and a successor keppel-api that finds registries of its
   predecessor on its ports.

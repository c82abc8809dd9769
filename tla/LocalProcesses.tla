--------------------------- MODULE LocalProcesses ---------------------------
(***************************************************************************)
(* The "local-processes" orchestration driver of keppel-api                *)
(* (src/pkg/drivers/local_processes).  One goroutine, Run(), owns the map  *)
(* listenPorts and serves, in a select loop,                               *)
(*   - port requests from HTTP handlers (DoHTTPRequest) and from the       *)
(*     poller (ensureAllRegistriesAreRunning),                             *)
(*   - exit messages from the goroutines that observe the child processes  *)
(*     (waitOnProcess),                                                    *)
(*   - the expiry of the context it was given (SIGINT to keppel-api).      *)
(* All channels are unbuffered, so a send and its receive are one joint    *)
(* step of the two goroutines.  The Result channel of a port request has   *)
(* a buffer of one and is written at most once: it never blocks Run().     *)
(***************************************************************************)
EXTENDS Integers, FiniteSets

CONSTANTS
    Accounts,     \* the account names that may ever be created
    NoAccount,    \* account of a process id that is not in use yet
    Clients,      \* HTTP handler goroutines that call DoHTTPRequest
    MaxProcs,     \* bound: number of keppel-registry processes ever spawned
    MaxCrashes,   \* bound: registries that exit before innerCtx is cancelled
    FirstPort,    \* initial nextListenPort (10000 in the code)
    PortModulus   \* nextListenPort is a uint16: 2^16 in the code

ASSUME ConstantsAssumption ==
    /\ NoAccount \notin Accounts
    /\ MaxProcs \in Nat
    /\ MaxCrashes \in Nat
    /\ PortModulus \in Nat
    /\ FirstPort \in Nat
    /\ FirstPort < PortModulus

Pid    == 1..MaxProcs
Port   == 0..(PortModulus - 1)
NoPort == -1                       \* "no such key" in listenPorts

VARIABLES
    accounts,        \* table accounts of keppel-api's database
    listenPorts,     \* driver.listenPorts: account name -> port
    nextListenPort,  \* driver.nextListenPort
    starts,          \* ghost: how often nextListenPort was incremented
    runState,        \* where Run() is: its select, the WaitGroup, or returned
    ok,              \* the result variable of Run()
    ctxDone,         \* the context given to Run() has expired (SIGINT)
    innerDone,       \* innerCtx has been cancelled
    acctOf,          \* per process: the account it serves
    portOf,          \* per process: the port it was told to listen on
    os,              \* per process: its state in the operating system
    mgr,             \* per process: where its waitOnProcess goroutine is
    client,          \* per HTTP handler: where it is in DoHTTPRequest
    polling          \* accounts the poller has selected and not yet sent

dbVars     == <<accounts>>
runVars    == <<listenPorts, nextListenPort, starts, runState, ok>>
ctxVars    == <<ctxDone, innerDone>>
procVars   == <<acctOf, portOf, os, mgr>>
callerVars == <<client, polling>>
vars == <<accounts, listenPorts, nextListenPort, starts, runState, ok,
          ctxDone, innerDone, acctOf, portOf, os, mgr, client, polling>>

IdleClient == [pc |-> "idle", account |-> NoAccount, port |-> NoPort]

ClientStates ==
    {IdleClient}
    \cup [pc : {"sending"}, account : Accounts, port : {NoPort}]
    \cup [pc : {"dialing"}, account : Accounts, port : Port]

(* The process exists and has not been reaped. *)
Alive(p) == os[p] \in {"running", "interrupted"}

(* The goroutines that manage process p are still counted by pc.WaitGroup. *)
Managed(p) == mgr[p] \in {"select", "recv", "check", "send"}

Init ==
    /\ accounts = {}
    /\ listenPorts = [a \in Accounts |-> NoPort]
    /\ nextListenPort = FirstPort
    /\ starts = 0
    /\ runState = "select"
    /\ ok = TRUE
    /\ ctxDone = FALSE
    /\ innerDone = FALSE
    /\ acctOf = [p \in Pid |-> NoAccount]
    /\ portOf = [p \in Pid |-> NoPort]
    /\ os = [p \in Pid |-> "unborn"]
    /\ mgr = [p \in Pid |-> "none"]
    /\ client = [c \in Clients |-> IdleClient]
    /\ polling = {}

-----------------------------------------------------------------------------
(* The environment of the driver. *)

(* PUT /keppel/v1/accounts/:account commits a new row; no code deletes one. *)
CreateAccount(a) ==
    /\ a \notin accounts
    /\ accounts' = accounts \cup {a}
    /\ UNCHANGED <<runVars, ctxVars, procVars, callerVars>>

(* keppel-api receives SIGINT: contextWithSIGINT cancels the outer context. *)
Signal ==
    /\ ~ctxDone
    /\ ctxDone' = TRUE
    /\ UNCHANGED <<dbVars, runVars, innerDone, procVars, callerVars>>

(* Package context: the cancellation reaches the derived innerCtx, a moment *)
(* after ctx.Done() has become readable.                                    *)
PropagateCancel ==
    /\ ctxDone /\ ~innerDone
    /\ innerDone' = TRUE
    /\ UNCHANGED <<dbVars, runVars, ctxDone, procVars, callerVars>>

(* A registry ends by itself (it crashed, or could not bind its port). *)
RegistryCrash(p) ==
    /\ os[p] = "running"
    /\ innerDone \/ Cardinality({q \in Pid : os[q] = "exited"}) < MaxCrashes
    /\ os' = [os EXCEPT ![p] = "exited"]
    /\ UNCHANGED <<dbVars, runVars, ctxVars, acctOf, portOf, mgr, callerVars>>

(* A registry obeys the SIGINT that waitOnProcess has sent to it. *)
RegistryObeys(p) ==
    /\ os[p] = "interrupted"
    /\ os' = [os EXCEPT ![p] = "exited"]
    /\ UNCHANGED <<dbVars, runVars, ctxVars, acctOf, portOf, mgr, callerVars>>

-----------------------------------------------------------------------------
(* The select loop of Run(). *)

(* Deliberately wrong: the counter does not wrap; it is not advanced. *)
NextPort_NoWrap == nextListenPort + 1
NextPort_Stuck == nextListenPort

(* nextListenPort++ on a uint16. *)
NextPort ==
    IF nextListenPort = PortModulus - 1 THEN 0 ELSE nextListenPort + 1

(* startRegistry up to its return: the environment is complete, cmd.Start   *)
(* has spawned process p and the goroutines that manage it are counted.     *)
StartRegistry(a, port) ==
    \E p \in Pid :
        /\ os[p] = "unborn"
        /\ \A q \in Pid : q < p => os[q] # "unborn"
        /\ os' = [os EXCEPT ![p] = "running"]
        /\ mgr' = [mgr EXCEPT ![p] = "select"]
        /\ acctOf' = [acctOf EXCEPT ![p] = a]
        /\ portOf' = [portOf EXCEPT ![p] = port]
        /\ UNCHANGED <<ok, innerDone>>

(* startRegistry returns an error (GetEnvironment or cmd.Start failed): Run *)
(* records it and cancels innerCtx, and stays in its loop.                  *)
StartFails ==
    /\ ok' = FALSE
    /\ innerDone' = TRUE
    /\ UNCHANGED procVars

(* Deliberately wrong: the map is not consulted. *)
GetPort_AlwaysStarts(a) ==
    /\ runState = "select"
    /\ nextListenPort' = NextPort
    /\ starts' = starts + 1
    /\ StartRegistry(a, NextPort) \/ StartFails
    /\ listenPorts' = [listenPorts EXCEPT ![a] = NextPort]
    /\ UNCHANGED <<dbVars, runState, ctxDone>>

(* Deliberately wrong: the registry gets the port before the increment. *)
GetPort_OldPort(a) ==
    /\ runState = "select"
    /\ \/ /\ listenPorts[a] # NoPort
          /\ UNCHANGED <<listenPorts, nextListenPort, starts, ok, innerDone,
                         procVars>>
       \/ /\ listenPorts[a] = NoPort
          /\ nextListenPort' = NextPort
          /\ starts' = starts + 1
          /\ StartRegistry(a, nextListenPort) \/ StartFails
          /\ listenPorts' = [listenPorts EXCEPT ![a] = NextPort]
    /\ UNCHANGED <<dbVars, runState, ctxDone>>

(* case req := <-d.getPortRequestChan, without the reply. *)
GetPort(a) ==
    /\ runState = "select"
    /\ \/ /\ listenPorts[a] # NoPort
          /\ UNCHANGED <<listenPorts, nextListenPort, starts, ok, innerDone,
                         procVars>>
       \/ /\ listenPorts[a] = NoPort
          /\ nextListenPort' = NextPort
          /\ starts' = starts + 1
          /\ StartRegistry(a, NextPort) \/ StartFails
          /\ listenPorts' = [listenPorts EXCEPT ![a] = NextPort]
    /\ UNCHANGED <<dbVars, runState, ctxDone>>

(* Deliberately wrong: the bookkeeping is not updated. *)
ProcessExit_KeepsEntry(p) ==
    /\ runState = "select"
    /\ mgr[p] = "send"
    /\ mgr' = [mgr EXCEPT ![p] = "done"]
    /\ UNCHANGED <<dbVars, runVars, ctxVars, acctOf, portOf, os, callerVars>>

(* case msg := <-processExitChan, joined with the send at the end of        *)
(* waitOnProcess(p).  The message carries the account name only.            *)
ProcessExit(p) ==
    /\ runState = "select"
    /\ mgr[p] = "send"
    /\ listenPorts' = [listenPorts EXCEPT ![acctOf[p]] = NoPort]
    /\ mgr' = [mgr EXCEPT ![p] = "done"]
    /\ UNCHANGED <<dbVars, nextListenPort, starts, runState, ok, ctxVars,
                   acctOf, portOf, os, callerVars>>

(* case <-ctx.Done(): cancel(), then block in pc.WaitGroup.Wait(). *)
RunCtxDone ==
    /\ runState = "select"
    /\ ctxDone
    /\ innerDone' = TRUE
    /\ runState' = "waiting"
    /\ UNCHANGED <<dbVars, listenPorts, nextListenPort, starts, ok, ctxDone,
                   procVars, callerVars>>

(* Deliberately wrong: no pc.WaitGroup.Wait(). *)
RunReturn_NoWait ==
    /\ runState = "waiting"
    /\ runState' = "returned"
    /\ UNCHANGED <<dbVars, listenPorts, nextListenPort, starts, ok, ctxVars,
                   procVars, callerVars>>

(* The WaitGroup is zero: Run() returns and keppel-api exits. *)
RunReturn ==
    /\ runState = "waiting"
    /\ \A p \in Pid : ~Managed(p)
    /\ runState' = "returned"
    /\ UNCHANGED <<dbVars, listenPorts, nextListenPort, starts, ok, ctxVars,
                   procVars, callerVars>>

-----------------------------------------------------------------------------
(* waitOnProcess(p).  The goroutine that calls cmd.Wait() is ready to send  *)
(* the process result exactly when the process has exited.                  *)

(* Deliberately wrong: the child is not sent a SIGINT. *)
MgrInterrupt_NoSignal(p) ==
    /\ mgr[p] = "select"
    /\ innerDone
    /\ mgr' = [mgr EXCEPT ![p] = "recv"]
    /\ UNCHANGED <<dbVars, runVars, ctxVars, acctOf, portOf, os, callerVars>>

(* select: pc.Context.Done() is readable, send SIGINT (an error of Signal,  *)
(* the process being gone already, is ignored).                             *)
MgrInterrupt(p) ==
    /\ mgr[p] = "select"
    /\ innerDone
    /\ os' = [os EXCEPT ![p] = IF @ = "running" THEN "interrupted" ELSE @]
    /\ mgr' = [mgr EXCEPT ![p] = "recv"]
    /\ UNCHANGED <<dbVars, runVars, ctxVars, acctOf, portOf, callerVars>>

(* Deliberately wrong: the process result is not awaited. *)
MgrReceive_NoWait(p) ==
    /\ mgr[p] \in {"select", "recv"}
    /\ mgr' = [mgr EXCEPT ![p] = "check"]
    /\ UNCHANGED <<dbVars, runVars, ctxVars, acctOf, portOf, os, callerVars>>

(* err = <-processResult, in the select or after the SIGINT. *)
MgrReceive(p) ==
    /\ mgr[p] \in {"select", "recv"}
    /\ os[p] = "exited"
    /\ mgr' = [mgr EXCEPT ![p] = "check"]
    /\ UNCHANGED <<dbVars, runVars, ctxVars, acctOf, portOf, os, callerVars>>

(* Deliberately wrong: the exit is never reported. *)
MgrCheck_Silent(p) ==
    /\ mgr[p] = "check"
    /\ mgr' = [mgr EXCEPT ![p] = "done"]
    /\ UNCHANGED <<dbVars, runVars, ctxVars, acctOf, portOf, os, callerVars>>

(* if pc.Context.Err() == nil: the send that follows is ProcessExit(p). *)
MgrCheck(p) ==
    /\ mgr[p] = "check"
    /\ mgr' = [mgr EXCEPT ![p] = IF innerDone THEN "done" ELSE "send"]
    /\ UNCHANGED <<dbVars, runVars, ctxVars, acctOf, portOf, os, callerVars>>

-----------------------------------------------------------------------------
(* The callers of the driver. *)

(* handleProxyToAccount has found the account and calls DoHTTPRequest. *)
ClientCall(c, a) ==
    /\ client[c].pc = "idle"
    /\ runState # "returned"
    /\ a \in accounts
    /\ client' = [client EXCEPT ![c] =
                    [pc |-> "sending", account |-> a, port |-> NoPort]]
    /\ UNCHANGED <<dbVars, runVars, ctxVars, procVars, polling>>

(* Deliberately wrong: no reply once a start has failed. *)
ClientGetPort_NoReply(c) ==
    /\ client[c].pc = "sending"
    /\ GetPort(client[c].account)
    /\ client' = IF ok'
                 THEN [client EXCEPT ![c] =
                        [pc |-> "dialing", account |-> client[c].account,
                         port |-> listenPorts'[client[c].account]]]
                 ELSE client
    /\ UNCHANGED polling

(* The request meets Run()'s select; the handler has its port. *)
ClientGetPort(c) ==
    /\ client[c].pc = "sending"
    /\ GetPort(client[c].account)
    /\ client' = [client EXCEPT ![c] =
                    [pc |-> "dialing", account |-> client[c].account,
                     port |-> listenPorts'[client[c].account]]]
    /\ UNCHANGED polling

(* http.DefaultClient.Do returns a response or an error. *)
ClientDone(c) ==
    /\ client[c].pc = "dialing"
    /\ client' = [client EXCEPT ![c] = IdleClient]
    /\ UNCHANGED <<dbVars, runVars, ctxVars, procVars, polling>>

(* SELECT * FROM accounts; a failing query leaves the list empty, which is  *)
(* no step.  The minute of sleep is the time until this step is taken.      *)
PollSelect ==
    /\ polling = {}
    /\ runState # "returned"
    /\ polling' = accounts
    /\ UNCHANGED <<dbVars, runVars, ctxVars, procVars, client>>

(* The poller's request, with a nil Result, meets Run()'s select. *)
PollSend(a) ==
    /\ a \in polling
    /\ GetPort(a)
    /\ polling' = polling \ {a}
    /\ UNCHANGED client

-----------------------------------------------------------------------------
Environment ==
    \/ \E a \in Accounts : CreateAccount(a)
    \/ Signal
    \/ PropagateCancel
    \/ \E p \in Pid : RegistryCrash(p) \/ RegistryObeys(p)

RunStep ==
    \/ \E p \in Pid : ProcessExit(p)
    \/ RunCtxDone
    \/ RunReturn

MgrStep(p) == MgrInterrupt(p) \/ MgrReceive(p) \/ MgrCheck(p)

CallerStep ==
    \/ \E c \in Clients, a \in Accounts : ClientCall(c, a)
    \/ \E c \in Clients : ClientGetPort(c) \/ ClientDone(c)
    \/ PollSelect
    \/ \E a \in Accounts : PollSend(a)

Next ==
    \/ Environment
    \/ RunStep
    \/ \E p \in Pid : MgrStep(p)
    \/ CallerStep

(* Goroutines that can run do run, a blocked sender is not starved by the   *)
(* select (Go chooses among ready cases at random and queues senders), an   *)
(* interrupted registry exits, and some query of the poller succeeds.       *)
(* Nothing makes a registry crash, a signal arrive or a request come in.    *)
Fairness ==
    /\ WF_vars(PropagateCancel)
    /\ WF_vars(RunCtxDone)
    /\ WF_vars(RunReturn)
    /\ WF_vars(PollSelect)
    /\ \A p \in Pid : /\ WF_vars(RegistryObeys(p))
                      /\ WF_vars(ProcessExit(p))
                      /\ WF_vars(MgrStep(p))
    /\ \A a \in Accounts : WF_vars(PollSend(a))
    /\ \A c \in Clients : WF_vars(ClientGetPort(c)) /\ WF_vars(ClientDone(c))

Spec     == Init /\ [][Next]_vars
FairSpec == Spec /\ Fairness

-----------------------------------------------------------------------------
(* Properties. *)

(* The type invariant of the driver's state (structs driver and             *)
(* processContext, the children and the callers).                           *)
TypeOK ==
    /\ accounts \subseteq Accounts
    /\ listenPorts \in [Accounts -> Port \cup {NoPort}]
    /\ nextListenPort \in Port
    /\ starts \in Nat
    /\ runState \in {"select", "waiting", "returned"}
    /\ ok \in BOOLEAN
    /\ ctxDone \in BOOLEAN
    /\ innerDone \in BOOLEAN
    /\ acctOf \in [Pid -> Accounts \cup {NoAccount}]
    /\ portOf \in [Pid -> Port \cup {NoPort}]
    /\ os \in [Pid -> {"unborn", "running", "interrupted", "exited"}]
    /\ mgr \in [Pid -> {"none", "select", "recv", "check", "send", "done"}]
    /\ client \in [Clients -> ClientStates]
    /\ polling \subseteq accounts

(* At most one keppel-registry process per account is alive at any time,    *)
(* whatever the order of crashes, exit messages, HTTP requests and polls    *)
(* that meet in Run()'s select.                                             *)
OneRegistryPerAccount ==
    \A p, q \in Pid :
        Alive(p) /\ Alive(q) /\ acctOf[p] = acctOf[q] => p = q

(* An exit message carries only an account name, and is late by an          *)
(* arbitrary time.  Still, as long as the observer of process p has not     *)
(* finished, the account's entry in listenPorts is p's own: the message     *)
(* cannot delete the entry of a successor of p.                             *)
ExitMessageIsCurrent ==
    \A p \in Pid : Managed(p) => listenPorts[acctOf[p]] = portOf[p]

(* Until innerCtx is cancelled, every entry of listenPorts belongs to a     *)
(* process whose exit will still be reported, so no account is stuck with   *)
(* the port of a dead registry.                                             *)
NoStaleEntry ==
    ~innerDone =>
        \A a \in Accounts : listenPorts[a] # NoPort =>
            \E p \in Pid : Managed(p) /\ acctOf[p] = a

(* nextListenPort has not wrapped around yet; afterwards it hands out port  *)
(* 0, privileged ports and ports that are possibly still in use.            *)
NoWrap == starts < PortModulus - FirstPort

(* Before the wrap-around a handler that holds a port, however old, never   *)
(* talks to another account's registry.                                     *)
RequestsReachOwnRegistry ==
    NoWrap =>
        \A c \in Clients, p \in Pid :
            /\ client[c].pc = "dialing"
            /\ Alive(p)
            /\ portOf[p] = client[c].port
            => acctOf[p] = client[c].account

(* When Run() returns, and with it keppel-api, no child process survives.   *)
NoOrphans == runState = "returned" => \A p \in Pid : ~Alive(p)

(* A step that removes or changes an account's port finds no living process *)
(* of that account: the entry of a living registry is never lost.           *)
NoEntryLostWhileAlive ==
    [][\A a \in Accounts, p \in Pid :
          /\ listenPorts[a] # NoPort
          /\ listenPorts'[a] # listenPorts[a]
          /\ acctOf[p] = a
          => ~Alive(p)]_vars

(* The driver as the abstract specification sees it: its children. *)
Serving == {<<acctOf[p], p>> : p \in {q \in Pid : Alive(q)}}
Started == {p \in Pid : os[p] # "unborn"}
Abstract == INSTANCE Registries WITH
    Processes <- Pid, serving <- Serving, used <- Started,
    closed <- (runState = "returned")

(* The driver implements what Registries promises: seen from outside, every *)
(* step of its goroutines is the start of a fresh registry for an account   *)
(* that has none, the exit of one registry, the return of Run() with no     *)
(* registry left, or nothing.                                               *)
ImplementsRegistries == Abstract!AbsSpec

(* Every account in the database gets a registry, and gets a new one after  *)
(* every crash, unless the driver is shutting down.                         *)
EveryAccountGetsRegistry ==
    \A a \in Accounts :
        a \in accounts ~>
            \/ innerDone
            \/ \E p \in Pid : os[p] = "running" /\ acctOf[p] = a

(* Once innerCtx is cancelled every living registry, also one that is       *)
(* started after the cancellation, exits.                                   *)
CancelStopsRegistries ==
    \A p \in Pid : innerDone /\ Alive(p) ~> ~Alive(p)

(* A handler that asks for a port gets one, also when the registry cannot   *)
(* be started, unless keppel-api was told to shut down.  (That Run() is     *)
(* still there to answer after a failed start is not what the comments say, *)
(* see FatalErrorEndsRun.)                                                  *)
RequestsAnswered ==
    \A c \in Clients :
        client[c].pc = "sending" ~> client[c].pc # "sending" \/ ctxDone

(* src/pkg/keppel/orchestration_driver.go:42 says that Run() blocks "until  *)
(* the context expires or a fatal error is encountered", and                *)
(* orchestration.go:131 calls a failed start a fatal error.  Run() cancels  *)
(* innerCtx only and goes on with its loop: this is violated.               *)
FatalErrorEndsRun == ~ok ~> runState = "returned"

(* orchestration.go:99-102 says that when the original context expires the  *)
(* goroutines shut down all registries, and the main loop unblocks and      *)
(* returns.                                                                 *)
ShutdownCompletes == ctxDone ~> runState = "returned"
=============================================================================

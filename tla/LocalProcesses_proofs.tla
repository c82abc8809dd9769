----------------------- MODULE LocalProcesses_proofs -----------------------
(***************************************************************************)
(* Proofs about the local-processes orchestration driver, for any number   *)
(* of accounts, HTTP handlers, child processes and crashes.                *)
(***************************************************************************)
EXTENDS LocalProcesses, TLAPS

(* Port request, seen from the callers: the entry it leaves is a real port. *)
LEMMA NextPortType ==
    ASSUME TypeOK PROVE NextPort \in Port /\ NextPort # NoPort
  BY ConstantsAssumption DEF TypeOK, NextPort, Port, NoPort

(* What serving a port request leaves in the driver's variables is typed,   *)
(* and the requested account has a port afterwards.                         *)
LEMMA GetPortType ==
    ASSUME TypeOK, NEW a \in Accounts, GetPort(a)
    PROVE  /\ listenPorts' \in [Accounts -> Port \cup {NoPort}]
           /\ listenPorts'[a] \in Port
           /\ nextListenPort' \in Port
           /\ starts' \in Nat
           /\ runState' = runState
           /\ accounts' = accounts
           /\ ctxDone' = ctxDone
           /\ ok' \in BOOLEAN
           /\ innerDone' \in BOOLEAN
           /\ acctOf' \in [Pid -> Accounts \cup {NoAccount}]
           /\ portOf' \in [Pid -> Port \cup {NoPort}]
           /\ os' \in [Pid -> {"unborn", "running", "interrupted", "exited"}]
           /\ mgr' \in [Pid -> {"none", "select", "recv", "check", "send",
                                "done"}]
  <1>0. UNCHANGED <<accounts, runState, ctxDone>>
    BY DEF GetPort, dbVars
  <1>1. CASE listenPorts[a] # NoPort /\ UNCHANGED <<listenPorts,
                nextListenPort, starts, ok, innerDone, procVars>>
    BY <1>0, <1>1 DEF TypeOK, procVars
  <1>2. CASE /\ nextListenPort' = NextPort
             /\ starts' = starts + 1
             /\ StartRegistry(a, NextPort)
             /\ listenPorts' = [listenPorts EXCEPT ![a] = NextPort]
    BY <1>0, <1>2, NextPortType DEF TypeOK, StartRegistry
  <1>3. CASE /\ nextListenPort' = NextPort
             /\ starts' = starts + 1
             /\ StartFails
             /\ listenPorts' = [listenPorts EXCEPT ![a] = NextPort]
    <2>1. ok' \in BOOLEAN /\ innerDone' \in BOOLEAN
      BY <1>3, Zenon DEF StartFails
    <2>2. UNCHANGED <<acctOf, portOf, os, mgr>>
      BY <1>3 DEF StartFails, procVars
    <2> QED BY <1>0, <1>3, <2>1, <2>2, NextPortType DEF TypeOK
  <1> QED BY <1>1, <1>2, <1>3 DEF GetPort

(* Every step keeps the driver's variables typed. *)
LEMMA TypeInvariance ==
    ASSUME TypeOK, [Next]_vars PROVE TypeOK'
  <1> USE DEF TypeOK
  <1>1. ASSUME NEW a \in Accounts, CreateAccount(a) PROVE TypeOK'
    BY <1>1 DEF CreateAccount, runVars, ctxVars, procVars, callerVars
  <1>2. CASE Signal
    BY <1>2 DEF Signal, dbVars, runVars, procVars, callerVars
  <1>3. CASE PropagateCancel
    BY <1>3 DEF PropagateCancel, dbVars, runVars, procVars, callerVars
  <1>4. ASSUME NEW p \in Pid, RegistryCrash(p) \/ RegistryObeys(p)
        PROVE  TypeOK'
    BY <1>4 DEF RegistryCrash, RegistryObeys, dbVars, runVars, ctxVars,
                callerVars
  <1>5. ASSUME NEW p \in Pid, ProcessExit(p) PROVE TypeOK'
    BY <1>5 DEF ProcessExit, dbVars, ctxVars, callerVars
  <1>6. CASE RunCtxDone
    BY <1>6 DEF RunCtxDone, dbVars, procVars, callerVars
  <1>7. CASE RunReturn
    BY <1>7 DEF RunReturn, dbVars, ctxVars, procVars, callerVars
  <1>8. ASSUME NEW p \in Pid, MgrStep(p) PROVE TypeOK'
    BY <1>8 DEF MgrStep, MgrInterrupt, MgrReceive, MgrCheck, dbVars, runVars,
                ctxVars, callerVars
  <1>9. ASSUME NEW c \in Clients, NEW a \in Accounts, ClientCall(c, a)
        PROVE  TypeOK'
    BY <1>9 DEF ClientCall, ClientStates, dbVars, runVars, ctxVars, procVars
  <1>10. ASSUME NEW c \in Clients, ClientGetPort(c) PROVE TypeOK'
    <2>1. client[c].account \in Accounts
      BY <1>10 DEF ClientGetPort, ClientStates, IdleClient
    <2>2. client' \in [Clients -> ClientStates]
      BY <1>10, <2>1, GetPortType DEF ClientGetPort, ClientStates
    <2> QED BY <1>10, <2>1, <2>2, GetPortType DEF ClientGetPort
  <1>11. ASSUME NEW c \in Clients, ClientDone(c) PROVE TypeOK'
    BY <1>11 DEF ClientDone, ClientStates, dbVars, runVars, ctxVars, procVars
  <1>12. CASE PollSelect
    BY <1>12 DEF PollSelect, dbVars, runVars, ctxVars, procVars
  <1>13. ASSUME NEW a \in Accounts, PollSend(a) PROVE TypeOK'
    <2>1. polling' \subseteq accounts
      BY <1>13 DEF PollSend
    <2> QED BY <1>13, <2>1, GetPortType DEF PollSend
  <1>14. CASE UNCHANGED vars
    BY <1>14 DEF vars
  <1> QED
    BY <1>1, <1>2, <1>3, <1>4, <1>5, <1>6, <1>7, <1>8, <1>9, <1>10, <1>11,
       <1>12, <1>13, <1>14 DEF Next, Environment, RunStep, CallerStep

(* The driver's state is always well typed; in particular nextListenPort    *)
(* stays a uint16 and a handler that has an answer holds a real port.       *)
THEOREM TypeCorrect == Spec => []TypeOK
  <1>1. Init => TypeOK
    <2> SUFFICES ASSUME Init PROVE TypeOK
      OBVIOUS
    <2>1. ok \in BOOLEAN /\ ctxDone \in BOOLEAN /\ innerDone \in BOOLEAN
      BY Zenon DEF Init
    <2>2. nextListenPort \in Port /\ starts \in Nat
      BY ConstantsAssumption DEF Init, Port
    <2>3. client \in [Clients -> ClientStates]
      BY DEF Init, ClientStates
    <2>4. accounts \subseteq Accounts /\ polling \subseteq accounts
      BY DEF Init
    <2> QED BY <2>1, <2>2, <2>3, <2>4 DEF Init, TypeOK
  <1> QED BY <1>1, TypeInvariance, PTL DEF Spec

-----------------------------------------------------------------------------
(* The inductive invariant behind the safety properties. *)

(* The goroutines of a process and the process itself move in step: the     *)
(* observer passes its receive only when the process is gone.               *)
ObserverInv ==
    \A p \in Pid :
        /\ mgr[p] = "none" <=> os[p] = "unborn"
        /\ mgr[p] \in {"check", "send", "done"} => os[p] = "exited"
        /\ mgr[p] # "none" => acctOf[p] \in Accounts /\ portOf[p] \in Port

(* No account has two processes under observation. *)
OneObserver ==
    \A p, q \in Pid :
        Managed(p) /\ Managed(q) /\ acctOf[p] = acctOf[q] => p = q

(* Run() has returned only after the WaitGroup went to zero. *)
WaitedInv == runState = "returned" => \A p \in Pid : ~Managed(p)

(* Up to the wrap-around, ports are handed out in increasing order, so the  *)
(* port of an account or of a handler is that account's alone.              *)
PortInv ==
    NoWrap =>
        /\ nextListenPort = FirstPort + starts
        /\ \A a \in Accounts : listenPorts[a] <= nextListenPort
        /\ \A p \in Pid : portOf[p] <= nextListenPort
        /\ \A c \in Clients : client[c].port <= nextListenPort
        /\ \A a \in Accounts, p \in Pid :
              mgr[p] # "none" /\ listenPorts[a] = portOf[p] => acctOf[p] = a
        /\ \A c \in Clients, p \in Pid :
              /\ client[c].pc = "dialing"
              /\ mgr[p] # "none"
              /\ portOf[p] = client[c].port
              => acctOf[p] = client[c].account

ProcInv ==
    /\ ObserverInv
    /\ OneObserver
    /\ ExitMessageIsCurrent
    /\ NoStaleEntry
    /\ WaitedInv

IInv == TypeOK /\ ProcInv /\ PortInv

(* Serving a port request keeps the bookkeeping of processes right: a       *)
(* process is started only for an account that has no observed process.     *)
LEMMA GetPortProc ==
    ASSUME TypeOK, ProcInv, NEW a \in Accounts, GetPort(a)
    PROVE  ProcInv'
  <1> USE DEF ProcInv
  <1>0. runState = "select" /\ runState' = "select"
    BY DEF GetPort
  <1>1. CASE UNCHANGED <<listenPorts, nextListenPort, starts, ok, innerDone,
                         procVars>>
    BY <1>0, <1>1 DEF procVars, ObserverInv, OneObserver, NoStaleEntry,
       ExitMessageIsCurrent, WaitedInv, Managed
  <1>2. CASE /\ listenPorts[a] = NoPort
             /\ StartRegistry(a, NextPort)
             /\ listenPorts' = [listenPorts EXCEPT ![a] = NextPort]
    <2>1. PICK p \in Pid : /\ os[p] = "unborn"
                           /\ os' = [os EXCEPT ![p] = "running"]
                           /\ mgr' = [mgr EXCEPT ![p] = "select"]
                           /\ acctOf' = [acctOf EXCEPT ![p] = a]
                           /\ portOf' = [portOf EXCEPT ![p] = NextPort]
                           /\ innerDone' = innerDone
      BY <1>2 DEF StartRegistry
    <2>2. \A q \in Pid : Managed(q) => acctOf[q] # a
      BY <1>2 DEF ExitMessageIsCurrent, ObserverInv, Managed, Port, NoPort
    <2>3. \A q \in Pid : Managed(q)' <=> (q = p \/ Managed(q))
      BY <2>1 DEF Managed, TypeOK
    <2>4. ObserverInv'
      BY <2>1, NextPortType DEF ObserverInv, TypeOK
    <2>5. OneObserver'
      BY <2>1, <2>2, <2>3 DEF OneObserver, TypeOK
    <2>6. ExitMessageIsCurrent'
      BY <1>2, <2>1, <2>2, <2>3 DEF ExitMessageIsCurrent, TypeOK, ObserverInv,
         Managed
    <2>7. NoStaleEntry'
      BY <1>2, <2>1, <2>3 DEF NoStaleEntry, TypeOK, ObserverInv, Managed
    <2>8. WaitedInv'
      BY <1>0 DEF WaitedInv
    <2> QED BY <2>4, <2>5, <2>6, <2>7, <2>8
  <1>3. CASE /\ listenPorts[a] = NoPort
             /\ StartFails
             /\ listenPorts' = [listenPorts EXCEPT ![a] = NextPort]
    <2>1. innerDone' /\ UNCHANGED <<acctOf, portOf, os, mgr>>
      BY <1>3 DEF StartFails, procVars
    <2>2. ExitMessageIsCurrent'
      BY <1>3, <2>1 DEF ExitMessageIsCurrent, TypeOK, ObserverInv, Managed,
         Port, NoPort
    <2> QED BY <1>0, <2>1, <2>2 DEF ObserverInv, OneObserver, NoStaleEntry,
           WaitedInv, Managed
  <1> QED BY <1>1, <1>2, <1>3 DEF GetPort

(* Every step keeps the bookkeeping of processes and observers right. *)
LEMMA ProcInvariance ==
    ASSUME TypeOK, ProcInv, [Next]_vars PROVE ProcInv'
  <1> USE DEF ProcInv
  <1>1. CASE UNCHANGED <<runState, listenPorts, innerDone, procVars>>
    BY <1>1 DEF procVars, ObserverInv, OneObserver, NoStaleEntry,
       ExitMessageIsCurrent, WaitedInv, Managed
  <1>2. ASSUME NEW a \in Accounts, CreateAccount(a) PROVE ProcInv'
    BY <1>1, <1>2 DEF CreateAccount, runVars, ctxVars
  <1>3. CASE Signal
    BY <1>1, <1>3 DEF Signal, runVars
  <1>4. CASE PropagateCancel
    BY <1>4 DEF PropagateCancel, runVars, procVars, ObserverInv, OneObserver,
       NoStaleEntry, ExitMessageIsCurrent, WaitedInv, Managed
  <1>5. ASSUME NEW p \in Pid, RegistryCrash(p) \/ RegistryObeys(p)
        PROVE  ProcInv'
    <2>1. /\ UNCHANGED <<runState, listenPorts, innerDone, acctOf, portOf,
                         mgr>>
          /\ os[p] \in {"running", "interrupted"}
          /\ os' = [os EXCEPT ![p] = "exited"]
      BY <1>5 DEF RegistryCrash, RegistryObeys, runVars, ctxVars
    <2>2. ObserverInv'
      BY <2>1 DEF ObserverInv, TypeOK
    <2> QED BY <2>1, <2>2 DEF OneObserver, NoStaleEntry, ExitMessageIsCurrent,
           WaitedInv, Managed
  <1>6. ASSUME NEW p \in Pid, ProcessExit(p) PROVE ProcInv'
    <2>1. /\ runState = "select" /\ mgr[p] = "send"
          /\ UNCHANGED <<runState, innerDone, acctOf, portOf, os>>
          /\ mgr' = [mgr EXCEPT ![p] = "done"]
          /\ listenPorts' = [listenPorts EXCEPT ![acctOf[p]] = NoPort]
      BY <1>6 DEF ProcessExit, ctxVars
    <2>2. \A q \in Pid : Managed(q)' <=> (q # p /\ Managed(q))
      BY <2>1 DEF Managed, TypeOK
    <2>3. \A q \in Pid : q # p /\ Managed(q) => acctOf[q] # acctOf[p]
      BY <2>1 DEF OneObserver, Managed
    <2>4. ObserverInv'
      BY <2>1 DEF ObserverInv, TypeOK
    <2>5. OneObserver'
      BY <2>1, <2>2 DEF OneObserver
    <2>6. ExitMessageIsCurrent'
      BY <2>1, <2>2, <2>3 DEF ExitMessageIsCurrent, TypeOK, ObserverInv,
         Managed
    <2>7. NoStaleEntry'
      BY <2>1, <2>2 DEF NoStaleEntry, TypeOK, ObserverInv
    <2>8. WaitedInv'
      BY <2>1 DEF WaitedInv
    <2> QED BY <2>4, <2>5, <2>6, <2>7, <2>8
  <1>7. CASE RunCtxDone
    BY <1>7 DEF RunCtxDone, procVars, ObserverInv, OneObserver, NoStaleEntry,
       ExitMessageIsCurrent, WaitedInv, Managed
  <1>8. CASE RunReturn
    BY <1>8 DEF RunReturn, ctxVars, procVars, ObserverInv, OneObserver,
       NoStaleEntry, ExitMessageIsCurrent, WaitedInv, Managed
  <1>9. ASSUME NEW p \in Pid, MgrInterrupt(p) PROVE ProcInv'
    <2>1. /\ UNCHANGED <<runState, listenPorts, innerDone, acctOf, portOf>>
          /\ mgr[p] = "select"
          /\ mgr' = [mgr EXCEPT ![p] = "recv"]
          /\ os' = [os EXCEPT ![p] =
                      IF os[p] = "running" THEN "interrupted" ELSE os[p]]
      BY <1>9 DEF MgrInterrupt, runVars, ctxVars
    <2>2. \A q \in Pid : Managed(q)' <=> Managed(q)
      BY <2>1 DEF Managed, TypeOK
    <2>3. ObserverInv'
      BY <2>1 DEF ObserverInv, TypeOK
    <2> QED BY <2>1, <2>2, <2>3 DEF OneObserver, NoStaleEntry,
           ExitMessageIsCurrent, WaitedInv
  <1>10. ASSUME NEW p \in Pid, MgrReceive(p) PROVE ProcInv'
    <2>1. /\ UNCHANGED <<runState, listenPorts, innerDone, acctOf, portOf, os>>
          /\ mgr[p] \in {"select", "recv"} /\ os[p] = "exited"
          /\ mgr' = [mgr EXCEPT ![p] = "check"]
      BY <1>10 DEF MgrReceive, runVars, ctxVars
    <2>2. \A q \in Pid : Managed(q)' <=> Managed(q)
      BY <2>1 DEF Managed, TypeOK
    <2>3. ObserverInv'
      BY <2>1 DEF ObserverInv, TypeOK
    <2> QED BY <2>1, <2>2, <2>3 DEF OneObserver, NoStaleEntry,
           ExitMessageIsCurrent, WaitedInv
  <1>11. ASSUME NEW p \in Pid, MgrCheck(p) PROVE ProcInv'
    <2>1. /\ UNCHANGED <<runState, listenPorts, innerDone, acctOf, portOf, os>>
          /\ mgr[p] = "check"
          /\ mgr' = [mgr EXCEPT ![p] = IF innerDone THEN "done" ELSE "send"]
      BY <1>11 DEF MgrCheck, runVars, ctxVars
    <2>2. \A q \in Pid : Managed(q)' => Managed(q)
      BY <2>1 DEF Managed, TypeOK
    <2>3. ~innerDone => \A q \in Pid : Managed(q) => Managed(q)'
      BY <2>1 DEF Managed, TypeOK
    <2>4. ObserverInv'
      BY <2>1 DEF ObserverInv, TypeOK
    <2> QED BY <2>1, <2>2, <2>3, <2>4 DEF OneObserver, NoStaleEntry,
           ExitMessageIsCurrent, WaitedInv
  <1>12. ASSUME NEW c \in Clients, NEW a \in Accounts, ClientCall(c, a)
         PROVE  ProcInv'
    BY <1>1, <1>12 DEF ClientCall, runVars, ctxVars
  <1>13. ASSUME NEW c \in Clients, ClientGetPort(c) PROVE ProcInv'
    <2>1. client[c].account \in Accounts
      BY <1>13 DEF ClientGetPort, TypeOK, ClientStates, IdleClient
    <2> QED BY <1>13, <2>1, GetPortProc DEF ClientGetPort
  <1>14. ASSUME NEW c \in Clients, ClientDone(c) PROVE ProcInv'
    BY <1>1, <1>14 DEF ClientDone, runVars, ctxVars
  <1>15. CASE PollSelect
    BY <1>1, <1>15 DEF PollSelect, runVars, ctxVars
  <1>16. ASSUME NEW a \in Accounts, PollSend(a) PROVE ProcInv'
    BY <1>16, GetPortProc DEF PollSend
  <1>17. CASE UNCHANGED vars
    BY <1>1, <1>17 DEF vars, procVars
  <1> QED
    BY <1>2, <1>3, <1>4, <1>5, <1>6, <1>7, <1>8, <1>9, <1>10, <1>11, <1>12,
       <1>13, <1>14, <1>15, <1>16, <1>17
       DEF Next, Environment, RunStep, MgrStep, CallerStep

(* A port request hands out a port above all earlier ones, or the port that *)
(* the account has already.                                                 *)
LEMMA GetPortPorts ==
    ASSUME TypeOK, ProcInv, PortInv, NEW a \in Accounts, GetPort(a), NoWrap'
    PROVE  /\ nextListenPort' = FirstPort + starts'
           /\ nextListenPort <= nextListenPort'
           /\ \A b \in Accounts : listenPorts'[b] <= nextListenPort'
           /\ \A p \in Pid : portOf'[p] <= nextListenPort'
           /\ \A b \in Accounts, p \in Pid :
                 mgr'[p] # "none" /\ listenPorts'[b] = portOf'[p]
                 => acctOf'[p] = b
           /\ \A p \in Pid : mgr'[p] # "none" =>
                 \/ mgr[p] # "none" /\ UNCHANGED <<acctOf[p], portOf[p]>>
                 \/ portOf'[p] > nextListenPort
           /\ NoWrap
  <1>1. CASE /\ listenPorts[a] # NoPort
             /\ UNCHANGED <<listenPorts, nextListenPort, starts, ok, innerDone,
                            procVars>>
    BY <1>1 DEF PortInv, NoWrap, procVars, TypeOK, Port
  <1>2. ASSUME nextListenPort' = NextPort, starts' = starts + 1,
               listenPorts' = [listenPorts EXCEPT ![a] = NextPort]
        PROVE  /\ NoWrap
               /\ nextListenPort' = nextListenPort + 1
               /\ NextPort = nextListenPort + 1
               /\ nextListenPort' = FirstPort + starts'
               /\ \A b \in Accounts : listenPorts'[b] <= nextListenPort'
               /\ \A b \in Accounts :
                     \/ b # a /\ listenPorts'[b] = listenPorts[b]
                     \/ b = a /\ listenPorts'[b] = nextListenPort + 1
    <2>1. NoWrap
      BY <1>2, ConstantsAssumption DEF NoWrap, TypeOK
    <2>2. NextPort = nextListenPort + 1
      BY <1>2, <2>1, ConstantsAssumption DEF NoWrap, PortInv, NextPort, TypeOK
    <2> QED
      BY <1>2, <2>1, <2>2, ConstantsAssumption DEF PortInv, TypeOK, Port,
         NoPort
  <1>3. CASE /\ nextListenPort' = NextPort /\ starts' = starts + 1
             /\ StartRegistry(a, NextPort)
             /\ listenPorts' = [listenPorts EXCEPT ![a] = NextPort]
    <2>1. PICK p \in Pid : /\ os[p] = "unborn"
                           /\ mgr' = [mgr EXCEPT ![p] = "select"]
                           /\ acctOf' = [acctOf EXCEPT ![p] = a]
                           /\ portOf' = [portOf EXCEPT ![p] = NextPort]
      BY <1>3 DEF StartRegistry
    <2>2. mgr[p] = "none"
      BY <2>1 DEF ProcInv, ObserverInv
    <2>3. \A q \in Pid :
            \/ q = p /\ acctOf'[q] = a /\ portOf'[q] = nextListenPort + 1
            \/ /\ q # p
               /\ UNCHANGED <<acctOf[q], portOf[q], mgr[q]>>
      BY <1>2, <1>3, <2>1 DEF TypeOK
    <2>4. \A q \in Pid : portOf'[q] <= nextListenPort'
      BY <1>2, <1>3, <2>3 DEF PortInv, TypeOK, Port, NoPort
    <2>5. \A b \in Accounts, q \in Pid :
             mgr'[q] # "none" /\ listenPorts'[b] = portOf'[q]
             => acctOf'[q] = b
      BY <1>2, <1>3, <2>3, ConstantsAssumption DEF PortInv, TypeOK, Port, NoPort
    <2>6. nextListenPort \in Nat
      BY DEF TypeOK, Port
    <2> QED BY <1>2, <1>3, <2>3, <2>4, <2>5, <2>6
  <1>4. CASE /\ nextListenPort' = NextPort /\ starts' = starts + 1
             /\ StartFails
             /\ listenPorts' = [listenPorts EXCEPT ![a] = NextPort]
    <2>1. UNCHANGED <<acctOf, portOf, mgr>>
      BY <1>4 DEF StartFails, procVars
    <2>2. nextListenPort \in Nat
      BY DEF TypeOK, Port
    <2>3. \A q \in Pid : portOf[q] \in Int /\ portOf[q] <= nextListenPort
      BY <1>2, <1>4 DEF PortInv, TypeOK, Port, NoPort
    <2>4. \A b \in Accounts, q \in Pid :
             mgr[q] # "none" /\ listenPorts'[b] = portOf[q] => acctOf[q] = b
      BY <1>2, <1>4, <2>2, <2>3 DEF PortInv
    <2> QED BY <1>2, <1>4, <2>1, <2>2, <2>3, <2>4
  <1> QED BY <1>1, <1>3, <1>4 DEF GetPort

(* Every step keeps the ports of accounts apart until the counter wraps. *)
LEMMA PortInvariance ==
    ASSUME TypeOK, ProcInv, PortInv, [Next]_vars PROVE PortInv'
  <1>0. ASSUME UNCHANGED <<nextListenPort, starts, acctOf, portOf>>,
               \A p \in Pid : mgr'[p] # "none" => mgr[p] # "none",
               \A b \in Accounts : listenPorts'[b] \in {listenPorts[b], NoPort},
               \A c \in Clients : client'[c] \in {client[c], IdleClient}
        PROVE  PortInv'
    <2> SUFFICES ASSUME NoWrap PROVE PortInv'
      BY <1>0 DEF PortInv, NoWrap
    <2>1. \A p \in Pid : mgr[p] # "none" => portOf[p] \in Port
      BY DEF ProcInv, ObserverInv
    <2>2. \A b \in Accounts, p \in Pid :
            mgr'[p] # "none" /\ listenPorts'[b] = portOf[p] => acctOf[p] = b
      BY <1>0, <2>1 DEF PortInv, Port, NoPort
    <2>3. \A c \in Clients : client'[c].port <= nextListenPort
      BY <1>0 DEF PortInv, IdleClient, NoPort, TypeOK, Port
    <2>4. \A b \in Accounts : listenPorts'[b] <= nextListenPort
      BY <1>0 DEF PortInv, NoPort, TypeOK, Port
    <2>5. \A c \in Clients, p \in Pid :
              /\ client'[c].pc = "dialing"
              /\ mgr'[p] # "none"
              /\ portOf[p] = client'[c].port
              => acctOf[p] = client'[c].account
      BY <1>0 DEF PortInv, IdleClient
    <2> QED BY <1>0, <2>2, <2>3, <2>4, <2>5 DEF PortInv, NoWrap
  <1>1. CASE UNCHANGED <<nextListenPort, starts, acctOf, portOf, mgr, client,
                         listenPorts>>
    BY <1>0, <1>1
  <1>2. CASE Environment
    BY <1>1, <1>2 DEF Environment, CreateAccount, Signal, PropagateCancel,
       RegistryCrash, RegistryObeys, runVars, procVars, callerVars
  <1>3. ASSUME NEW p \in Pid, ProcessExit(p) PROVE PortInv'
    BY <1>0, <1>3 DEF ProcessExit, callerVars, TypeOK
  <1>4. CASE RunCtxDone \/ RunReturn
    BY <1>1, <1>4 DEF RunCtxDone, RunReturn, procVars, callerVars
  <1>5. ASSUME NEW p \in Pid, MgrStep(p) PROVE PortInv'
    BY <1>0, <1>5 DEF MgrStep, MgrInterrupt, MgrReceive, MgrCheck, runVars,
       callerVars, TypeOK
  <1>6. ASSUME NEW c \in Clients, NEW a \in Accounts, ClientCall(c, a)
        PROVE  PortInv'
    <2>1. /\ UNCHANGED <<nextListenPort, starts, acctOf, portOf, mgr,
                         listenPorts>>
          /\ client' = [client EXCEPT ![c] =
                    [pc |-> "sending", account |-> a, port |-> NoPort]]
      BY <1>6 DEF ClientCall, runVars, procVars
    <2>2. \A d \in Clients :
            \/ client'[d] = client[d]
            \/ client'[d] = [pc |-> "sending", account |-> a, port |-> NoPort]
      BY <2>1 DEF TypeOK
    <2>3. NoPort <= nextListenPort
      BY DEF TypeOK, Port, NoPort
    <2> QED BY <2>1, <2>2, <2>3 DEF PortInv, NoWrap
  <1>7. ASSUME NEW c \in Clients, ClientGetPort(c) PROVE PortInv'
    <2> SUFFICES ASSUME NoWrap' PROVE PortInv'
      BY DEF PortInv
    <2> DEFINE a == client[c].account
    <2>1. a \in Accounts
      BY <1>7 DEF ClientGetPort, TypeOK, ClientStates, IdleClient
    <2>2. GetPort(a)
      BY <1>7 DEF ClientGetPort
    <2>3. client' = [client EXCEPT ![c] = [pc |-> "dialing", account |-> a,
                                           port |-> listenPorts'[a]]]
      BY <1>7 DEF ClientGetPort
    <2> HIDE DEF a
    <2>4. \A d \in Clients :
            \/ client'[d] = client[d]
            \/ client'[d] = [pc |-> "dialing", account |-> a,
                             port |-> listenPorts'[a]]
      BY <2>3 DEF TypeOK
    <2>5. \A d \in Clients : client[d].port \in Int
      BY DEF TypeOK, ClientStates, IdleClient, Port, NoPort
    <2>6. nextListenPort \in Nat /\ nextListenPort' \in Nat
      BY <2>1, <2>2, GetPortType DEF TypeOK, Port
    <2>7. \A d \in Clients : client[d].port <= nextListenPort
      BY <2>1, <2>2, GetPortPorts DEF PortInv
    <2>8. \A d \in Clients : client'[d].port <= nextListenPort'
      BY <2>1, <2>2, <2>4, <2>5, <2>6, <2>7, GetPortPorts
    <2>9. \A p \in Pid : portOf'[p] \in Int
      BY <2>1, <2>2, GetPortType DEF Port, NoPort
    <2>10. ASSUME NEW d \in Clients, NEW p \in Pid,
                  client'[d].pc = "dialing", mgr'[p] # "none",
                  portOf'[p] = client'[d].port
           PROVE  acctOf'[p] = client'[d].account
      <3>1. CASE client'[d] = client[d]
        <4>1. portOf'[p] <= nextListenPort
          BY <2>7, <2>10, <3>1
        <4>2. mgr[p] # "none" /\ UNCHANGED <<acctOf[p], portOf[p]>>
          BY <2>1, <2>2, <2>6, <2>9, <2>10, <4>1, GetPortPorts
        <4>3. NoWrap
          BY <2>1, <2>2, GetPortPorts
        <4> QED BY <2>10, <3>1, <4>2, <4>3 DEF PortInv
      <3>2. CASE client'[d] = [pc |-> "dialing", account |-> a,
                               port |-> listenPorts'[a]]
        BY <2>1, <2>2, <2>10, <3>2, GetPortPorts
      <3> QED BY <2>4, <3>1, <3>2
    <2> QED BY <2>1, <2>2, <2>8, <2>10, GetPortPorts DEF PortInv
  <1>8. ASSUME NEW c \in Clients, ClientDone(c) PROVE PortInv'
    BY <1>0, <1>8 DEF ClientDone, runVars, procVars, TypeOK
  <1>9. CASE PollSelect
    BY <1>1, <1>9 DEF PollSelect, runVars, procVars
  <1>10. ASSUME NEW a \in Accounts, PollSend(a) PROVE PortInv'
    <2> SUFFICES ASSUME NoWrap' PROVE PortInv'
      BY DEF PortInv
    <2>1. GetPort(a) /\ client' = client
      BY <1>10 DEF PollSend
    <2>2. \A d \in Clients : client[d].port \in Int
      BY DEF TypeOK, ClientStates, IdleClient, Port, NoPort
    <2>3. nextListenPort \in Nat /\ nextListenPort' \in Nat
      BY <2>1, GetPortType DEF TypeOK, Port
    <2>4. \A d \in Clients : client[d].port <= nextListenPort
      BY <2>1, GetPortPorts DEF PortInv
    <2>5. \A d \in Clients : client[d].port <= nextListenPort'
      BY <2>1, <2>2, <2>3, <2>4, GetPortPorts
    <2>6. \A p \in Pid : portOf'[p] \in Int
      BY <2>1, GetPortType DEF Port, NoPort
    <2>7. ASSUME NEW d \in Clients, NEW p \in Pid,
                 client[d].pc = "dialing", mgr'[p] # "none",
                 portOf'[p] = client[d].port
          PROVE  acctOf'[p] = client[d].account
      <3>1. mgr[p] # "none" /\ UNCHANGED <<acctOf[p], portOf[p]>>
        BY <2>1, <2>3, <2>4, <2>6, <2>7, GetPortPorts
      <3>2. NoWrap
        BY <2>1, GetPortPorts
      <3> QED BY <2>7, <3>1, <3>2 DEF PortInv
    <2> QED BY <2>1, <2>5, <2>7, GetPortPorts DEF PortInv
  <1>11. CASE UNCHANGED vars
    BY <1>1, <1>11 DEF vars
  <1> QED
    BY <1>2, <1>3, <1>4, <1>5, <1>6, <1>7, <1>8, <1>9, <1>10, <1>11
       DEF Next, RunStep, CallerStep

-----------------------------------------------------------------------------
(* The inductive invariant holds: the bookkeeping of Run(), its observers   *)
(* and its callers agree in every reachable state.                          *)
THEOREM IInvCorrect == Spec => []IInv
  <1>1. Init => ProcInv /\ PortInv
    BY ConstantsAssumption DEF Init, ProcInv, ObserverInv, OneObserver,
       ExitMessageIsCurrent, NoStaleEntry, WaitedInv, PortInv, Managed, NoWrap,
       NoPort, IdleClient
  <1>2. IInv /\ [Next]_vars => IInv'
    BY TypeInvariance, ProcInvariance, PortInvariance DEF IInv
  <1>3. Spec => []TypeOK
    BY TypeCorrect
  <1>4. TypeOK /\ ProcInv /\ PortInv => IInv
    BY DEF IInv
  <1> QED BY <1>1, <1>2, <1>3, <1>4, PTL DEF Spec

(* Run() never has two living keppel-registry processes for one account. *)
THEOREM OneRegistry == Spec => []OneRegistryPerAccount
  <1>1. IInv => OneRegistryPerAccount
    <2> SUFFICES ASSUME IInv, NEW p \in Pid, NEW q \in Pid, Alive(p), Alive(q),
                        acctOf[p] = acctOf[q]
                 PROVE  p = q
      BY DEF OneRegistryPerAccount
    <2>1. Managed(p) /\ Managed(q)
      BY DEF IInv, ProcInv, ObserverInv, TypeOK, Alive, Managed
    <2> QED BY <2>1 DEF IInv, ProcInv, OneObserver
  <1> QED BY <1>1, IInvCorrect, PTL

(* A late exit message never deletes the entry of a successor process.      *)
THEOREM Bookkeeping == Spec => []ExitMessageIsCurrent
  <1>1. IInv => ExitMessageIsCurrent
    BY DEF IInv, ProcInv
  <1> QED BY <1>1, IInvCorrect, PTL

(* Until a cancellation every entry of listenPorts belongs to a process     *)
(* whose observer will report its exit.                                     *)
THEOREM EntriesObserved == Spec => []NoStaleEntry
  <1>1. IInv => NoStaleEntry
    BY DEF IInv, ProcInv
  <1> QED BY <1>1, IInvCorrect, PTL

(* Until nextListenPort wraps around, a handler never talks to the registry *)
(* of an account other than the one it resolved.                            *)
THEOREM Routing == Spec => []RequestsReachOwnRegistry
  <1>1. IInv => RequestsReachOwnRegistry
    BY DEF IInv, ProcInv, ObserverInv, PortInv, RequestsReachOwnRegistry, Alive
  <1> QED BY <1>1, IInvCorrect, PTL

(* No registry process outlives Run(). *)
THEOREM NoOrphansLeft == Spec => []NoOrphans
  <1>1. IInv => NoOrphans
    BY DEF IInv, ProcInv, ObserverInv, WaitedInv, NoOrphans, Alive, Managed,
       TypeOK
  <1> QED BY <1>1, IInvCorrect, PTL

(* The entry of a living registry is never removed or replaced. *)
THEOREM EntriesOutlived == Spec => NoEntryLostWhileAlive
  <1> DEFINE A == \A a \in Accounts, p \in Pid :
                    /\ listenPorts[a] # NoPort
                    /\ listenPorts'[a] # listenPorts[a]
                    /\ acctOf[p] = a
                    => ~Alive(p)
  <1>1. IInv /\ [Next]_vars => [A]_vars
    <2> SUFFICES ASSUME IInv, Next, NEW a \in Accounts, NEW p \in Pid,
                        listenPorts[a] # NoPort,
                        listenPorts'[a] # listenPorts[a], acctOf[p] = a
                 PROVE  ~Alive(p)
      OBVIOUS
    <2>1. PICK q \in Pid : ProcessExit(q)
      <3>1. ASSUME NEW b \in Accounts, GetPort(b) PROVE FALSE
        BY <3>1 DEF GetPort, IInv, TypeOK
      <3>2. ASSUME NEW c \in Clients, ClientGetPort(c) PROVE FALSE
        <4>1. client[c].account \in Accounts
          BY <3>2 DEF ClientGetPort, IInv, TypeOK, ClientStates, IdleClient
        <4> QED BY <3>1, <3>2, <4>1 DEF ClientGetPort
      <3> QED
        BY <3>1, <3>2 DEF Next, Environment, RunStep, CallerStep, MgrStep,
           CreateAccount, Signal, PropagateCancel, RegistryCrash,
           RegistryObeys, RunCtxDone, RunReturn, MgrInterrupt, MgrReceive,
           MgrCheck, ClientCall, ClientDone, PollSelect, PollSend, runVars
    <2>2. mgr[q] = "send" /\ acctOf[q] = a
      BY <2>1 DEF ProcessExit, IInv, TypeOK
    <2>3. os[q] = "exited" /\ Managed(q)
      BY <2>2 DEF IInv, ProcInv, ObserverInv, Managed
    <2>4. Alive(p) => Managed(p)
      BY DEF IInv, ProcInv, ObserverInv, TypeOK, Alive, Managed
    <2> QED BY <2>2, <2>3, <2>4 DEF IInv, ProcInv, OneObserver, Alive
  <1> QED BY <1>1, IInvCorrect, PTL DEF Spec, NoEntryLostWhileAlive

-----------------------------------------------------------------------------
(* The refinement. *)

(* A step that leaves the children and Run()'s state alone is no step of    *)
(* the abstract specification.                                              *)
LEMMA Invisible ==
    ASSUME UNCHANGED <<acctOf, os, runState>>
    PROVE  UNCHANGED Abstract!absVars
  BY DEF Abstract!absVars, Serving, Started, Alive

(* A child that exits leaves the set of those that serve an account. *)
LEMMA ExitRefines ==
    ASSUME TypeOK, NEW p \in Pid, Alive(p),
           os' = [os EXCEPT ![p] = "exited"], UNCHANGED <<acctOf, runState>>
    PROVE  Abstract!AbsNext
  <1> DEFINE s == <<acctOf[p], p>>
  <1>1. s \in Serving
    BY DEF Serving
  <1>2. Serving' = Serving \ {s}
    BY DEF Serving, Alive, TypeOK
  <1>3. Started' = Started
    BY DEF Started, Alive, TypeOK
  <1>4. Abstract!Exit(s)
    BY <1>1, <1>2, <1>3 DEF Abstract!Exit
  <1> QED BY <1>1, <1>4 DEF Abstract!AbsNext

(* A port request starts a fresh process for an account without one, or     *)
(* changes nothing that can be seen.                                        *)
LEMMA GetPortRefines ==
    ASSUME IInv, NEW a \in Accounts, GetPort(a)
    PROVE  [Abstract!AbsNext]_(Abstract!absVars)
  <1>0. runState = "select" /\ UNCHANGED runState
    BY DEF GetPort
  <1>1. CASE UNCHANGED procVars
    BY <1>0, <1>1, Invisible DEF procVars
  <1>2. CASE listenPorts[a] = NoPort /\ StartRegistry(a, NextPort)
    <2>1. PICK p \in Pid : /\ os[p] = "unborn"
                           /\ os' = [os EXCEPT ![p] = "running"]
                           /\ acctOf' = [acctOf EXCEPT ![p] = a]
      BY <1>2 DEF StartRegistry
    <2>2. p \notin Started /\ Started' = Started \cup {p}
      BY <2>1 DEF Started, IInv, TypeOK
    <2>3. ASSUME NEW q \in Pid, Alive(q) PROVE acctOf[q] # a
      <3>1. Managed(q)
        BY <2>3 DEF IInv, ProcInv, ObserverInv, TypeOK, Alive, Managed
      <3>2. listenPorts[acctOf[q]] = portOf[q] /\ portOf[q] # NoPort
        BY <3>1, ConstantsAssumption DEF IInv, ProcInv, ObserverInv,
           ExitMessageIsCurrent, Managed, Port, NoPort
      <3> QED BY <1>2, <3>2
    <2>4. \A s \in Serving : s[1] # a
      BY <2>3 DEF Serving
    <2>5. Serving' = Serving \cup {<<a, p>>}
      BY <2>1 DEF Serving, Alive, IInv, TypeOK
    <2>6. Abstract!Start(a, p)
      BY <1>0, <2>2, <2>4, <2>5 DEF Abstract!Start
    <2> QED BY <2>6 DEF Abstract!AbsNext
  <1> QED BY <1>1, <1>2 DEF GetPort, StartFails

(* The goroutines of the local-processes driver implement the promise of    *)
(* the interface OrchestrationDriver as Registries states it.               *)
THEOREM Refinement == Spec => ImplementsRegistries
  <1>1. Init => Abstract!AbsInit
    BY DEF Init, Abstract!AbsInit, Serving, Started, Alive
  <1>2. IInv /\ [Next]_vars => [Abstract!AbsNext]_(Abstract!absVars)
    <2> SUFFICES ASSUME IInv, [Next]_vars
                 PROVE  [Abstract!AbsNext]_(Abstract!absVars)
      OBVIOUS
    <2>1. ASSUME NEW p \in Pid, RegistryCrash(p) \/ RegistryObeys(p)
          PROVE  Abstract!AbsNext
      <3>1. Alive(p) /\ UNCHANGED <<acctOf, runState>>
        BY <2>1 DEF RegistryCrash, RegistryObeys, Alive, runVars
      <3>2. os' = [os EXCEPT ![p] = "exited"]
        BY <2>1 DEF RegistryCrash, RegistryObeys
      <3> QED BY <3>1, <3>2, ExitRefines DEF IInv
    <2>2. CASE RunReturn
      <3>1. \A p \in Pid : ~Alive(p)
        BY <2>2 DEF RunReturn, IInv, ProcInv, ObserverInv, TypeOK, Alive,
                    Managed
      <3>2. Serving = {} /\ UNCHANGED <<Serving, Started>>
        BY <2>2, <3>1 DEF RunReturn, procVars, Serving, Started, Alive
      <3>3. Abstract!Close
        BY <2>2, <3>2 DEF RunReturn, Abstract!Close
      <3> QED BY <3>3 DEF Abstract!AbsNext
    <2>3. CASE RunCtxDone
      <3>1. UNCHANGED <<Serving, Started>>
        BY <2>3 DEF RunCtxDone, procVars, Serving, Started, Alive
      <3> QED BY <2>3, <3>1 DEF RunCtxDone, Abstract!absVars
    <2>4. ASSUME NEW p \in Pid, MgrInterrupt(p)
          PROVE  UNCHANGED Abstract!absVars
      <3>1. UNCHANGED <<acctOf, runState>>
        BY <2>4 DEF MgrInterrupt, runVars
      <3>2. \A q \in Pid : Alive(q)' <=> Alive(q)
        BY <2>4 DEF MgrInterrupt, Alive, IInv, TypeOK
      <3>3. \A q \in Pid : os'[q] = "unborn" <=> os[q] = "unborn"
        BY <2>4 DEF MgrInterrupt, IInv, TypeOK
      <3>4. UNCHANGED <<Serving, Started>>
        BY <3>1, <3>2, <3>3 DEF Serving, Started
      <3> QED BY <3>1, <3>4 DEF Abstract!absVars
    <2>5. ASSUME NEW c \in Clients, ClientGetPort(c)
          PROVE  [Abstract!AbsNext]_(Abstract!absVars)
      <3>1. client[c].account \in Accounts
        BY <2>5 DEF ClientGetPort, IInv, TypeOK, ClientStates, IdleClient
      <3> QED BY <2>5, <3>1, GetPortRefines DEF ClientGetPort
    <2>6. ASSUME NEW a \in Accounts, PollSend(a)
          PROVE  [Abstract!AbsNext]_(Abstract!absVars)
      BY <2>6, GetPortRefines DEF PollSend
    <2>7. ASSUME \/ UNCHANGED vars
                 \/ \E a \in Accounts : CreateAccount(a)
                 \/ Signal \/ PropagateCancel \/ PollSelect
                 \/ \E p \in Pid : ProcessExit(p) \/ MgrReceive(p) \/ MgrCheck(p)
                 \/ \E c \in Clients : ClientDone(c)
                 \/ \E c \in Clients, a \in Accounts : ClientCall(c, a)
          PROVE  UNCHANGED Abstract!absVars
      <3>1. UNCHANGED <<acctOf, os, runState>>
        BY <2>7 DEF vars, CreateAccount, Signal, PropagateCancel, PollSelect,
           ProcessExit, MgrReceive, MgrCheck, ClientDone, ClientCall, runVars,
           procVars
      <3> QED BY <3>1, Invisible
    <2> QED
      BY <2>1, <2>2, <2>3, <2>4, <2>5, <2>6, <2>7 DEF Next, Environment,
         RunStep, CallerStep, MgrStep
  <1> QED
    BY <1>1, <1>2, IInvCorrect, PTL
       DEF Spec, ImplementsRegistries, Abstract!AbsSpec
=============================================================================

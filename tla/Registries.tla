----------------------------- MODULE Registries -----------------------------
(***************************************************************************)
(* What an orchestration driver promises (the comments of the interface    *)
(* OrchestrationDriver, src/pkg/keppel/orchestration_driver.go): there is  *)
(* at most one registry for an account at a time, one that has exited may  *)
(* be followed by a fresh one, and Run() returns only when all are gone,   *)
(* after which none is started.  How the driver knows about exits, and     *)
(* whom it tells, is left open.                                            *)
(***************************************************************************)
CONSTANTS Accounts, Processes

VARIABLES
    serving,  \* pairs of an account and the process that serves it
    used,     \* processes that were ever started
    closed    \* Run() has returned

absVars == <<serving, used, closed>>

AbsInit == serving = {} /\ used = {} /\ closed = FALSE

Start(a, p) ==
    /\ ~closed
    /\ p \notin used
    /\ \A s \in serving : s[1] # a
    /\ serving' = serving \cup {<<a, p>>}
    /\ used' = used \cup {p}
    /\ UNCHANGED closed

Exit(s) ==
    /\ s \in serving
    /\ serving' = serving \ {s}
    /\ UNCHANGED <<used, closed>>

Close ==
    /\ ~closed
    /\ serving = {}
    /\ closed' = TRUE
    /\ UNCHANGED <<serving, used>>

AbsNext ==
    \/ \E a \in Accounts, p \in Processes : Start(a, p)
    \/ \E s \in serving : Exit(s)
    \/ Close

AbsSpec == AbsInit /\ [][AbsNext]_absVars
=============================================================================

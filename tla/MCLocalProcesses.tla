-------------------------- MODULE MCLocalProcesses --------------------------
(* Model checking of LocalProcesses.                                        *)
EXTENDS LocalProcesses

(* Every start beyond the first of an account needs a crash, so with this   *)
(* many process ids the bound MaxProcs never keeps Run() from a start.      *)
ASSUME EnoughProcs == MaxProcs >= Cardinality(Accounts) + MaxCrashes
=============================================================================

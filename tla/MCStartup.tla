----------------------------- MODULE MCStartup ------------------------------
(* Model checking of Startup.                                               *)
EXTENDS Startup, FiniteSets

(* A key is generated only as long as none was stored, so with this many    *)
(* keys the bound never keeps a registry from starting.                     *)
ASSUME EnoughKeys == MaxKeys >= Cardinality(Starters) + MaxFailures

Good == [given |-> Required, secretkey |-> NoKey, chunksize |-> 2]

(* Sensible parameters, with and without a key; no password; small chunks.  *)
MCEnvironments ==
    {Good, [Good EXCEPT !.secretkey = OperatorKey],
     [Good EXCEPT !.given = Required \ {"password"}],
     [Good EXCEPT !.chunksize = 0]}
=============================================================================

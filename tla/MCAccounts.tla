----------------------------- MODULE MCAccounts -----------------------------
(* Model checking of Accounts: user u1 is an admin in tenant t1 only, u2 in *)
(* both tenants, u3 may only look at t1; u4 may do as u1 may, but has no    *)
(* valid token.                                                             *)
EXTENDS Accounts

MCMayChange == {<<"u1", "t1">>, <<"u4", "t1">>, <<"u2", "t1">>, <<"u2", "t2">>}
MCMayView   == MCMayChange \cup {<<"u3", "t1">>}
=============================================================================

---------------------------- MODULE MCSwiftReads ----------------------------
(* Model checking of SwiftReads on two files in the root directory.         *)
EXTENDS SwiftReads

FlatParent == [p \in {"u_data", "b_data"} |-> "/"]
=============================================================================

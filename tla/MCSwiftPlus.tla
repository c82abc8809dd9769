---------------------------- MODULE MCSwiftPlus -----------------------------
(* Model checking of SwiftPlus on the tree                                  *)
(*     /v2/u/data  (an upload in progress)    /v2/b/data  (a blob)          *)
EXTENDS SwiftPlus, TLC

MCParent ==
    [p \in {"v2", "u", "u_data", "b", "b_data"} |->
        CASE p = "v2"     -> "/"
          [] p = "u"      -> "v2"
          [] p = "b"      -> "v2"
          [] p = "u_data" -> "u"
          [] p = "b_data" -> "b"]

(* Two files in the root directory, for calls that overlap. *)
FlatParent == [p \in {"u_data", "b_data"} |-> "/"]

Symmetry == Permutations(Handlers)
=============================================================================

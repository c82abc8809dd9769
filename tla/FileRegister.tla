---------------------------- MODULE FileRegister ----------------------------
(***************************************************************************)
(* What a storage driver promises its callers (the interface StorageDriver *)
(* of the docker registry), as a register per file.  A call announces the  *)
(* contents it will leave in some files.  While it runs these files hold   *)
(* anything that somebody has offered, or nothing, or cannot be read; all  *)
(* other files stay as they are.  When the call succeeds its files hold    *)
(* what it announced; when it fails or the process crashes they keep what  *)
(* they have, and are in doubt until another call on them succeeds.  A     *)
(* call that has missed an error may succeed and leave its files in doubt. *)
(***************************************************************************)
CONSTANTS Files, Callers, Absent, Unknown, Unreadable

VARIABLES
    content,  \* per file: what a reader finds
    value,    \* per file: what was promised, Unknown while in doubt
    effect,   \* per caller: pairs of a file and its contents to be
    offered   \* contents that callers have passed in

absVars == <<content, value, effect, offered>>

Touched(e) == {fv[1] : fv \in e}
InDoubt(e) == Touched(e) \X {Unknown}

AbsInit ==
    /\ content = [f \in Files |-> Absent]
    /\ value = [f \in Files |-> Absent]
    /\ effect = [c \in Callers |-> {}]
    /\ offered = {}

(* The caller has its files to itself. *)
Begin(c) ==
    /\ effect[c] = {}
    /\ effect'[c] # {}
    /\ \A d \in Callers \ {c} :
         /\ effect'[d] = effect[d]
         /\ Touched(effect[d]) \cap Touched(effect'[c]) = {}
    /\ value' = [f \in Files |-> IF f \in Touched(effect'[c]) THEN Unknown
                                 ELSE value[f]]
    /\ offered \subseteq offered'
    /\ UNCHANGED content

(* Only files that a call is working on change, and hold nothing that was  *)
(* not offered.                                                             *)
Work ==
    /\ \A f \in Files : content'[f] # content[f] =>
         /\ \E c \in Callers : f \in Touched(effect[c])
         /\ content'[f] \in offered' \cup {Absent, Unreadable}
    /\ offered \subseteq offered'
    /\ UNCHANGED value
    /\ \A c \in Callers : effect'[c] \in {effect[c], InDoubt(effect[c]), {}}

Success(c) ==
    /\ effect[c] # {}
    /\ effect' = [effect EXCEPT ![c] = {}]
    /\ \A fv \in effect[c] : fv[2] \in {content[fv[1]], Unknown}
    /\ value' = [f \in Files |->
                   IF f \in Touched(effect[c])
                   THEN CHOOSE v \in {fv[2] : fv \in effect[c]} :
                           <<f, v>> \in effect[c]
                   ELSE value[f]]
    /\ UNCHANGED <<content, offered>>

(* Work after which a call has no effect is its failure. *)
AbsNext == Work \/ \E c \in Callers : Begin(c) \/ Success(c)

AbsSpec == AbsInit /\ [][AbsNext]_absVars
=============================================================================

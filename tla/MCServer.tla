------------------------------ MODULE MCServer ------------------------------
(* Instances of the server for TLC. *)
EXTENDS ServerCorrect, TLC

(* Every connection may ask anything. *)
AnyScript == [Conns -> Asks]

(* A registration, and requests for the owner it registers or for the root: *)
(* at least one connection of each kind.                                    *)
BusyScript ==
    {s \in AnyScript :
       /\ \E c \in Conns : s[c].type = "CONNECT"
       /\ Cardinality({c \in Conns : s[c].type = "REQUEST" /\ s[c].name # Root})
            >= Cardinality(Conns) - 1}

(* The connections of which nobody has to do anything *)
NoneMute == {}
FirstMute == {CHOOSE c \in Conns : TRUE}

ConnsSymmetry == Permutations(Conns)
=============================================================================

----------------------------- MODULE MCRegistry -----------------------------
(* Three processes of users 1 and 2: the second is user 1 again, from the     *)
(* port in his file; the third is user 2 at the place of the first.  A       *)
(* fourth has no port.                                                      *)
EXTENDS RegistryCorrect

Four == {"a", "a2", "b", "c"}
Line(k, v) == [key |-> k, val |-> v]
FourEnv ==
    [p \in Four |->
       [username |-> IF p = "b" THEN 2 ELSE 1,
        localport |-> IF p = "c" THEN Unset ELSE 80]]
FourFile ==
    [p \in Four |->
       IF p = "a2" THEN <<Line("localport", 80), Line("localport", 81)>> ELSE << >>]
FourHost == [p \in Four |-> 1]
=============================================================================

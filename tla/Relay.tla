-------------------------------- MODULE Relay --------------------------------
(***************************************************************************)
(* What the middfs server promises the clients that call it: a request for *)
(* a registered owner's resource is performed at most once, by the owner;  *)
(* the caller gets one answer, the owner's own if the owner performed the  *)
(* request, the server's if the request was never passed on; a connect     *)
(* packet registers a name, for good, and is not answered.  Nothing is     *)
(* promised about whether an answer comes.                                 *)
(***************************************************************************)
CONSTANTS Conns, Names, Root

VARIABLES
    ask,        \* what each connection asks
    clients,    \* registered names
    performed,  \* requests that an owner has performed
    answer      \* who answered each connection, as its caller sees it

vars == <<ask, clients, performed, answer>>

Asks == [type : {"CONNECT"}, name : Names]
          \cup [type : {"REQUEST"}, name : Names \cup {Root}]

Init ==
    /\ ask \in [Conns -> Asks]
    /\ clients = {} /\ performed = {}
    /\ answer = [c \in Conns |-> "none"]

Register(c) ==
    /\ ask[c].type = "CONNECT"
    /\ clients' = clients \cup {ask[c].name}
    /\ UNCHANGED <<ask, performed, answer>>

Perform(c) ==
    /\ ask[c].type = "REQUEST" /\ ask[c].name \in clients
    /\ c \notin performed /\ answer[c] = "none"
    /\ performed' = performed \cup {c}
    /\ UNCHANGED <<ask, clients, answer>>

Answer(c, who) ==
    /\ ask[c].type = "REQUEST" /\ answer[c] = "none"
    /\ who = (IF c \in performed THEN "owner" ELSE "server")
    /\ answer' = [answer EXCEPT ![c] = who]
    /\ UNCHANGED <<ask, clients, performed>>

Next == \E c \in Conns : Register(c) \/ Perform(c) \/ \E who \in {"owner", "server"} : Answer(c, who)

Spec == Init /\ [][Next]_vars
=============================================================================

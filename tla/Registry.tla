------------------------------ MODULE Registry ------------------------------
(* Client processes that start, register with the server and listen for      *)
(* requests, and the server's registry, which a request looks up and the      *)
(* root directory is made of.  A process that dies is not taken off the       *)
(* registry, nor does anybody register again when the server was restarted.  *)
EXTENDS Clients

CONSTANTS
    Procs,      \* client processes
    Env,        \* for each the environment it is started with,
    File,       \*   the lines of its configuration file
    HostOf,     \*   and the host it runs on
    Names,      \* names that are asked for
    Unset,      \* no value
    Restarts    \* how often the server may be restarted

Keys == {"username", "localport"}

ASSUME NamesAssumption == Names \subseteq Nat /\ Unset \notin Nat
ASSUME ConfAssumption ==
    /\ Env \in [Procs -> [Keys -> Nat \cup {Unset}]]
    /\ File \in [Procs -> Seq([key : Keys, val : Nat \cup {Unset}])]
ASSUME RestartsAssumption == Restarts \in Nat

VARIABLES
    clients,    \* the server's vector of clients
    restarts,   \* restarts of the server so far
    reply,      \* what the request handled in the last step got, if any was
    pc,         \* for each process how far main is,
    conn,       \*   its connect packet,
    resp        \*   and its responder thread

vars == <<clients, restarts, reply, pc, conn, resp>>

-----------------------------------------------------------------------------
(* Configuration *)

(* Each line of the file is put into the environment, over what is there.   *)
conf_load(p, k) ==
    LET set == {i \in DOMAIN File[p] : File[p][i].key = k} IN
    IF set = {} THEN Env[p][k]
                ELSE File[p][CHOOSE i \in set : \A j \in set : j <= i].val

conf_get(p, k) == conf_load(p, k)

(* What is not a number is no port. *)
HasPort(p) == conf_get(p, "localport") # Unset
HasName(p) == conf_get(p, "username") # Unset

(* The entry made of a connect packet and the address it came from.  proc    *)
(* is not in the code: it tells the entries of one name and place apart.     *)
client_create(p) ==
    [name |-> conf_get(p, "username"), host |-> HostOf[p],
     port |-> conf_get(p, "localport"), proc |-> p]

Entries == {client_create(p) : p \in {q \in Procs : HasName(q) /\ HasPort(q)}}

ASSUME NoneAssumption == None \notin Entries /\ None \notin Procs

Nothing == [kind |-> "nothing"]

Init ==
    /\ clients = Empty
    /\ restarts = 0 /\ reply = Nothing
    /\ pc = [p \in Procs |-> "start"]
    /\ conn = [p \in Procs |-> "none"]
    /\ resp = [p \in Procs |-> "none"]

-----------------------------------------------------------------------------
(* A client process *)

serverVars == <<clients, restarts>>

Exits(p) == pc' = [pc EXCEPT ![p] = "gone"] /\ resp' = [resp EXCEPT ![p] = "none"]
Goes(p, l) == pc' = [pc EXCEPT ![p] = l] /\ UNCHANGED resp

(* client_connect: the connection may fail, and the process exits, as it does *)
(* without a port; without a name it crashes in serialize_str.  A failed      *)
(* write is success.                                                       *)
Connects(p) ==
    /\ pc[p] = "start"
    /\ \/ Exits(p) /\ UNCHANGED conn
       \/ /\ HasPort(p) /\ HasName(p)
          /\ Goes(p, "sent")
          /\ \E c \in {"packet", "lost"} : conn' = [conn EXCEPT ![p] = c]
    /\ reply' = Nothing /\ UNCHANGED serverVars

(* start_client_responder: the thread, which may not be had *)
StartsResponder(p) ==
    /\ pc[p] = "sent"
    /\ \/ Exits(p)
       \/ pc' = [pc EXCEPT ![p] = "mounting"] /\ resp' = [resp EXCEPT ![p] = "starting"]
    /\ reply' = Nothing /\ UNCHANGED <<serverVars, conn>>

PlaceOf(p) == <<HostOf[p], conf_get(p, "localport")>>
Listening(place) == {p \in Procs : resp[p] = "listening" /\ PlaceOf(p) = place}

(* client_responder: the port may be in use, or bind or listen fail for      *)
(* another reason; main goes on without it.                                *)
Listens_Waits(p) ==
    /\ resp[p] = "starting"
    /\ Listening(PlaceOf(p)) = {} /\ resp' = [resp EXCEPT ![p] = "listening"]
    /\ reply' = Nothing /\ UNCHANGED <<serverVars, pc, conn>>
Listens(p) ==
    /\ resp[p] = "starting"
    /\ \/ Listening(PlaceOf(p)) = {} /\ resp' = [resp EXCEPT ![p] = "listening"]
       \/ resp' = [resp EXCEPT ![p] = "deaf"]
    /\ reply' = Nothing /\ UNCHANGED <<serverVars, pc, conn>>

(* fuse_main mounts, or fails and main returns *)
Mounts(p) ==
    /\ pc[p] = "mounting"
    /\ Exits(p) \/ Goes(p, "mounted")
    /\ reply' = Nothing /\ UNCHANGED <<serverVars, conn>>

(* The process is killed, or unmounted.  A packet it has sent arrives.       *)
Dies(p) ==
    /\ pc[p] # "gone"
    /\ Exits(p)
    /\ reply' = Nothing /\ UNCHANGED <<serverVars, conn>>

-----------------------------------------------------------------------------
(* The server *)

(* handle_connect: the address may not be had any more, or memory fail.      *)
Registers(p) ==
    /\ conn[p] = "packet"
    /\ \/ conn' = [conn EXCEPT ![p] = "lost"] /\ UNCHANGED clients
       \/ /\ conn' = [conn EXCEPT ![p] = "taken"]
          /\ clients' \in clients_add(client_create(p), clients)
    /\ reply' = Nothing /\ UNCHANGED <<restarts, pc, resp>>

(* handle_req_rd_fin_peer: the owner is looked up and the place he registered *)
(* from is dialled.  Whoever listens there performs the request: nobody       *)
(* compares mr_owner with his own name.                                    *)
Asks(name) ==
    /\ \E e \in client_find(name, clients) :
         \E q \in IF e = None \/ Listening(<<e.host, e.port>>) = {}
                    THEN {None} ELSE Listening(<<e.host, e.port>>) :
           reply' = [kind |-> "found", asked |-> name, found |-> e, by |-> q]
    /\ UNCHANGED <<serverVars, pc, conn, resp>>

(* handle_req_rd_fin_root: the root directory is listed.                     *)
Lists ==
    /\ reply' = [kind |-> "list", names |-> clients_readdir(clients)]
    /\ UNCHANGED <<serverVars, pc, conn, resp>>

(* The server is restarted: its memory and its connections are gone.         *)
Restart ==
    /\ restarts < Restarts
    /\ restarts' = restarts + 1
    /\ clients' = Empty
    /\ conn' = [p \in Procs |-> IF conn[p] = "packet" THEN "lost" ELSE conn[p]]
    /\ reply' = Nothing /\ UNCHANGED <<pc, resp>>

Next ==
    \/ \E p \in Procs :
         \/ Connects(p) \/ StartsResponder(p) \/ Listens(p)
         \/ Mounts(p) \/ Dies(p) \/ Registers(p)
    \/ \E n \in Names : Asks(n)
    \/ Lists \/ Restart

Spec == Init /\ [][Next]_vars

(* The threads of a process and the server go on. *)
Starting(p) == Connects(p) \/ StartsResponder(p) \/ Mounts(p)
FairSpec ==
    Spec /\ \A p \in Procs : WF_vars(Starting(p)) /\ WF_vars(Listens(p)) /\ WF_vars(Registers(p))
=============================================================================

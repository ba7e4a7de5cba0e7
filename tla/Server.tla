------------------------------- MODULE Server -------------------------------
(***************************************************************************)
(* The middfs server: one thread that polls a table of sockets and relays  *)
(* each request to the client that owns the resource and the owner's       *)
(* answer back (lib/middfs-conn.c, lib/middfs-sock.c, the server handlers). *)
(*                                                                         *)
(* Every program that calls the server opens one connection, its REQUEST   *)
(* LEG <<"rq", c>>, and sends one packet on it.  To forward the request of *)
(* c the server opens the PEER LEG <<"pr", c>> to the owner's responder.   *)
(* A packet is Parts equal chunks, so that reads and writes can be short;  *)
(* a chunk names the packet it is a piece of.                              *)
(***************************************************************************)
EXTENDS Integers, Sequences, FiniteSets

CONSTANTS
    Conns,      \* the connections clients open to the server
    Names,      \* user names
    Root,       \* the name of the middfs root: owner and path are empty
    Fds,        \* descriptors the server may hold (RLIMIT_NOFILE)
    Parts,      \* chunks in a packet
    Room,       \* chunks a TCP connection holds in one direction
    Listener,   \* what a descriptor refers to: the listening socket,
    Free,       \*   nothing (the descriptor is closed), or
    Leaked,     \*   a socket that no entry of the table refers to
    Faults,     \* what may go wrong, a subset of FaultKinds
    Scripts     \* what the connections may ask: a subset of [Conns -> Asks]

NoFd == -1
Slots == 1 .. Cardinality(Conns) + 1    \* the listener and every connection
FaultKinds == {"die", "refuse", "decline", "nomem"}
Legs == {"rq", "pr"}
Sockets == Legs \X Conns
Rq(c) == <<"rq", c>>
Pr(c) == <<"pr", c>>

ASSUME FdsAssumption == Fds \subseteq Nat
ASSUME RootAssumption == Root \notin Names
ASSUME SizeAssumption == Parts \in Nat \ {0} /\ Room \in Nat \ {0}
ASSUME FileAssumption ==
    /\ {Listener, Free, Leaked} \cap Sockets = {}
    /\ Listener # Free /\ Listener # Leaked /\ Free # Leaked
ASSUME FaultsAssumption == Faults \subseteq FaultKinds

VARIABLES
    table,      \* struct middfs_socks: sequence of struct middfs_sockinfo
    ready,      \* indices whose revents are set and not yet handled
    wrote,      \* the write(2) in progress has accepted some chunks
    status,     \* what became of the server process
    file,       \* what each descriptor of the server refers to
    clients,    \* names in struct clients (never removed)
    backlog,    \* connections the kernel has accepted for the listener
    ask,        \* the packet each client will send
    far,        \* other end of a connection, as the server's kernel knows it
    up,         \* chunks on their way to the server
    down,       \* chunks on their way to the other end
    todo,       \* chunks the other end has still to write
    got         \* chunks the other end has read

serverVars == <<table, ready, wrote, status, file, clients>>
netVars == <<ask, far, up, down, todo, got>>
vars == <<serverVars, backlog, netVars>>

-----------------------------------------------------------------------------
(* Packets and table entries *)

Asks == [type : {"CONNECT"}, name : Names]
          \cup [type : {"REQUEST"}, name : Names \cup {Root}]

ASSUME ScriptsAssumption == Scripts \subseteq [Conns -> Asks]

Packets == [type : {"CONNECT", "REQUEST", "RESPONSE"}, conn : Conns,
            by : {"client", "server", "owner"}]

Asked(c) == [type |-> ask[c].type, conn |-> c, by |-> "client"]
Response(c, who) == [type |-> "RESPONSE", conn |-> c, by |-> who]

Chunks(p) == [n \in 1 .. Parts |-> p]

Types == {"NONE", "PKT_IN", "LSTN"}
States == {"LSTN", "REQRD", "RSPWR", "REQFWD", "RSPFWD", "CLOSED"}

Entries == [type : Types, state : States,
            in : Fds \cup {NoFd}, out : Fds \cup {NoFd},
            ibuf : Seq(Packets), obuf : Seq(Packets),
            heap : {"null", "live", "freed"}]

(* Slip: the type stored as the state *)
NewEntry_Swapped(type, state, fd) ==
    [type |-> type, state |-> type, in |-> fd, out |-> NoFd,
     ibuf |-> << >>, obuf |-> << >>, heap |-> "null"]

(* heap tells what buf.begin of the two ends is: buffer_delete frees it and *)
(* leaves the pointer as it was.                                           *)
NewEntry(type, state, fd) ==
    [type |-> type, state |-> state, in |-> fd, out |-> NoFd,
     ibuf |-> << >>, obuf |-> << >>, heap |-> "null"]

Deleted(e) ==
    [e EXCEPT !.type = "NONE", !.in = NoFd, !.out = NoFd,
              !.ibuf = << >>, !.obuf = << >>,
              !.heap = IF @ = "live" THEN "freed" ELSE @]

ReadStates == {"LSTN", "REQRD", "RSPFWD"}
WriteStates == {"RSPWR", "REQFWD"}

(* Slips: an entry that writes polls its reading end, or is not polled *)
PolledFd_In(e) == e.in
IsPolled_Reads(e) == e.type # "NONE" /\ e.state \in ReadStates

PolledFd(e) == IF e.state \in ReadStates THEN e.in ELSE e.out
IsPolled(e) == e.type # "NONE" /\ e.state \in ReadStates \cup WriteStates

(* The socket an entry polls, reads or writes *)
Sock(i) == file[PolledFd(table[i])]

LowestFree(fd) ==
    /\ fd \in Fds /\ file[fd] = Free
    /\ \A g \in Fds : file[g] = Free => fd <= g
NoFreeFd == \A fd \in Fds : file[fd] # Free

(* Slip: only the reading end is closed *)
Closing_In(I) ==
    [fd \in Fds |->
       IF \E i \in I : fd = table[i].in THEN Free ELSE file[fd]]

Closing(I) ==
    [fd \in Fds |->
       IF \E i \in I : fd \in {table[i].in, table[i].out} THEN Free ELSE file[fd]]

(* middfs_socks_remove of the entries I; closing the listening socket drops *)
(* the connections that wait for accept(2).                                *)
Remove(I) ==
    /\ table' = [i \in DOMAIN table |->
                   IF i \in I THEN Deleted(table[i]) ELSE table[i]]
    /\ file' = Closing(I)
    /\ backlog' = IF \E i \in I : table[i].type = "LSTN" THEN << >> ELSE backlog

(* The process ends: its descriptors close. *)
Ends(how) ==
    /\ status' = how
    /\ file' = [fd \in Fds |-> Free]
    /\ backlog' = << >>
    /\ ready' = {} /\ wrote' = FALSE
    /\ UNCHANGED <<table, clients, netVars>>

Broken(s) == far[s] \in {"rst", "pipe"}

(* poll(2): POLLERR or POLLHUP once a reset came, POLLIN for data and for  *)
(* end of file, POLLOUT while the connection has room.                     *)
HungUp(i) == Sock(i) \in Sockets /\ Broken(Sock(i))
HasEvent(i) ==
    CASE Sock(i) = Listener  -> backlog # << >>
      [] Sock(i) \in Sockets ->
           \/ Broken(Sock(i))
           \/ table[i].state \in ReadStates
              /\ (up[Sock(i)] # << >> \/ far[Sock(i)] = "fin")
           \/ table[i].state \in WriteStates /\ Len(down[Sock(i)]) < Room

Polled == {i \in DOMAIN table : IsPolled(table[i])}

-----------------------------------------------------------------------------
(* server_loop: poll, then one handler per entry with an event, in order *)

Idle == status = "run" /\ ready = {}

(* Polling a negative descriptor fails an assertion in                     *)
(* middfs_sockend_pollfd; a closed one gives POLLNVAL, and an assertion in *)
(* the handler that follows.                                               *)
BadDescriptor(i) == PolledFd(table[i]) = NoFd \/ Sock(i) \in {Free, Leaked}

(* middfs_socks_poll, with middfs_socks_check deleting broken entries *)
Poll ==
    /\ Idle
    /\ IF \E i \in Polled : BadDescriptor(i)
       THEN Ends("aborted")
       ELSE /\ \E i \in Polled : HasEvent(i)
            /\ LET hup == {i \in Polled : HungUp(i)} IN
               /\ Remove(hup)
               /\ ready' = {i \in Polled \ hup : HasEvent(i)}
            /\ UNCHANGED <<wrote, status, clients, netVars>>

(* calloc or poll fails: server_loop returns -1, main deletes the table;   *)
(* freeing the buffers of an entry deleted before is a double free.        *)
PollFails ==
    /\ "nomem" \in Faults
    /\ Idle
    /\ Ends(IF \E i \in DOMAIN table : table[i].heap = "freed"
            THEN "double free" ELSE "exited")

Handling(i) == status = "run" /\ i \in ready /\ \A j \in ready : i <= j

-----------------------------------------------------------------------------
(* handle_lstn_event *)

Accept(i) ==
    /\ Handling(i)
    /\ table[i].type = "LSTN" /\ backlog # << >>
    /\ \E fd \in Fds :
         /\ LowestFree(fd)
         /\ table' = Append(table, NewEntry("PKT_IN", "REQRD", fd))
         /\ file' = [file EXCEPT ![fd] = Rq(Head(backlog))]
    /\ backlog' = Tail(backlog)
    /\ ready' = ready \ {i}
    /\ UNCHANGED <<wrote, status, clients, netVars>>

(* accept fails with EMFILE: HS_DEL deletes the listening socket *)
AcceptFails(i) ==
    /\ Handling(i)
    /\ table[i].type = "LSTN" /\ backlog # << >>
    /\ NoFreeFd
    /\ Remove({i})
    /\ ready' = ready \ {i}
    /\ UNCHANGED <<wrote, status, clients, netVars>>

-----------------------------------------------------------------------------
(* handle_pkt_rd and the server's handle_pkt_rd_fin *)

Reading(i) ==
    /\ Handling(i)
    /\ table[i].type = "PKT_IN" /\ table[i].state \in {"REQRD", "RSPFWD"}
    /\ Sock(i) \in Sockets

(* read(2) returned 0, or an error because of a reset *)
RdEnd(i) ==
    /\ Reading(i)
    /\ up[Sock(i)] = << >> /\ far[Sock(i)] \in {"fin", "rst", "pipe"}
    /\ Remove({i})
    /\ ready' = ready \ {i}
    /\ UNCHANGED <<wrote, status, clients, netVars>>

(* The buffer after a read of k chunks *)
Filled(i, k) == table[i].ibuf \o SubSeq(up[Sock(i)], 1, k)
Drain(s, k) == up' = [up EXCEPT ![s] = SubSeq(@, k + 1, Len(@))]

ReadOf(i, k) == Reading(i) /\ k <= Len(up[Sock(i)])

RdPartial(i, k) ==
    /\ ReadOf(i, k)
    /\ Len(Filled(i, k)) < Parts
    /\ table' = [table EXCEPT ![i] =
                   [@ EXCEPT !.ibuf = Filled(i, k), !.heap = "live"]]
    /\ Drain(Sock(i), k)
    /\ ready' = ready \ {i}
    /\ UNCHANGED <<wrote, status, file, clients, backlog, ask, far, down, todo, got>>

(* A read of k chunks completes a packet, which leaves the buffer. *)
PacketRead(i, k) == ReadOf(i, k) /\ Len(Filled(i, k)) >= Parts
Packet(i, k) == Head(Filled(i, k))

(* Slip: the packet stays in the buffer *)
Shifted_Not(i, k) == [table[i] EXCEPT !.ibuf = Filled(i, k), !.heap = "live"]

(* The entry as its handler gets it: buffer allocated, packet shifted out *)
Shifted(i, k) ==
    [table[i] EXCEPT
       !.ibuf = SubSeq(Filled(i, k), Parts + 1, Len(Filled(i, k))),
       !.heap = "live"]

(* handle_connect: registered or not, the connection is dropped, with no   *)
(* answer.  getpeername fails once the connection was reset.               *)
RdConnect(i, k) ==
    /\ PacketRead(i, k)
    /\ Packet(i, k).type = "CONNECT"
    /\ clients' = IF Broken(Sock(i)) THEN clients
                  ELSE clients \cup {ask[Packet(i, k).conn].name}
    /\ table' = [table EXCEPT ![i] = Deleted(Shifted(i, k))]
    /\ file' = Closing({i})
    /\ Drain(Sock(i), k)
    /\ ready' = ready \ {i}
    /\ UNCHANGED <<wrote, status, backlog, ask, far, down, todo, got>>

(* The request is for the root, or for an owner who is not registered: the *)
(* server answers itself, on the same connection.                          *)
RdAnswer(i, k) ==
    /\ PacketRead(i, k)
    /\ Packet(i, k).type = "REQUEST"
    /\ LET c == Packet(i, k).conn IN
       /\ ask[c].name = Root \/ ask[c].name \notin clients
       /\ table' = [table EXCEPT ![i] =
                      [Shifted(i, k) EXCEPT
                         !.state = "RSPWR", !.out = table[i].in, !.in = NoFd,
                         !.obuf = table[i].obuf \o Chunks(Response(c, "server"))]]
    /\ Drain(Sock(i), k)
    /\ ready' = ready \ {i}
    /\ UNCHANGED <<wrote, status, file, clients, backlog, ask, far, down, todo, got>>

(* Slip: the result of client_find is not looked at *)
ForwardRead_Unchecked(i, k) ==
    PacketRead(i, k) /\ Packet(i, k).type = "REQUEST"

(* The owner is registered *)
ForwardRead(i, k) ==
    /\ PacketRead(i, k)
    /\ Packet(i, k).type = "REQUEST"
    /\ ask[Packet(i, k).conn].name \in clients \ {Root}

(* inet_connect reaches the owner's responder. *)
RdForward(i, k) ==
    /\ ForwardRead(i, k)
    /\ LET c == Packet(i, k).conn IN
       /\ \E fd \in Fds :
            /\ LowestFree(fd)
            /\ table' = [table EXCEPT ![i] =
                           [Shifted(i, k) EXCEPT
                              !.state = "REQFWD", !.out = fd,
                              !.obuf = table[i].obuf \o Chunks(Packet(i, k))]]
            /\ file' = [file EXCEPT ![fd] = Pr(c)]
       /\ far' = [far EXCEPT ![Pr(c)] = "open"]
    /\ Drain(Sock(i), k)
    /\ ready' = ready \ {i}
    /\ UNCHANGED <<wrote, status, clients, backlog, ask, down, todo, got>>

(* inet_connect fails: HS_DEL without an answer.  In connect(2) it leaves  *)
(* the new socket open; in socket(2), with EMFILE, there is none.          *)
RdRefused(i, k) ==
    /\ ForwardRead(i, k)
    /\ \/ NoFreeFd /\ file' = Closing({i})
       \/ /\ "refuse" \in Faults
          /\ \E fd \in Fds :
               LowestFree(fd) /\ file' = [Closing({i}) EXCEPT ![fd] = Leaked]
    /\ table' = [table EXCEPT ![i] =
                   Deleted([Shifted(i, k) EXCEPT !.state = "REQFWD"])]
    /\ Drain(Sock(i), k)
    /\ ready' = ready \ {i}
    /\ UNCHANGED <<wrote, status, clients, backlog, ask, far, down, todo, got>>

(* handle_rsp_rd_fin: assert(sockinfo->state == MSS_RSPFWD), and the answer *)
(* is serialized into the other end's buffer                               *)
RdResponse(i, k) ==
    /\ PacketRead(i, k)
    /\ Packet(i, k).type = "RESPONSE"
    /\ IF table[i].state = "RSPFWD"
       THEN /\ table' = [table EXCEPT ![i] =
                           [Shifted(i, k) EXCEPT
                              !.state = "RSPWR", !.obuf = table[i].obuf \o Chunks(Packet(i, k))]]
            /\ Drain(Sock(i), k)
            /\ ready' = ready \ {i}
            /\ UNCHANGED <<wrote, status, file, clients, backlog>>
            /\ UNCHANGED <<ask, far, down, todo, got>>
       ELSE Ends("aborted")

-----------------------------------------------------------------------------
(* handle_pkt_wr: one write(2) of the whole buffer on a blocking socket.   *)
(* The server stays in it until every chunk is accepted or an error comes. *)

Writing(i) ==
    /\ Handling(i)
    /\ table[i].type = "PKT_IN" /\ table[i].state \in WriteStates
    /\ Sock(i) \in Sockets

WrChunk(i) ==
    /\ Writing(i)
    /\ table[i].obuf # << >>
    /\ ~ Broken(Sock(i)) /\ Len(down[Sock(i)]) < Room
    /\ table' = [table EXCEPT ![i] = [@ EXCEPT !.obuf = Tail(table[i].obuf)]]
    /\ down' = [down EXCEPT ![Sock(i)] = Append(@, Head(table[i].obuf))]
    /\ wrote' = (Tail(table[i].obuf) # << >>)
    /\ ready' = IF wrote' THEN ready ELSE ready \ {i}
    /\ UNCHANGED <<status, file, clients, backlog, ask, far, up, todo, got>>

(* A reset after some chunks were accepted: a short count, so HS_SUC *)
WrShort(i) ==
    /\ Writing(i)
    /\ wrote /\ Broken(Sock(i))
    /\ wrote' = FALSE /\ ready' = ready \ {i}
    /\ UNCHANGED <<table, status, file, clients, backlog, netVars>>

(* A reset before: ECONNRESET, so HS_DEL ... *)
WrReset(i) ==
    /\ Writing(i)
    /\ ~ wrote /\ far[Sock(i)] = "rst"
    /\ Remove({i})
    /\ ready' = ready \ {i}
    /\ UNCHANGED <<wrote, status, clients, netVars>>

(* ... but EPIPE, with SIGPIPE, if the other end had closed first *)
WrPipe(i) ==
    /\ Writing(i)
    /\ ~ wrote /\ far[Sock(i)] = "pipe"
    /\ Ends("killed")

(* Slip: the first write is taken for the last *)
Written_Early(i) == Writing(i) /\ ~ wrote /\ ~ Broken(Sock(i))

(* The buffer was empty: write returned 0, the packet is sent. *)
Written(i) ==
    /\ Writing(i)
    /\ table[i].obuf = << >> /\ ~ wrote /\ ~ Broken(Sock(i))

(* handle_req_wr_fin: swap the descriptors of the ends, not their buffers *)
WrRequestFin(i) ==
    /\ Written(i) /\ table[i].state = "REQFWD"
    /\ table' = [table EXCEPT ![i] =
                   [@ EXCEPT !.state = "RSPFWD", !.in = table[i].out, !.out = table[i].in]]
    /\ ready' = ready \ {i}
    /\ UNCHANGED <<wrote, status, file, clients, backlog, netVars>>

(* handle_rsp_wr_fin: MSS_CLOSED and HS_DEL *)
WrResponseFin(i) ==
    /\ Written(i) /\ table[i].state = "RSPWR"
    /\ table' = [table EXCEPT ![i] = Deleted([@ EXCEPT !.state = "CLOSED"])]
    /\ file' = Closing({i})
    /\ ready' = ready \ {i}
    /\ UNCHANGED <<wrote, status, clients, backlog, netVars>>

-----------------------------------------------------------------------------
(* The rest of the world: clients, their responders, and the network *)

Listening == \E fd \in Fds : file[fd] = Listener
Held(s) == \/ \E fd \in Fds : file[fd] = s
           \/ \E n \in DOMAIN backlog : s = Rq(backlog[n])

(* inet_connect of a client *)
Dial(c) ==
    /\ far[Rq(c)] = "none" /\ Listening
    /\ far' = [far EXCEPT ![Rq(c)] = "open"]
    /\ todo' = [todo EXCEPT ![Rq(c)] = Parts]
    /\ backlog' = Append(backlog, c)
    /\ UNCHANGED <<serverVars, ask, up, down, got>>

Outgoing(s) == IF s[1] = "rq" THEN Asked(s[2]) ELSE Response(s[2], "owner")

FarSend(s) ==
    /\ far[s] = "open" /\ Held(s)
    /\ todo[s] > 0 /\ Len(up[s]) < Room
    /\ up' = [up EXCEPT ![s] = Append(@, Outgoing(s))]
    /\ todo' = [todo EXCEPT ![s] = @ - 1]
    /\ UNCHANGED <<serverVars, backlog, ask, far, down, got>>

(* A responder that has read the whole request performs it and answers. *)
FarRecv(s) ==
    /\ far[s] = "open" /\ down[s] # << >>
    /\ got' = [got EXCEPT ![s] = Append(@, Head(down[s]))]
    /\ down' = [down EXCEPT ![s] = Tail(@)]
    /\ todo' = IF s[1] = "pr" /\ Len(got[s]) + 1 = Parts
               THEN [todo EXCEPT ![s] = Parts] ELSE todo
    /\ UNCHANGED <<serverVars, backlog, ask, far, up>>

(* The other end is done: its exchange is over, or the server closed. *)
FarDone(s) ==
    \/ todo[s] = 0 /\ Len(got[s]) = Parts
    \/ todo[s] = 0 /\ s[1] = "rq" /\ ask[s[2]].type = "CONNECT"
    \/ ~ Held(s) /\ down[s] = << >>

FarClose(s) ==
    /\ far[s] = "open" /\ FarDone(s)
    /\ far' = [far EXCEPT ![s] = "fin"]
    /\ UNCHANGED <<serverVars, backlog, ask, up, down, todo, got>>

(* The other end's process dies; unread chunks make its kernel send a reset *)
FarDies(s) ==
    /\ "die" \in Faults
    /\ far[s] = "open"
    /\ far' = [far EXCEPT ![s] = IF down[s] = << >> THEN "fin" ELSE "rst"]
    /\ down' = [down EXCEPT ![s] = << >>]
    /\ todo' = [todo EXCEPT ![s] = 0]
    /\ UNCHANGED <<serverVars, backlog, ask, up, got>>

(* The responder closes without an answer (handle_request returns HS_DEL) *)
FarDeclines(s) ==
    /\ "decline" \in Faults
    /\ s[1] = "pr" /\ far[s] = "open" /\ todo[s] = Parts
    /\ far' = [far EXCEPT ![s] = "fin"]
    /\ todo' = [todo EXCEPT ![s] = 0]
    /\ UNCHANGED <<serverVars, backlog, ask, up, down, got>>

(* Chunks reach a socket that was closed: the answer is a reset. *)
Bounce(s) ==
    /\ far[s] = "fin" /\ down[s] # << >>
    /\ far' = [far EXCEPT ![s] = "pipe"]
    /\ down' = [down EXCEPT ![s] = << >>]
    /\ UNCHANGED <<serverVars, backlog, ask, up, todo, got>>

-----------------------------------------------------------------------------
Init ==
    /\ \E fd \in Fds :
         /\ \A g \in Fds : fd <= g
         /\ table = <<NewEntry("LSTN", "LSTN", fd)>>
         /\ file = [g \in Fds |-> IF g = fd THEN Listener ELSE Free]
    /\ ready = {} /\ wrote = FALSE /\ status = "run"
    /\ clients = {}
    /\ backlog = << >>
    /\ ask \in Scripts
    /\ far = [s \in Sockets |-> "none"]
    /\ up = [s \in Sockets |-> << >>] /\ down = [s \in Sockets |-> << >>]
    /\ todo = [s \in Sockets |-> 0]
    /\ got = [s \in Sockets |-> << >>]

Read(i, k) ==
    \/ RdPartial(i, k) \/ RdConnect(i, k) \/ RdAnswer(i, k) \/ RdForward(i, k)
    \/ RdRefused(i, k) \/ RdResponse(i, k)

Handle(i) ==
    \/ Accept(i) \/ AcceptFails(i) \/ RdEnd(i)
    \/ \E k \in 1 .. Room : Read(i, k)
    \/ WrChunk(i) \/ WrShort(i) \/ WrReset(i) \/ WrPipe(i)
    \/ WrRequestFin(i) \/ WrResponseFin(i)

ServerStep == Poll \/ PollFails \/ \E i \in Slots : Handle(i)

FarStep(s) ==
    FarSend(s) \/ FarRecv(s) \/ FarClose(s) \/ FarDies(s) \/ FarDeclines(s) \/ Bounce(s)

(* Every connection is over; poll blocks until somebody dials. *)
Quiet == (\A s \in Sockets : far[s] # "open") /\ UNCHANGED vars

Next ==
    \/ ServerStep
    \/ \E c \in Conns : Dial(c)
    \/ \E s \in Sockets : FarStep(s)
    \/ Quiet

Spec == Init /\ [][Next]_vars
=============================================================================

---------------------------- MODULE ServerCorrect ----------------------------
(* What makes the relay of module Server correct. *)
EXTENDS Server

CONSTANT Mute  \* connections whose callers and owners may stop at any point

ASSUME MuteAssumption == Mute \subseteq Conns

(* The types of the server's state and of the connections around it, that  *)
(* no table index of a pending event is beyond the table among them.       *)
TypeOK ==
    /\ table \in Seq(Entries)
    /\ ready \subseteq DOMAIN table
    /\ wrote \in BOOLEAN
    /\ status \in {"run", "aborted", "killed", "exited", "double free"}
    /\ file \in [Fds -> Sockets \cup {Listener, Free, Leaked}]
    /\ clients \subseteq Names \cup {Root}
    /\ backlog \in Seq(Conns)
    /\ ask \in [Conns -> Asks]
    /\ far \in [Sockets -> {"none", "open", "fin", "rst", "pipe"}]
    /\ up \in [Sockets -> Seq(Packets)] /\ down \in [Sockets -> Seq(Packets)]
    /\ todo \in [Sockets -> 0 .. Parts]
    /\ got \in [Sockets -> Seq(Packets)]

(* No assertion and no abort() of the poll loop or of a handler is reached: *)
(* middfs-sock.c:366, middfs-conn.c:261 and :307, server-handler.c:203.     *)
NoAbort == status # "aborted"

(* Every open descriptor is an end of exactly one entry of the table, and   *)
(* every end of an entry is open, while descriptors are closed, passed from *)
(* one end to the other and given out again by accept and socket.  The     *)
(* socket of a failed connect is the one exception (util.c:51).             *)
Refs(e) == {e.in, e.out} \ {NoFd}
RefsOnce(tb) ==
    \A i, j \in DOMAIN tb : i # j => Refs(tb[i]) \cap Refs(tb[j]) = {}
FilesOwned(tb, f) ==
    \A fd \in Fds : f[fd] \notin {Free, Leaked} => \E i \in DOMAIN tb : fd \in Refs(tb[i])

DescriptorsOwned ==
    status = "run" =>
      /\ RefsOnce(table)
      /\ FilesOwned(table, file)
      /\ \A i \in DOMAIN table :
           /\ \A fd \in Refs(table[i]) : file[fd] \notin {Free, Leaked}
           /\ table[i].in = table[i].out => table[i].in = NoFd

(* The two ends of an entry are the two legs of ONE request, in the         *)
(* polarity its state reads and writes with: server-handler.c:147,168,180   *)
(* and 193-196 move descriptors by hand.                                    *)
At(f, fd, x) == fd \in Fds /\ f[fd] = x
Paired(e, c, f) ==
    \/ e.state = "REQRD" /\ At(f, e.in, Rq(c)) /\ e.out = NoFd
    \/ e.state = "REQFWD" /\ At(f, e.in, Rq(c)) /\ At(f, e.out, Pr(c))
    \/ e.state = "RSPFWD" /\ At(f, e.in, Pr(c)) /\ At(f, e.out, Rq(c))
    \/ e.state = "RSPWR" /\ At(f, e.out, Rq(c)) /\ (e.in = NoFd \/ At(f, e.in, Pr(c)))

LegsPaired ==
    status = "run" =>
      \A i \in DOMAIN table :
        table[i].type = "PKT_IN" => \E c \in Conns : Paired(table[i], c, file)

(* No chunk goes astray: what an owner's responder reads is the request of  *)
(* its own connection, what a caller reads is one answer to its own         *)
(* request, whole chunks in order, whichever buffers and descriptors they   *)
(* passed through (the ends swap descriptors but not buffers).              *)
IsPrefixOf(s, t) == Len(s) <= Len(t) /\ \A n \in 1 .. Len(s) : s[n] = t[n]
StreamsIntact ==
    \A c \in Conns :
      /\ IsPrefixOf(got[Pr(c)] \o down[Pr(c)], Chunks(Asked(c)))
      /\ \E who \in {"server", "owner"} :
           IsPrefixOf(got[Rq(c)] \o down[Rq(c)], Chunks(Response(c, who)))

(* The server hangs up on a caller that still listens, once it has an       *)
(* answer for it, only after the whole answer was sent: the poll loop sees   *)
(* the end of a packet only in a write of zero bytes (conn.c:317).          *)
AnswerComplete ==
    [][\A i \in DOMAIN table, c \in Conns :
         /\ status' = "run"
         /\ table[i].type = "PKT_IN" /\ table[i].state = "RSPWR"
         /\ file[table[i].out] = Rq(c) /\ far[Rq(c)] = "open"
         /\ table'[i].type = "NONE"
         => Len(got[Rq(c)]) + Len(down[Rq(c)]) = Parts]_vars

(* The relay as its callers see it: module Relay.  A request is performed   *)
(* at most once, only by a registered owner, and the answer a caller reads  *)
(* is the owner's if and only if the owner performed it.                    *)
answered(c) ==
    CASE Len(got[Rq(c)]) < Parts -> "none"
      [] got[Rq(c)] = Chunks(Response(c, "owner"))  -> "owner"
      [] got[Rq(c)] = Chunks(Response(c, "server")) -> "server"
      [] OTHER -> "garbled"
R == INSTANCE Relay WITH
       performed <- {c \in Conns : got[Pr(c)] = Chunks(Asked(c))},
       answer <- [c \in Conns |-> answered(c)]
RelaySpec == R!Spec

-----------------------------------------------------------------------------
(* The inductive invariant behind NoAbort, DescriptorsOwned and LegsPaired. *)
(* Its parts take the variables they speak of as parameters.               *)

(* An entry is deleted, the listening socket, or paired; what it has read   *)
(* is of the kind its state waits for, and it cannot read beyond the one    *)
(* packet a caller sends, so that nothing is left of a request in the       *)
(* buffer in which the answer will be read.                                 *)
ReqChunks(s, c) == \A n \in 1 .. Len(s) : s[n].type # "RESPONSE" /\ s[n].conn = c
RspChunks(s) == \A n \in 1 .. Len(s) : s[n].type = "RESPONSE"
ReadOK(e, c, u, t) ==
    /\ e.state = "REQRD" =>
         ReqChunks(e.ibuf, c) /\ Len(e.ibuf) + Len(u[Rq(c)]) + t[Rq(c)] <= Parts
    /\ e.state = "REQFWD" => e.ibuf = << >>
    /\ e.state = "RSPFWD" => RspChunks(e.ibuf)
EntryOK(e, f, u, t) ==
    \/ e.type = "NONE" /\ e.in = NoFd /\ e.out = NoFd
    \/ e.type = "LSTN" /\ e.state = "LSTN" /\ At(f, e.in, Listener) /\ e.out = NoFd
    \/ e.type = "PKT_IN" /\ \E c \in Conns : Paired(e, c, f) /\ ReadOK(e, c, u, t)
TableOK(tb, f, u, t) == \A i \in DOMAIN tb : EntryOK(tb[i], f, u, t)

(* No two descriptors refer to one socket. *)
FilesOnce(f) ==
    \A fd, g \in Fds : f[fd] \notin {Free, Leaked} /\ f[fd] = f[g] => fd = g

(* A connection waits for accept at most once and has then no descriptor.   *)
BacklogOK(b, f, fr) ==
    /\ \A m, n \in 1 .. Len(b) : b[m] = b[n] => m = n
    /\ \A n \in 1 .. Len(b) : fr[Rq(b[n])] # "none" /\ \A fd \in Fds : f[fd] # Rq(b[n])
    /\ \A fd \in Fds, c \in Conns : f[fd] = Rq(c) => fr[Rq(c)] # "none"

(* Callers send requests, one packet each; owners send answers. *)
StreamsOK(u, t, fr) ==
    \A c \in Conns :
      /\ ReqChunks(u[Rq(c)], c) /\ RspChunks(u[Pr(c)])
      /\ Len(u[Rq(c)]) + t[Rq(c)] <= Parts
      /\ fr[Rq(c)] = "none" => Len(u[Rq(c)]) = 0

IInv ==
    /\ TypeOK /\ NoAbort
    /\ status = "run" =>
         TableOK(table, file, up, todo) /\ RefsOnce(table) /\ FilesOwned(table, file)
    /\ FilesOnce(file) /\ BacklogOK(backlog, file, far) /\ StreamsOK(up, todo, far)

-----------------------------------------------------------------------------
(* The inductive invariant behind StreamsIntact, AnswerComplete and         *)
(* RelaySpec, in addition to IInv.                                         *)

(* Nothing was answered to c, and its request was not passed on. *)
Fresh(c) == far[Pr(c)] = "none" /\ got[Rq(c)] = << >> /\ down[Rq(c)] = << >>

(* Who answers c: the owner, from the moment the server has dialled it. *)
Answerer(c) == IF far[Pr(c)] = "none" THEN "server" ELSE "owner"
Performed(c) == Len(got[Pr(c)]) = Parts
Sent(s) == Len(got[s]) + Len(down[s])
AllAre(s, p) == \A n \in 1 .. Len(s) : s[n] = p

(* On the two connections of c, in each direction, are chunks of one        *)
(* packet, no more than it has; an owner is dialled for a registered name,  *)
(* and answers what it has read; nobody is answered by an owner that did    *)
(* not perform the request.                                                *)
LegsOK(c) ==
    /\ AllAre(up[Rq(c)], Asked(c)) /\ AllAre(up[Pr(c)], Response(c, "owner"))
    /\ AllAre(got[Pr(c)], Asked(c)) /\ AllAre(down[Pr(c)], Asked(c))
    /\ AllAre(got[Rq(c)], Response(c, Answerer(c)))
    /\ AllAre(down[Rq(c)], Response(c, Answerer(c)))
    /\ Sent(Pr(c)) <= Parts /\ Sent(Rq(c)) <= Parts
    /\ far[Pr(c)] = "none" => got[Pr(c)] = << >> /\ down[Pr(c)] = << >>
    /\ far[Pr(c)] # "none" => ask[c].type = "REQUEST" /\ ask[c].name \in clients
    /\ todo[Pr(c)] > 0 \/ up[Pr(c)] # << >> => far[Pr(c)] # "none" /\ Performed(c)
    /\ got[Rq(c)] # << >> \/ down[Rq(c)] # << >> =>
         ask[c].type = "REQUEST" /\ (far[Pr(c)] # "none" => Performed(c))
    /\ far[Rq(c)] = "none" => Fresh(c)

(* What the entry of c holds complements what its connections carried: the  *)
(* rest of the request, nothing, the answer so far, the rest of the answer. *)
(* Chunks are lost only together with the connection.                       *)
HoldsOK(e, c) ==
    /\ e.state = "REQRD" => Fresh(c) /\ AllAre(e.ibuf, Asked(c)) /\ e.obuf = << >>
    /\ e.state = "REQFWD" =>
         /\ far[Pr(c)] # "none" /\ got[Rq(c)] = << >> /\ down[Rq(c)] = << >>
         /\ AllAre(e.obuf, Asked(c)) /\ Sent(Pr(c)) + Len(e.obuf) <= Parts
    /\ e.state = "RSPFWD" =>
         /\ far[Pr(c)] # "none" /\ got[Rq(c)] = << >> /\ down[Rq(c)] = << >>
         /\ AllAre(e.ibuf, Response(c, "owner")) /\ e.obuf = << >>
         /\ e.ibuf # << >> => Performed(c)
    /\ e.state = "RSPWR" =>
         /\ ask[c].type = "REQUEST" /\ (far[Pr(c)] # "none" => Performed(c))
         /\ AllAre(e.obuf, Response(c, Answerer(c)))
         /\ Sent(Rq(c)) + Len(e.obuf) <= Parts
         /\ far[Rq(c)] = "open" => Sent(Rq(c)) + Len(e.obuf) = Parts

Relaying ==
    /\ \A c \in Conns : LegsOK(c)
    /\ \A n \in 1 .. Len(backlog) : Fresh(backlog[n])
    /\ status = "run" =>
         \A i \in DOMAIN table, c \in Conns :
           table[i].type = "PKT_IN" /\ Paired(table[i], c, file) => HoldsOK(table[i], c)

-----------------------------------------------------------------------------
(* Liveness.  The server is one thread that the scheduler runs; the ends of *)
(* a connection in Conns \ Mute keep sending, reading and closing, and so   *)
(* does the network.  Nobody has to dial, die, refuse or decline.           *)
Fairness ==
    /\ WF_vars(ServerStep)
    /\ \A s \in Legs \X (Conns \ Mute) :
         WF_vars(FarSend(s)) /\ WF_vars(FarRecv(s)) /\ WF_vars(FarClose(s))
    /\ \A s \in Sockets : WF_vars(Bounce(s))

FairSpec == Spec /\ Fairness

(* A caller that asked gets its whole answer: nothing another connection    *)
(* does or stops doing keeps the single thread from serving it.             *)
Served ==
    \A c \in Conns \ Mute :
      far[Rq(c)] = "open" /\ ask[c].type = "REQUEST" ~> Len(got[Rq(c)]) = Parts

(* Whatever dies, refuses or declines, no caller waits forever for an       *)
(* answer or an end of file.                                                *)
NobodyHangs == \A c \in Conns \ Mute : far[Rq(c)] = "open" ~> far[Rq(c)] # "open"

-----------------------------------------------------------------------------
(* What comments of the code say and the code does not do. *)

(* HS_DEL: "An error has occurred during handling of packet; socket should  *)
(* be deleted" (middfs-handler.h:20): the error of one connection costs     *)
(* that connection, never the server.  No handler ignores SIGPIPE.          *)
Survives == status # "killed"
=============================================================================

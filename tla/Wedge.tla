------------------------------- MODULE Wedge -------------------------------
(* The poll loops of the server and of the owners' responders, with sockets  *)
(* that block: a thread that has begun to write a buffer reads and writes     *)
(* nothing else before the kernel has taken all of it (middfs-buf.c:145), and *)
(* a connection holds no more than Cap.                                     *)
(*                                                                         *)
(* The request of a connection goes over two legs, "ask" from the caller to  *)
(* the server and "forward" from there to its owner, and so do the answer:    *)
(* "answer" and "relay".                                                    *)
EXTENDS Integers

CONSTANTS
    Conns,      \* connections with a forwarded request
    Owners,     \* clients that perform requests
    OwnerOf,    \* the owner each connection's request is for
    Server,     \* the server's thread
    Poll,       \* where a thread is that is not in a write
    Cap,        \* what the kernels hold of one direction of a connection
    Sizes       \* sizes of packets

ASSUME OwnersAssumption == OwnerOf \in [Conns -> Owners] /\ Server \notin Owners
ASSUME CapAssumption == Cap \in Nat \ {0} /\ Sizes \subseteq Nat \ {0}

Threads == Owners \cup {Server}
Legs == {"ask", "forward", "answer", "relay"}
Places == Conns \X Legs
ASSUME PollAssumption == Poll \notin Places

VARIABLES
    size,       \* for each connection the sizes of request and answer
    unsent,     \* for each leg what the writer has not written yet
    pipe,       \*   and what is written and not read
    at,         \* for each thread the connection and leg it is in a write of
    ready       \* events that poll has reported and that are not handled yet

vars == <<size, unsent, pipe, at, ready>>

SizeOf(c, l) == IF l \in {"ask", "forward"} THEN size[c].req ELSE size[c].rsp

Init ==
    /\ size \in [Conns -> [req : Sizes, rsp : Sizes]]
    /\ unsent = [c \in Conns |-> [l \in Legs |-> SizeOf(c, l)]]
    /\ pipe = [c \in Conns |-> [l \in Legs |-> 0]]
    /\ at = [t \in Threads |-> Poll]
    /\ ready = [t \in Threads |-> {}]

(* A packet is read to its end. *)
Received(c, l) == unsent[c][l] = 0 /\ pipe[c][l] = 0

-----------------------------------------------------------------------------
(* What a thread polls for: the server in the states REQRD and RSPFWD, and    *)
(* REQFWD and RSPWR, of an entry; a responder in REQRD, and RSPWR.           *)
MayRead_NoAnswer(t, c, l) ==
    (t = Server /\ l = "ask") \/ (t = OwnerOf[c] /\ l = "forward")
MayRead(t, c, l) ==
    \/ t = Server /\ l = "ask"
    \/ t = Server /\ l = "answer" /\ unsent[c]["forward"] = 0
    \/ t = OwnerOf[c] /\ l = "forward"
MayWrite(t, c, l) ==
    \/ t = Server /\ l = "forward" /\ Received(c, "ask")
    \/ t = Server /\ l = "relay" /\ Received(c, "answer")
    \/ t = OwnerOf[c] /\ l = "answer" /\ Received(c, "forward")

Readable(t) == {x \in Places : MayRead(t, x[1], x[2]) /\ pipe[x[1]][x[2]] > 0}
Writable(t) ==
    {x \in Places :
       MayWrite(t, x[1], x[2]) /\ unsent[x[1]][x[2]] > 0 /\ pipe[x[1]][x[2]] < Cap}

Idle(t) == at[t] = Poll /\ ready[t] = {}

(* poll returns when there is an event. *)
Polls_Again(t) ==
    /\ at[t] = Poll
    /\ Readable(t) \cup Writable(t) # {}
    /\ ready' = [ready EXCEPT ![t] = IF @ = {} THEN Readable(t) \cup Writable(t) ELSE {}]
    /\ UNCHANGED <<size, unsent, pipe, at>>
Polls(t) ==
    /\ Idle(t)
    /\ Readable(t) \cup Writable(t) # {}
    /\ ready' = [ready EXCEPT ![t] = Readable(t) \cup Writable(t)]
    /\ UNCHANGED <<size, unsent, pipe, at>>

(* One more of the packet goes into the connection. *)
Puts_Over(c, l) ==
    /\ pipe[c][l] <= Cap
    /\ pipe' = [pipe EXCEPT ![c][l] = @ + 1]
    /\ unsent' = [unsent EXCEPT ![c][l] = @ - 1]
Puts(c, l) ==
    /\ pipe[c][l] < Cap
    /\ pipe' = [pipe EXCEPT ![c][l] = @ + 1]
    /\ unsent' = [unsent EXCEPT ![c][l] = @ - 1]

(* handle_pkt_rd takes some of what is there; it goes into a buffer that      *)
(* grows.                                                                   *)
Reads_Always(t) ==
    /\ \E x \in Readable(t) : \E k \in 1 .. pipe[x[1]][x[2]] :
         pipe' = [pipe EXCEPT ![x[1]][x[2]] = @ - k]
    /\ UNCHANGED <<size, unsent, at, ready>>
Reads(t) ==
    /\ at[t] = Poll
    /\ \E x \in ready[t] :
         /\ MayRead(t, x[1], x[2])
         /\ \E k \in 1 .. pipe[x[1]][x[2]] :
              pipe' = [pipe EXCEPT ![x[1]][x[2]] = @ - k]
         /\ ready' = [ready EXCEPT ![t] = @ \ {x}]
    /\ UNCHANGED <<size, unsent, at>>

(* handle_pkt_wr begins a write of all there is, *)
Begins_Longer(t) ==
    /\ at[t] = Poll
    /\ \E x \in ready[t] :
         /\ MayWrite(t, x[1], x[2]) /\ Puts(x[1], x[2])
         /\ at' = [at EXCEPT ![t] = x]
         /\ ready' = [ready EXCEPT ![t] = @ \ {x}]
    /\ UNCHANGED size
Begins(t) ==
    /\ at[t] = Poll
    /\ \E x \in ready[t] :
         /\ MayWrite(t, x[1], x[2]) /\ Puts(x[1], x[2])
         /\ at' = [at EXCEPT ![t] = IF unsent[x[1]][x[2]] > 1 THEN x ELSE Poll]
         /\ ready' = [ready EXCEPT ![t] = @ \ {x}]
    /\ UNCHANGED size

(* which goes on when there is room, and returns when all is written.        *)
Continues(t) ==
    /\ at[t] # Poll
    /\ Puts(at[t][1], at[t][2])
    /\ at' = [at EXCEPT ![t] = IF unsent[at[t][1]][at[t][2]] > 1 THEN @ ELSE Poll]
    /\ UNCHANGED <<size, ready>>

(* A caller writes its request, and then reads the answer: packet_xchg.      *)
CallerSends(c) ==
    /\ unsent[c]["ask"] > 0
    /\ Puts(c, "ask")
    /\ UNCHANGED <<size, at, ready>>
CallerReads(c) ==
    /\ unsent[c]["ask"] = 0
    /\ \E k \in 1 .. pipe[c]["relay"] : pipe' = [pipe EXCEPT ![c]["relay"] = @ - k]
    /\ UNCHANGED <<size, unsent, at, ready>>

(* The server and an owner, each in a write that only the other's reading    *)
(* would let go on.                                                         *)
WedgedAt(c, d) ==
    /\ OwnerOf[c] = OwnerOf[d]
    /\ at[Server] = <<c, "forward">> /\ pipe[c]["forward"] = Cap
    /\ at[OwnerOf[d]] = <<d, "answer">> /\ pipe[d]["answer"] = Cap
Wedged == \E c, d \in Conns : WedgedAt(c, d)

AllDone == \A c \in Conns, l \in Legs : Received(c, l)

Stopped == (AllDone \/ Wedged) /\ UNCHANGED vars

Step(t) == Polls(t) \/ Reads(t) \/ Begins(t) \/ Continues(t)
Next ==
    \/ \E t \in Threads : Polls(t) \/ Reads(t) \/ Begins(t) \/ Continues(t)
    \/ \E c \in Conns : CallerSends(c) \/ CallerReads(c)
    \/ Stopped

Spec == Init /\ [][Next]_vars

(* Every thread runs on.  The loop handles each event once before it polls    *)
(* again, so that no connection is passed over.                             *)
FairSpec ==
    /\ Spec
    /\ \A t \in Threads : WF_vars(Step(t))
    /\ \A c \in Conns : WF_vars(CallerSends(c)) /\ WF_vars(CallerReads(c))
=============================================================================

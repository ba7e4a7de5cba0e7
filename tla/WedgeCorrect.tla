---------------------------- MODULE WedgeCorrect ----------------------------
(* When the loops with blocking writes may stop, and that they do not        *)
(* otherwise.                                                               *)
EXTENDS Wedge

(* The types of the variables.  A connection never holds more than it can,   *)
(* and a packet is nowhere more than once.                                 *)
TypeOK ==
    /\ size \in [Conns -> [req : Sizes, rsp : Sizes]]
    /\ unsent \in [Conns -> [Legs -> Nat]]
    /\ pipe \in [Conns -> [Legs -> 0 .. Cap]]
    /\ \A c \in Conns, l \in Legs : unsent[c][l] + pipe[c][l] <= SizeOf(c, l)
    /\ at \in [Threads -> Places \cup {Poll}]
    /\ ready \in [Threads -> SUBSET Places]

(* The server and an owner block each other only over a request and an       *)
(* answer that are both more than a connection holds, for one owner.        *)
Large(c, d) ==
    OwnerOf[c] = OwnerOf[d] /\ c # d /\ size[c].req > Cap /\ size[d].rsp > Cap
WedgedByLarge == Wedged => \E c, d \in Conns : Large(c, d)

(* The blocked writes are the only way to stop before every caller has its   *)
(* answer: somebody can go on otherwise.                                   *)
CanHandle(t) ==
    at[t] = Poll /\ \E x \in ready[t] :
      \/ MayRead(t, x[1], x[2]) /\ pipe[x[1]][x[2]] > 0
      \/ MayWrite(t, x[1], x[2]) /\ pipe[x[1]][x[2]] < Cap
CanPoll(t) == Idle(t) /\ Readable(t) \cup Writable(t) # {}
CanContinue(t) == at[t] # Poll /\ pipe[at[t][1]][at[t][2]] < Cap
CanGo ==
    \/ \E t \in Threads : CanPoll(t) \/ CanHandle(t) \/ CanContinue(t)
    \/ \E c \in Conns :
         \/ unsent[c]["ask"] > 0 /\ pipe[c]["ask"] < Cap
         \/ unsent[c]["ask"] = 0 /\ pipe[c]["relay"] > 0
OnlyWedged == CanGo \/ AllDone \/ Wedged

(* Once blocked they stay so: neither reads again, whatever the others do.   *)
WedgeStays == [][\A c, d \in Conns : WedgedAt(c, d) => WedgedAt(c, d)']_vars

(* Without such a pair of packets every caller is answered, though all of    *)
(* them are served by one thread and each owner by one.                     *)
Answered == (~ \E c, d \in Conns : Large(c, d)) => <>AllDone

-----------------------------------------------------------------------------
(* The inductive invariant: a leg is begun when the one before it is over,   *)
(* a thread in a write has more to write, and what poll has reported is still *)
(* so when it is handled.                                                   *)
Sizely == \A c \in Conns, l \in Legs : unsent[c][l] + pipe[c][l] <= SizeOf(c, l)
LegTypes ==
    /\ size \in [Conns -> [req : Sizes, rsp : Sizes]]
    /\ unsent \in [Conns -> [Legs -> Nat]]
    /\ pipe \in [Conns -> [Legs -> 0 .. Cap]]
Ordered ==
    \A c \in Conns :
      /\ unsent[c]["forward"] < size[c].req => Received(c, "ask")
      /\ unsent[c]["answer"] < size[c].rsp => Received(c, "forward")
      /\ unsent[c]["relay"] < size[c].rsp => Received(c, "answer")
LegInv == LegTypes /\ Sizely /\ Ordered

InWrite(t) ==
    at[t] # Poll =>
      /\ at[t] \notin ready[t]
      /\ MayWrite(t, at[t][1], at[t][2]) /\ unsent[at[t][1]][at[t][2]] > 0
Reported(t, c, l) ==
    \/ MayRead(t, c, l) /\ pipe[c][l] > 0
    \/ MayWrite(t, c, l) /\ unsent[c][l] > 0 /\ pipe[c][l] < Cap
ThreadInv(t) ==
    /\ at[t] \in Places \cup {Poll} /\ ready[t] \subseteq Places
    /\ InWrite(t)
    /\ \A x \in ready[t] : Reported(t, x[1], x[2])

IInv ==
    /\ LegInv
    /\ at \in [Threads -> Places \cup {Poll}] /\ ready \in [Threads -> SUBSET Places]
    /\ \A t \in Threads : ThreadInv(t)
=============================================================================

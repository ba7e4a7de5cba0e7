--------------------------- MODULE RegistryCorrect ---------------------------
(* What makes the registry and the start of the clients correct. *)
EXTENDS Registry

(* The types of the variables.  The entries fit into the memory of the       *)
(* vector, which clients_add (middfs-client.c:111) resizes first, and they    *)
(* are those of processes whose packet was taken.                          *)
Found == [kind : {"found"}, asked : Names, found : Entries \cup {None}, by : Procs \cup {None}]
Replies == {Nothing} \cup Found \cup [kind : {"list"}, names : Seq(Nat)]
Registered(c) == \A e \in RangeOf(clients.vec) : c[e.proc] = "taken"
TypeOK ==
    /\ clients \in [vec : Seq(Entries), len : Nat]
    /\ Len(clients.vec) <= clients.len
    /\ Registered(conn)
    /\ restarts \in 0 .. Restarts
    /\ reply \in Replies
    /\ pc \in [Procs -> {"start", "sent", "mounting", "mounted", "gone"}]
    /\ conn \in [Procs -> {"none", "packet", "taken", "lost"}]
    /\ resp \in [Procs -> {"none", "starting", "listening", "deaf"}]

(* A name is found exactly if a process of that name registered since the    *)
(* server started, and the list has one name for each registration: the      *)
(* vector loses and repeats none while it grows and is sorted with equal      *)
(* names in it, and bsearch finds what it is told to look for.             *)
asDirectory ==
    IF reply.kind = "found"
      THEN [kind |-> "found", asked |-> reply.asked, found |-> reply.found] ELSE reply
D == INSTANCE Directory WITH regs <- RangeOf(clients.vec), reply <- asDirectory
DirectorySpec == D!Spec

(* A request is performed by a process of another name only if one of the     *)
(* name asked for registered from the very place that process listens at now *)
(* (a restarted host, a port used again, `address already in use'), and does *)
(* not listen itself any more.                                             *)
Asked == reply.kind = "found"
NoStranger ==
    Asked /\ reply.by # None =>
      \/ conf_get(reply.by, "username") = reply.asked
      \/ \E p \in Procs :
           /\ conf_get(p, "username") = reply.asked /\ PlaceOf(p) = PlaceOf(reply.by)
           /\ client_create(p) \in RangeOf(clients.vec) /\ resp[p] # "listening"

(* A request is performed if every registration of the name asked for is of  *)
(* a process that listens, and there is one: nothing else makes it fail, not *)
(* the other names registered, nor the order they came in.                 *)
OfName(n) == {e \in RangeOf(clients.vec) : e.name = n}
Reached ==
    /\ Asked
    /\ OfName(reply.asked) # {}
    /\ \A e \in OfName(reply.asked) : resp[e.proc] = "listening"
    => reply.by \in {e.proc : e \in OfName(reply.asked)}

(* A listening process has sent its connect packet before (main, lines 180   *)
(* and 194), and may not be registered yet or never be; it can be unknown     *)
(* for good only if its packet was lost or the server restarted since.      *)
Known ==
    \A p \in Procs :
      pc[p] \in {"mounting", "mounted"} =>
        \/ conn[p] \in {"packet", "lost"}
        \/ restarts > 0
        \/ client_create(p) \in RangeOf(clients.vec)

(* A process that has connected ends up gone, or mounted with its responder  *)
(* listening or deaf; and its packet, once sent, is taken or lost.          *)
Settled(p) ==
    \/ pc[p] = "gone"
    \/ pc[p] = "mounted" /\ resp[p] \in {"listening", "deaf"} /\ conn[p] \in {"taken", "lost"}
Settles == \A p \in Procs : <>[]Settled(p)

-----------------------------------------------------------------------------
(* The inductive invariant behind DirectorySpec, Reached and Known: the       *)
(* vector is sorted and holds each process once, two processes do not listen *)
(* at one place, and what was taken is in the vector.                      *)
Once == \A i, j \in DOMAIN clients.vec : clients.vec[i].proc = clients.vec[j].proc => i = j
Alone ==
    \A p, q \in Procs :
      resp[p] = "listening" /\ resp[q] = "listening" /\ PlaceOf(p) = PlaceOf(q) => p = q
Kept ==
    \A p \in Procs :
      conn[p] = "taken" => restarts > 0 \/ client_create(p) \in RangeOf(clients.vec)
Begun ==
    \A p \in Procs :
      /\ pc[p] = "start" => conn[p] = "none"
      /\ pc[p] \in {"sent", "mounting", "mounted"} => conn[p] # "none"
      /\ conn[p] = "packet" => HasName(p) /\ HasPort(p)
IInv == TypeOK /\ Sorted(clients.vec) /\ Once /\ Alone /\ Kept /\ Begun
=============================================================================

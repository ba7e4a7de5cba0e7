------------------------------- MODULE Files -------------------------------
(* The file system as its users see it: the operations that FUSE calls       *)
(* (client-ops.c), what a client does itself and what it asks others for      *)
(* (client-rsrc.c), and what the owner's responder does with a request        *)
(* (client-handler.c), over the disks of all clients.                       *)
(*                                                                         *)
(* How a request travels is the matter of the modules Server and Exchange:    *)
(* here it is at its way, is performed, and is answered, until a process ends. *)
EXTENDS Home, FiniteSets, Naturals

CONSTANTS
    Users, Root,    \* owners: the clients, and the mount's own directory
    Requests,       \* for each user, calls that his programs may make
    MaxFds,         \* descriptors a client has for files and connections
    MaxCalls,       \* bound: calls of all programs together
    MaxFaults       \* bound: processes that end for no reason of theirs

ASSUME UsersAssumption == Root \notin Users /\ None \notin Users
ASSUME NamesAssumption == IsFiniteSet(Names)
ASSUME BoundsAssumption == MaxFds \in Nat /\ MaxCalls \in Nat /\ MaxFaults \in Nat

(* The operations that FUSE may call, by the owner and the name that the path *)
(* stands for, or through what the program has open (fi).                   *)
Unsupported == {"readlink", "mkdir", "unlink", "rmdir", "symlink", "chmod"}
Ops == Unsupported \cup
    {"open", "read", "write", "truncate", "getattr", "access", "rename", "readdir", "link"}
Arg(op) ==
    CASE op = "open" -> SUBSET {"rw", "create", "trunc"}
      [] op = "write" -> Data
      [] op = "chmod" -> BOOLEAN
      [] op = "access" -> {"r", "w", "invalid"}
      [] op = "symlink" -> Names
      [] op = "rename" -> [owner : Users \cup {Root}, name : Names \cup {None}]
      [] OTHER -> {None}
Call(op) ==
    [op : {op}, owner : Users \cup {Root, None}, name : Names \cup {None},
     arg : Arg(op), via : BOOLEAN]
(* A listing that a responder is at: for whom, whether he waits, what it counted *)
Listing == [who : Users, live : BOOLEAN, names : SUBSET Names]
ASSUME NoneAssumption == None \notin Listing /\ \A op \in Ops : None \notin Call(op)
(* A file is read and written through what is open; owner and name are then   *)
(* that file's.  In a user's directory calls are for a name, but for listings. *)
Through == {"read", "write", "truncate", "getattr", "chmod"}
Sensible(c) ==
    IF c.via
    THEN c.op \in Through /\ c.owner = None /\ c.name = None
    ELSE /\ c.op \notin {"read", "write"} /\ c.owner # None
         /\ c.owner \in Users /\ c.op # "readdir" => c.name \in Names
         /\ c.op = "rename" /\ c.arg.owner \in Users => c.arg.name \in Names
ASSUME RequestsAssumption ==
    \A u \in Users : \A c \in Requests[u] : c.op \in Ops /\ c \in Call(c.op) /\ Sensible(c)

VARIABLES
    disk,       \* the directory that each user makes public
    handle,     \* the resource that the user's program has open
    call,       \* the call it is in
    late,       \* a request of his whose caller is gone
    accepted,   \* whose requests his responder has accepted, and not handled
    conns,      \* connections that it has accepted, and not closed
    look,       \* the listing that it is at
    streams,    \* directory streams it has open
    sockets,    \* sockets that a failed connect has left open
    up, listens,    \* his client runs; its responder accepts
    serving, registered,    \* the server runs; whom it knows
    calls, faults

responderVars == <<accepted, conns, look, streams, listens>>
clientVars == <<handle, call, late, sockets, up, responderVars>>
serverVars == <<serving, registered>>
boundVars == <<calls, faults>>
vars == <<disk, clientVars, serverVars, boundVars>>

-----------------------------------------------------------------------------
(* Calls and their resources *)

(* client_rsrc_init: what mr_type is for a user *)
MrType(u, owner) ==
    IF owner = Root THEN "root" ELSE IF owner = u THEN "local" ELSE "network"

(* Operations through fi->fh take the resource that open left there.         *)
Resource(u, r) ==
    IF r.via THEN [r EXCEPT !.owner = handle[u].owner, !.name = handle[u].name] ELSE r

(* A listing is opened, and then asked for, over a connection of its own.      *)
Way == {"opening", "asked"}
OnItsWay(u) == call[u] # None /\ call[u].stage \in Way
AtOwner(o) == {u \in Users : OnItsWay(u) /\ call[u].req.owner = o}

(* What is sent: client_rsrc_open comes before client_rsrc_readdir.           *)
Sent(u) ==
    IF call[u].stage = "opening" THEN [call[u].req EXCEPT !.op = "open", !.arg = {}]
    ELSE call[u].req

In(r, stage, how, value) == [req |-> r, stage |-> stage, how |-> how, value |-> value]
Asking(r, stage) == In(r, stage, "none", None)
First(r) == IF r.op = "readdir" /\ r.owner # Root THEN "opening" ELSE "asked"
Answered(r, how, value) == In(r, "answered", how, value)
Refusal(r) == Answered(r, "no", None)
Lost(r) == Answered(r, "lost", None)

IsHeld(u) == handle[u] # None /\ handle[u].file # None
HeldBy(h) == IF h = None THEN {} ELSE {h.file} \ {None}
One(p) == IF p THEN 1 ELSE 0
UsedFds(u) == streams[u] + sockets[u] + conns[u] + One(IsHeld(u)) + One(OnItsWay(u))
HasRoom_Full(u) == UsedFds(u) <= MaxFds
HasRoom(u) == UsedFds(u) < MaxFds

-----------------------------------------------------------------------------
(* A call on the user's own directory: the MR_LOCAL branches *)

LocalOpen(u, r) == IF HasRoom(u) THEN Open(disk[u], r.name, r.arg) ELSE Fails(disk[u])

Target_Name(u, r) == Reached(disk[u], r.name)
Target(u, r) == IF r.via THEN handle[u].file ELSE Reached(disk[u], r.name)

(* What is open for reading only is not written to.                         *)
LocalWrite(u, r, x) ==
    IF handle[u].rw THEN Pwrite(disk[u], Target(u, r), x) ELSE Fails(disk[u])
LocalTruncate(u, r) ==
    IF r.via THEN LocalWrite(u, r, Empty) ELSE Truncate(disk[u], Target(u, r))
LocalChmod(u, r) ==
    Chmod(disk[u], IF r.via THEN Target(u, r) ELSE disk[u].names[r.name], r.arg)
LocalRename(u, r) ==
    IF r.arg.owner = u THEN Rename(disk[u], r.name, r.arg.name) ELSE Fails(disk[u])
LocalReaddir(u) == DoneIf(HasRoom(u), disk[u], disk[u], Named(disk[u]))

Local(u, r) ==
    LET d == disk[u] IN
    CASE r.op = "open"     -> LocalOpen(u, r)
      [] r.op = "read"     -> Pread(d, Target(u, r))
      [] r.op = "write"    -> LocalWrite(u, r, r.arg)
      [] r.op = "truncate" -> LocalTruncate(u, r)
      [] r.op = "chmod"    -> LocalChmod(u, r)
      [] r.op = "getattr"  -> Stat(d, d.names[r.name])
      [] r.op = "access"   -> Access(d, Target(u, r), r.arg)
      [] r.op = "readlink" -> Readlink(d, r.name)
      [] r.op = "mkdir"    -> Make(d, r.name, NewNode("dir", None))
      [] r.op = "symlink"  -> Make(d, r.name, NewNode("link", r.arg))
      [] r.op = "unlink"   -> Unlink(d, r.name)
      [] r.op = "rmdir"    -> Rmdir(d, r.name)
      [] r.op = "rename"   -> LocalRename(u, r)
      [] r.op = "readdir"  -> LocalReaddir(u)

Opened(u, r, file) ==
    [owner |-> r.owner, name |-> r.name, file |-> file, rw |-> "rw" \in r.arg]

Valued == {"read", "getattr", "readlink", "readdir"}
Value(r, t) == IF r.op \in Valued THEN t.value ELSE None

LocalCall(u, r) ==
    LET t == Local(u, r) IN
    /\ MrType(u, r.owner) = "local"
    /\ call' = [call EXCEPT ![u] =
                  IF t.ok THEN Answered(r, "ok", Value(r, t)) ELSE Refusal(r)]
    /\ handle' = [handle EXCEPT ![u] =
                    IF r.op = "open" /\ t.ok THEN Opened(u, r, t.value) ELSE @]
    /\ disk' = [disk EXCEPT ![u] = Reclaim(t.disk, HeldBy(handle'[u]))]
    /\ UNCHANGED <<late, sockets, up, responderVars, serverVars, faults>>

(* middfs_release *)
Releases(u) ==
    /\ up[u] /\ call[u] = None /\ handle[u] # None
    /\ handle' = [handle EXCEPT ![u] = None]
    /\ disk' = [disk EXCEPT ![u] = Reclaim(@, {})]
    /\ UNCHANGED <<call, late, sockets, up, responderVars, serverVars, boundVars>>

-----------------------------------------------------------------------------
(* A call on what others have, or on the mount's own directory *)

AtOnce(u, r) ==
    IF r.owner = Root /\ r.op \in {"getattr", "open"} THEN Answered(r, "ok", None) ELSE Refusal(r)
IsAtOnce(u, r) ==
    \/ r.op \in Unsupported
    \/ r.owner = Root /\ r.op \in {"getattr", "open", "read", "write"}
    \/ r.op = "rename" /\ MrType(u, r.owner) # MrType(u, r.arg.owner)

(* packet_xchg, as far as the connection to the server; when connect fails,    *)
(* the socket stays open.                                                   *)
Begun(u, r, stage) ==
    IF HasRoom(u) /\ serving THEN Asking(r, stage) ELSE Answered(r, "error", None)
Leaked(u) == One(HasRoom(u) /\ ~ serving)

RemoteCall(u, r) ==
    /\ MrType(u, r.owner) # "local"
    /\ call' = [call EXCEPT ![u] = IF IsAtOnce(u, r) THEN AtOnce(u, r) ELSE Begun(u, r, First(r))]
    /\ sockets' = [sockets EXCEPT ![u] = IF IsAtOnce(u, r) THEN @ ELSE @ + Leaked(u)]
    /\ UNCHANGED <<disk, handle, late, up, responderVars, serverVars, faults>>

(* middfs_readdir goes on to client_rsrc_readdir, and its own exchange.       *)
AsksAgain(u) ==
    /\ call[u] # None /\ call[u].stage = "opened"
    /\ call' = [call EXCEPT ![u] = Begun(u, @.req, "asked")]
    /\ sockets' = [sockets EXCEPT ![u] = @ + Leaked(u)]
    /\ UNCHANGED <<disk, handle, late, up, responderVars, serverVars, boundVars>>

(* A request that an owner has accepted is a call's, or a late one.           *)
Connection == Users \X {"call", "late"}
Listed(v) == \E o \in Users : look[o] # None /\ look[o].who = v /\ look[o].live
Heard(v) == Listed(v) \/ \E o \in Users : <<v, "call">> \in accepted[o]
IsLate(o, v) == late[v] # None /\ late[v].owner = o

(* What is accepted when the calls of some come to an end, of which some stay. *)
Abandoned(o, left, stay) ==
    {c \in accepted[o] : c[1] \in left => c[2] = "late"} \cup
    {<<v, "late">> : v \in {x \in stay : <<x, "call">> \in accepted[o]}}

(* A client process ends, with all it has open and all that is asked of it;   *)
(* what it asked itself may still be performed, and is if it was accepted.    *)
Dealing(u) ==
    {c \in Connection :
       /\ c[1] # u
       /\ IF c[2] = "late" THEN IsLate(u, c[1])
          ELSE /\ call[c[1]] # None /\ call[c[1]].req.owner = u
               /\ OnItsWay(c[1]) \/ call[c[1]].how = "ok"}
Remains(u) == OnItsWay(u) /\ call[u].req.owner \in Users /\ late[u] = None /\ ~ Listed(u)
Ends(u) ==
    \E gone \in SUBSET Dealing(u), stays \in {FALSE, Remains(u)} :
    /\ accepted[u] \subseteq gone /\ (Heard(u) /\ Remains(u) => stays)
    /\ look[u] # None /\ look[u].live => <<look[u].who, "call">> \in gone
    /\ up' = [up EXCEPT ![u] = FALSE] /\ listens' = [listens EXCEPT ![u] = FALSE]
    /\ handle' = [handle EXCEPT ![u] = None]
    /\ disk' = [disk EXCEPT ![u] = Reclaim(@, {})]
    /\ streams' = [streams EXCEPT ![u] = 0] /\ sockets' = [sockets EXCEPT ![u] = 0]
    /\ conns' = [conns EXCEPT ![u] = 0]
    /\ accepted' = [o \in Users |->
                      IF o = u THEN {} ELSE Abandoned(o, {u}, IF stays THEN {u} ELSE {})]
    /\ call' = [v \in Users |-> IF v = u THEN None
                                ELSE IF <<v, "call">> \in gone THEN Lost(call[v].req)
                                ELSE call[v]]
    /\ late' = [v \in Users |-> IF v = u /\ stays THEN Sent(u)
                                ELSE IF <<v, "late">> \in gone THEN None
                                ELSE late[v]]
    /\ look' = [o \in Users |->
                  IF o = u THEN None
                  ELSE IF look[o] # None /\ look[o].who = u THEN [look[o] EXCEPT !.live = FALSE]
                  ELSE look[o]]
    /\ UNCHANGED serverVars

(* middfs_link aborts. *)
Calls(u) ==
    /\ up[u] /\ call[u] = None /\ calls < MaxCalls
    /\ calls' = calls + 1
    /\ \E c \in Requests[u] :
         /\ IF c.op = "open" THEN handle[u] = None ELSE c.via => handle[u] # None
         /\ \/ c.op # "link" /\ LocalCall(u, Resource(u, c))
            \/ c.op # "link" /\ RemoteCall(u, Resource(u, c))
            \/ c.op = "link" /\ Ends(u) /\ UNCHANGED faults

-----------------------------------------------------------------------------
(* The owner's responder: server_loop and handle_request *)

(* One thread does it all, a listing in two steps.                          *)
Idle_Listing(o) == up[o]
Idle(o) == up[o] /\ look[o] = None

(* The server has connected for a call that waits, or a late request comes.   *)
Waits(o, u) == serving /\ o \in registered /\ u \in AtOwner(o) /\ ~ Heard(u)
Comes(o, u) == IsLate(o, u) /\ <<u, "late">> \notin accepted[o]

(* What is accepted has its descriptor from then on.                        *)
Accepts(o) ==
    /\ Idle(o) /\ listens[o] /\ HasRoom(o)
    /\ \E u \in Users \ {o} :
         \/ Waits(o, u) /\ accepted' = [accepted EXCEPT ![o] = @ \cup {<<u, "call">>}]
         \/ Comes(o, u) /\ accepted' = [accepted EXCEPT ![o] = @ \cup {<<u, "late">>}]
    /\ conns' = [conns EXCEPT ![o] = @ + 1]
    /\ UNCHANGED <<disk, handle, call, late, look, streams, sockets, up, listens,
                   serverVars, boundVars>>

(* Without a descriptor for accept the listening socket is given up; what was  *)
(* accepted before is not.                                                  *)
Deafened_Emptied(o) ==
    listens' = [listens EXCEPT ![o] = FALSE] /\ accepted' = [accepted EXCEPT ![o] = {}]
Deafened(o) == listens' = [listens EXCEPT ![o] = FALSE] /\ UNCHANGED accepted
Taken_Again(u) == late' = late
Taken(u) == late' = [late EXCEPT ![u] = None]
AcceptFails(o) ==
    /\ Idle(o) /\ listens[o] /\ ~ HasRoom(o)
    /\ \E u \in Users \ {o} :
         \/ Waits(o, u) /\ call' = [call EXCEPT ![u] = Lost(@.req)] /\ UNCHANGED late
         \/ Comes(o, u) /\ Taken(u) /\ UNCHANGED call
    /\ Deafened(o)
    /\ UNCHANGED <<disk, handle, conns, look, streams, sockets, up, serverVars, boundVars>>

Handled(o, r) ==
    LET d == disk[o]
        file == Open(d, r.name, {"rw"})
    IN
    CASE r.op \in {"open", "read", "write", "readdir"} /\ ~ HasRoom(o) -> Fails(d)
      [] r.op = "open" /\ HasRoom(o)  -> IF r.name = None THEN Done(d, None) ELSE Open(d, r.name, r.arg)
      [] r.op = "read" /\ HasRoom(o)  -> IF file.ok THEN Pread(d, file.value) ELSE Fails(d)
      [] r.op = "write" /\ HasRoom(o) -> IF file.ok THEN Pwrite(d, file.value, r.arg) ELSE Fails(d)
      [] r.op = "getattr"  -> Stat(d, Reached(d, r.name))
      [] r.op = "access"   -> Access(d, Reached(d, r.name), r.arg)
      [] r.op = "truncate" -> Truncate(d, Reached(d, r.name))
      [] r.op = "rename"   -> Rename(d, r.name, r.arg.name)

Response(u, t) ==
    LET r == call[u].req IN
    CASE ~ t.ok -> Refusal(r)
      [] t.ok /\ call[u].stage = "opening" -> Asking(r, "opened")
      [] t.ok /\ call[u].stage = "asked" -> Answered(r, "ok", Value(r, t))

(* The connection stays open for the answer, until all of it is written.      *)
Unanswered(o) == Cardinality(accepted[o]) + One(look[o] # None)
Serves(o, c) == c \in accepted[o] /\ accepted' = [accepted EXCEPT ![o] = @ \ {c}]
HandlesRequest(o) ==
    /\ Idle(o)
    /\ \E u \in Users \ {o} :
         \/ /\ Serves(o, <<u, "call">>)
            /\ Sent(u).op = "readdir" => ~ HasRoom(o)
            /\ LET t == Handled(o, Sent(u)) IN
               /\ disk' = [disk EXCEPT ![o] = Reclaim(t.disk, HeldBy(handle[o]))]
               /\ call' = [call EXCEPT ![u] = Response(u, t)]
            /\ UNCHANGED late
         \/ /\ Serves(o, <<u, "late">>)
            /\ late[u].op = "readdir" => ~ HasRoom(o)
            /\ disk' = [disk EXCEPT ![o] =
                          Reclaim(Handled(o, late[u]).disk, HeldBy(handle[o]))]
            /\ Taken(u)
            /\ UNCHANGED call
    /\ UNCHANGED <<handle, conns, look, streams, sockets, up, listens, serverVars, boundVars>>

Closes(o) ==
    /\ Idle(o) /\ Unanswered(o) < conns[o]
    /\ conns' = [conns EXCEPT ![o] = @ - 1]
    /\ UNCHANGED <<disk, handle, call, late, accepted, look, streams, sockets, up, listens,
                   serverVars, boundVars>>

(* handle_request_readdir counts the entries, and reads them again.  The      *)
(* stream is not closed.                                                    *)
CountsEntries(o) ==
    /\ Idle(o) /\ HasRoom(o)
    /\ \E u \in Users \ {o} :
         \/ /\ Serves(o, <<u, "call">>) /\ Sent(u).op = "readdir"
            /\ look' = [look EXCEPT ![o] = [who |-> u, live |-> TRUE, names |-> Named(disk[o])]]
            /\ UNCHANGED late
         \/ /\ Serves(o, <<u, "late">>) /\ late[u].op = "readdir"
            /\ look' = [look EXCEPT ![o] = [who |-> u, live |-> FALSE, names |-> Named(disk[o])]]
            /\ Taken(u)
    /\ streams' = [streams EXCEPT ![o] = @ + 1]
    /\ UNCHANGED <<disk, call, handle, conns, sockets, up, listens, serverVars, boundVars>>

(* More entries than were counted go beyond the array, which may do no harm.  *)
ReadsEntries(o) ==
    /\ look[o] # None
    /\ \E names \in SUBSET Named(disk[o]) :
         /\ Cardinality(names) = Cardinality(look[o].names)
         /\ call' = IF look[o].live
                    THEN [call EXCEPT ![look[o].who] = Answered(@.req, "ok", names)]
                    ELSE call
    /\ look' = [look EXCEPT ![o] = None]
    /\ UNCHANGED <<disk, handle, late, accepted, conns, streams, sockets, up, listens,
                   serverVars, boundVars>>

(* Or the process ends; with fewer than were counted it does, at a name that  *)
(* is NULL.                                                                 *)
MisreadsEntries(o) ==
    /\ look[o] # None
    /\ Cardinality(Named(disk[o])) # Cardinality(look[o].names)
    /\ Ends(o)
    /\ UNCHANGED boundVars

-----------------------------------------------------------------------------
(* The server, as far as the callers see it *)

RootAnswer(r) ==
    CASE r.op = "readdir" -> Answered(r, "ok", registered)
      [] r.op = "access" /\ r.arg # "invalid" -> Answered(r, "ok", None)
      [] OTHER -> Refusal(r)

(* It answers itself, or fails to connect to the owner and hangs up.         *)
ServerAnswers(u) ==
    /\ serving /\ OnItsWay(u) /\ ~ Heard(u)
    /\ LET r == call[u].req IN
       \/ r.owner = Root /\ call' = [call EXCEPT ![u] = RootAnswer(r)]
       \/ /\ r.owner # Root /\ r.owner \notin registered
          /\ call' = [call EXCEPT ![u] = Refusal(r)]
       \/ /\ r.owner \in registered /\ ~ listens[r.owner]
          /\ call' = [call EXCEPT ![u] = Lost(r)]
    /\ UNCHANGED <<disk, handle, late, sockets, up, responderVars, serverVars, boundVars>>

(* A late request finds its owner gone, or deaf. *)
LateIsLost(u) ==
    /\ late[u] # None /\ Comes(late[u].owner, u) /\ ~ listens[late[u].owner]
    /\ Taken(u)
    /\ UNCHANGED <<disk, handle, call, sockets, up, responderVars, serverVars, boundVars>>

(* The server ends: callers see the end of their connections, owners perform  *)
(* what has reached them.                                                   *)
ServerEnds ==
    /\ serving /\ faults < MaxFaults
    /\ serving' = FALSE /\ registered' = {} /\ faults' = faults + 1
    /\ \E stay \in SUBSET {u \in Users : Remains(u)} :
         /\ late' = [u \in Users |-> IF u \in stay THEN Sent(u) ELSE late[u]]
         /\ accepted' = [o \in Users |-> Abandoned(o, Users, stay)]
    /\ call' = [u \in Users |-> IF OnItsWay(u) THEN Lost(call[u].req) ELSE call[u]]
    /\ look' = [o \in Users |-> IF look[o] = None THEN None ELSE [look[o] EXCEPT !.live = FALSE]]
    /\ UNCHANGED <<disk, handle, conns, streams, sockets, up, listens, calls>>
ServerStarts ==
    /\ ~ serving /\ serving' = TRUE
    /\ UNCHANGED <<disk, clientVars, registered, boundVars>>

-----------------------------------------------------------------------------
(* The call returns *)

IsWrite(u) == call[u].req.op = "write" /\ call[u].req.owner \notin {u, Root}

(* client_rsrc_write asserts that the answer is MRSP_OK.                     *)
Aborts(u) ==
    /\ call[u] # None /\ call[u].stage = "answered"
    /\ IsWrite(u) /\ call[u].how \in {"no", "lost"}
    /\ Ends(u)
    /\ UNCHANGED boundVars

(* Without an answer it looks at what the packet held before, which may pass.  *)
Returns(u) ==
    /\ call[u] # None /\ call[u].stage = "answered"
    /\ ~ (IsWrite(u) /\ call[u].how = "no")
    /\ call' = [call EXCEPT ![u] = None]
    /\ LET r == call[u].req IN
       handle' = [handle EXCEPT ![u] =
                    IF r.op = "open" /\ r.owner # u /\ call[u].how = "ok"
                    THEN Opened(u, r, None) ELSE @]
    /\ UNCHANGED <<disk, late, sockets, up, responderVars, serverVars, boundVars>>

-----------------------------------------------------------------------------
IsKilled(u) == up[u] /\ faults < MaxFaults /\ faults' = faults + 1 /\ Ends(u) /\ UNCHANGED calls

(* A client starts and registers. *)
Starts(u) ==
    /\ ~ up[u] /\ serving
    /\ up' = [up EXCEPT ![u] = TRUE] /\ listens' = [listens EXCEPT ![u] = TRUE]
    /\ registered' = registered \cup {u}
    /\ UNCHANGED <<disk, handle, call, late, accepted, conns, look, streams, sockets, serving,
                   boundVars>>

(* Each user has a file. *)
NoFiles == [names |-> [n \in Names |-> None], nodes |-> [f \in Files |-> None]]
OneFile == Make(NoFiles, CHOOSE n \in Names : TRUE, NewNode("file", Empty)).disk
Init ==
    /\ disk = [u \in Users |-> OneFile]
    /\ handle = [u \in Users |-> None] /\ call = [u \in Users |-> None]
    /\ late = [u \in Users |-> None] /\ look = [u \in Users |-> None]
    /\ accepted = [u \in Users |-> {}] /\ conns = [u \in Users |-> 0]
    /\ streams = [u \in Users |-> 0] /\ sockets = [u \in Users |-> 0]
    /\ up = [u \in Users |-> TRUE] /\ listens = [u \in Users |-> TRUE]
    /\ serving = TRUE /\ registered = Users
    /\ calls = 0 /\ faults = 0

Responds(o) ==
    \/ Accepts(o) \/ AcceptFails(o) \/ HandlesRequest(o) \/ Closes(o)
    \/ CountsEntries(o) \/ ReadsEntries(o) \/ MisreadsEntries(o)
ServerStep == ServerStarts \/ \E u \in Users : ServerAnswers(u) \/ LateIsLost(u)
CallGoesOn(u) == AsksAgain(u) \/ Aborts(u) \/ Returns(u)

Next ==
    \/ \E u \in Users :
         Calls(u) \/ Releases(u) \/ Responds(u) \/ CallGoesOn(u) \/ IsKilled(u) \/ Starts(u)
    \/ ServerStep \/ ServerEnds

Spec == Init /\ [][Next]_vars

(* Every process that runs goes on; none need end or be started again.        *)
FairSpec ==
    /\ Spec /\ WF_vars(ServerStep)
    /\ \A u \in Users : WF_vars(Responds(u)) /\ WF_vars(CallGoesOn(u))
=============================================================================

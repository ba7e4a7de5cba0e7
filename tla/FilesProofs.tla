----------------------------- MODULE FilesProofs -----------------------------
(***************************************************************************)
(* What changes a directory, what becomes of a request that is accepted, and  *)
(* what answers say, for any users, files, programs and descriptors.         *)
(***************************************************************************)
EXTENDS FilesCorrect, FiniteSetTheorems, TLAPS

-----------------------------------------------------------------------------
(* Directories *)

(* All that matters here of a disk: where its names point. *)
Shaped(d) ==
    \E names \in [Names -> Files \cup {None}] : \E nodes :
        d = [names |-> names, nodes |-> nodes]

LEMMA LinkShaped ==
    ASSUME NEW d, Shaped(d), NEW n, NEW f \in Files \cup {None}
    PROVE  Shaped(Link(d, n, f))
<1>1. PICK names \in [Names -> Files \cup {None}] : \E nodes :
        d = [names |-> names, nodes |-> nodes]
  BY DEF Shaped
<1>2. PICK nodes : d = [names |-> names, nodes |-> nodes] BY <1>1
<1>3. Link(d, n, f) = [names |-> [names EXCEPT ![n] = f], nodes |-> nodes]
  BY <1>2 DEF Link
<1>4. [names EXCEPT ![n] = f] \in [Names -> Files \cup {None}] OBVIOUS
<1> QED BY <1>3, <1>4 DEF Shaped

LEMMA NodesShaped ==
    ASSUME NEW d, Shaped(d), NEW nodes
    PROVE  Shaped([d EXCEPT !.nodes = nodes])
<1>1. PICK names \in [Names -> Files \cup {None}] : \E old :
        d = [names |-> names, nodes |-> old]
  BY DEF Shaped
<1>2. [d EXCEPT !.nodes = nodes] = [names |-> names, nodes |-> nodes] BY <1>1
<1> QED BY <1>2 DEF Shaped

LEMMA DoneIfShaped ==
    ASSUME NEW d, Shaped(d), NEW p, NEW e, p => Shaped(e), NEW v
    PROVE  Shaped(DoneIf(p, d, e, v).disk)
<1>1. DoneIf(p, d, e, v).disk = IF p THEN e ELSE d BY DEF DoneIf, Done, Fails
<1> QED BY <1>1

LEMMA StoreShaped ==
    ASSUME NEW d, Shaped(d), NEW f, NEW x
    PROVE  Shaped(Store(d, f, x))
<1>1. PICK names \in [Names -> Files \cup {None}] : \E old :
        d = [names |-> names, nodes |-> old]
  BY DEF Shaped
<1>2. PICK old : d = [names |-> names, nodes |-> old] BY <1>1
<1>3. Store(d, f, x) =
        [names |-> names,
         nodes |-> [g \in Files |-> IF g = f THEN [old[g] EXCEPT !.data = x] ELSE old[g]]]
  BY <1>2 DEF Store
<1> QED BY <1>3 DEF Shaped

LEMMA MakeShaped ==
    ASSUME NEW d, Shaped(d), NEW n, NEW node
    PROVE  Shaped(Make(d, n, node).disk)
<1>1. CASE Free(d) = {} \/ n \in Named(d) BY <1>1 DEF Make, Fails
<1>2. CASE ~ (Free(d) = {} \/ n \in Named(d))
  <2>1. PICK f \in Files : Make(d, n, node).disk = [Link(d, n, f) EXCEPT !.nodes[f] = node]
    BY <1>2 DEF Make, Free, Done
  <2>2. Shaped(Link(d, n, f)) BY LinkShaped
  <2>3. Shaped([Link(d, n, f) EXCEPT !.nodes = [Link(d, n, f).nodes EXCEPT ![f] = node]])
    BY <2>2, NodesShaped
  <2> QED BY <2>1, <2>3
<1> QED BY <1>1, <1>2

LEMMA OpenShaped ==
    ASSUME NEW d, Shaped(d), NEW n, NEW flags
    PROVE  Shaped(Open(d, n, flags).disk)
<1>1. CASE Reached(d, n) = None
  BY <1>1, MakeShaped DEF Open, Fails
<1>2. CASE Reached(d, n) # None
  BY <1>2, DoneIfShaped, StoreShaped DEF Open
<1> QED BY <1>1, <1>2

LEMMA RenameShaped ==
    ASSUME NEW d, Shaped(d), NEW n, NEW m
    PROVE  Shaped(Rename(d, n, m).disk)
<1>1. n \in Named(d) => d.names[n] \in Files BY DEF Shaped, Named
<1>2. n \in Named(d) => Shaped(Link(Link(d, n, None), m, d.names[n]))
  BY <1>1, LinkShaped
<1> QED BY <1>2, DoneIfShaped DEF Rename

(* Opening a file for nothing in particular changes nothing. *)
LEMMA OpenForNothing ==
    ASSUME NEW d, NEW n
    PROVE  Open(d, n, {}).disk = d
    BY DEF Open, Fails, DoneIf, Done

(* What is reclaimed has no name. *)
LEMMA ReclaimUnseen ==
    ASSUME NEW d, Shaped(d), NEW held
    PROVE  Shaped(Reclaim(d, held)) /\ Seen(Reclaim(d, held)) = Seen(d)
<1>1. PICK names \in [Names -> Files \cup {None}] : \E old :
        d = [names |-> names, nodes |-> old]
  BY DEF Shaped
<1>2. PICK old : d = [names |-> names, nodes |-> old] BY <1>1
<1>3. Reclaim(d, held) =
        [names |-> names,
         nodes |-> [f \in Files |->
                      IF f \in held \/ \E n \in Names : names[n] = f THEN old[f] ELSE None]]
  BY <1>2 DEF Reclaim
<1>4. Shaped(Reclaim(d, held)) BY <1>3 DEF Shaped
<1>5. Named(Reclaim(d, held)) = Named(d) BY <1>2, <1>3 DEF Named
<1>6. \A n \in Named(d) : NodeAt(Reclaim(d, held), n) = NodeAt(d, n)
  BY <1>2, <1>3 DEF Named, NodeAt
<1> QED BY <1>4, <1>5, <1>6 DEF Seen

-----------------------------------------------------------------------------
(* What the clients do to a directory *)

LocalOps == Ops \ {"link"}
SentOps == {"open", "read", "write", "truncate", "getattr", "access", "rename", "readdir"}

LEMMA LocalShaped ==
    ASSUME NEW u \in Users, Shaped(disk[u]), NEW r, r.op \in LocalOps
    PROVE  Shaped(Local(u, r).disk)
<1> DEFINE d == disk[u]
<1>f. Shaped(Fails(d).disk) BY DEF Fails
<1>l. \A n : Shaped(Link(d, n, None)) BY LinkShaped
<1>s. \A f, x : Shaped(Store(d, f, x)) BY StoreShaped
<1>p. \A f, x : Shaped(Pwrite(d, f, x).disk) BY <1>s, DoneIfShaped DEF Pwrite
<1>1. CASE r.op = "open" BY <1>1, <1>f, OpenShaped DEF Local, LocalOpen
<1>2. CASE r.op = "read" BY <1>2, DoneIfShaped DEF Local, Pread
<1>w. \A x : Shaped(LocalWrite(u, r, x).disk) BY <1>f, <1>p DEF LocalWrite
<1>3. CASE r.op = "write" BY <1>3, <1>w DEF Local
<1>4. CASE r.op = "truncate" 
  BY <1>4, <1>w, <1>s, DoneIfShaped DEF Local, LocalTruncate, Truncate
<1>5. CASE r.op = "chmod"
  <2>1. \A f, ro : Shaped(Chmod(d, f, ro).disk)
    <3> TAKE f, ro
    <3>1. Shaped([d EXCEPT !.nodes = [d.nodes EXCEPT ![f].ro = ro]]) BY NodesShaped
    <3> QED BY <3>1, DoneIfShaped DEF Chmod
  <2> QED BY <1>5, <2>1 DEF Local, LocalChmod
<1>6. CASE r.op = "getattr" BY <1>6, DoneIfShaped DEF Local, Stat
<1>7. CASE r.op = "access" BY <1>7, DoneIfShaped DEF Local, Access
<1>8. CASE r.op = "readlink" BY <1>8, DoneIfShaped DEF Local, Readlink
<1>9. CASE r.op = "mkdir" BY <1>9, MakeShaped DEF Local
<1>10. CASE r.op = "symlink" BY <1>10, MakeShaped DEF Local
<1>11. CASE r.op = "unlink" BY <1>11, <1>l, DoneIfShaped DEF Local, Unlink
<1>12. CASE r.op = "rmdir" BY <1>12, <1>l, DoneIfShaped DEF Local, Rmdir
<1>13. CASE r.op = "rename" BY <1>13, <1>f, RenameShaped DEF Local, LocalRename
<1>14. CASE r.op = "readdir" BY <1>14, DoneIfShaped DEF Local, LocalReaddir
<1> QED
  BY <1>1, <1>2, <1>3, <1>4, <1>5, <1>6, <1>7, <1>8, <1>9, <1>10, <1>11, <1>12, <1>13, <1>14
  DEF LocalOps, Ops, Unsupported

LEMMA HandledShaped ==
    ASSUME NEW o \in Users, Shaped(disk[o]), NEW r, r.op \in SentOps,
           r.op = "readdir" => ~ HasRoom(o)
    PROVE  Shaped(Handled(o, r).disk)
<1> DEFINE d == disk[o]
<1>f. Shaped(Fails(d).disk) BY DEF Fails
<1>s. \A f, x : Shaped(Store(d, f, x)) BY StoreShaped
<1>0. CASE r.op \in {"open", "read", "write", "readdir"} /\ ~ HasRoom(o)
  BY <1>0, <1>f DEF Handled
<1>1. CASE r.op = "open" /\ HasRoom(o)
  BY <1>1, OpenShaped DEF Handled, Done
<1>2. CASE r.op = "read" /\ HasRoom(o)
  BY <1>2, <1>f, DoneIfShaped DEF Handled, Pread
<1>3. CASE r.op = "write" /\ HasRoom(o)
  BY <1>3, <1>f, <1>s, DoneIfShaped DEF Handled, Pwrite
<1>4. CASE r.op = "getattr" BY <1>4, DoneIfShaped DEF Handled, Stat
<1>5. CASE r.op = "access" BY <1>5, DoneIfShaped DEF Handled, Access
<1>6. CASE r.op = "truncate" BY <1>6, <1>s, DoneIfShaped DEF Handled, Truncate
<1>7. CASE r.op = "rename" BY <1>7, RenameShaped DEF Handled
<1> QED BY <1>0, <1>1, <1>2, <1>3, <1>4, <1>5, <1>6, <1>7 DEF SentOps

(* An open that comes before a listing changes nothing. *)
LEMMA FirstOpen ==
    ASSUME NEW o \in Users, NEW r, r.op = "open", r.arg = {}
    PROVE  Handled(o, r).disk = disk[o]
<1>1. CASE HasRoom(o) BY <1>1, OpenForNothing DEF Handled, Done
<1>2. CASE ~ HasRoom(o) BY <1>2 DEF Handled, Fails
<1> QED BY <1>1, <1>2

-----------------------------------------------------------------------------
(* The inductive invariant: first, which requests are sent and where names     *)
(* point.                                                                   *)
Flags ==
    /\ up \in [Users -> BOOLEAN] /\ listens \in [Users -> BOOLEAN]
    /\ streams \in [Users -> Nat] /\ sockets \in [Users -> Nat] /\ conns \in [Users -> Nat]
Functions ==
    /\ disk = [u \in Users |-> disk[u]] /\ call = [u \in Users |-> call[u]]
    /\ late = [u \in Users |-> late[u]] /\ look = [u \in Users |-> look[u]]
    /\ handle = [u \in Users |-> handle[u]] /\ accepted = [u \in Users |-> accepted[u]]
IsRequest(r) ==
    /\ r.op \in SentOps /\ r.via \in BOOLEAN
    /\ r = [op |-> r.op, owner |-> r.owner, name |-> r.name, arg |-> r.arg, via |-> r.via]
Unfinished(u) == call[u] # None /\ call[u].stage \in Way \cup {"opened"}
Requested ==
    \A u \in Users :
        /\ Unfinished(u) => IsRequest(call[u].req)
        /\ late[u] # None => IsRequest(late[u])
IInv ==
    /\ Flags /\ Functions /\ Requested
    /\ \A u \in Users : Shaped(disk[u])

(* Second, what an owner has accepted: requests to him that are on their way   *)
(* and not being listed for, or late ones, each over an open connection.      *)
HeardTyped(o) ==
    /\ accepted[o] \subseteq Connection /\ IsFiniteSet(accepted[o])
    /\ Unanswered(o) <= conns[o]
    /\ \A v \in Users :
         /\ <<v, "call">> \in accepted[o] => v \in AtOwner(o) /\ ~ Listed(v)
         /\ <<v, "late">> \in accepted[o] => IsLate(o, v)
Hearing == \A o \in Users : HeardTyped(o)

LEMMA InitIInv == Init => IInv
<1> SUFFICES ASSUME Init PROVE IInv OBVIOUS
<1>1. Flags /\ Functions BY DEF Init, Flags, Functions
<1>2. Requested BY DEF Init, Requested, Unfinished
<1>3. \A u \in Users : Shaped(disk[u])
  <2>1. Shaped(NoFiles) BY DEF Shaped, NoFiles
  <2> QED BY <2>1, MakeShaped DEF Init, OneFile
<1> QED BY <1>1, <1>2, <1>3 DEF IInv

-----------------------------------------------------------------------------
(* One lemma for each kind of step: the invariant is kept, and whatever is    *)
(* changed in a directory is changed by its owner's own call, or by a request  *)
(* that his responder, idle until then, performs.                           *)
Changes ==
    \A o \in Users : Seen(disk'[o]) # Seen(disk[o]) =>
        OwnCall(o) \/ (Idle(o) /\ \E u \in Users \ {o} : IsPerformed(u, o))

LEMMA SentIsRequest ==
    ASSUME Requested, NEW u \in Users, OnItsWay(u)
    PROVE  /\ IsRequest(Sent(u)) /\ Sent(u).owner = call[u].req.owner
           /\ call[u].stage = "opening" => Sent(u).op = "open" /\ Sent(u).arg = {}
<1>1. IsRequest(call[u].req) BY DEF Requested, Unfinished, OnItsWay
<1>2. CASE call[u].stage = "opening"
  <2> DEFINE r == call[u].req
  <2>1. r = [op |-> r.op, owner |-> r.owner, name |-> r.name, arg |-> r.arg, via |-> r.via]
    BY <1>1 DEF IsRequest
  <2>2. Sent(u) = [op |-> "open", owner |-> r.owner, name |-> r.name, arg |-> {}, via |-> r.via]
    BY <1>2, <2>1 DEF Sent
  <2> QED BY <1>1, <2>2 DEF IsRequest, SentOps
<1>3. CASE call[u].stage # "opening" BY <1>1, <1>3 DEF Sent
<1> QED BY <1>2, <1>3

(* What the end of a client leaves, user by user. *)
Left(u, gone, stays) ==
    /\ up'[u] = FALSE /\ listens'[u] = FALSE /\ handle'[u] = None /\ call'[u] = None
    /\ look'[u] = None /\ disk'[u] = Reclaim(disk[u], {}) /\ accepted'[u] = {}
    /\ streams'[u] = 0 /\ sockets'[u] = 0 /\ conns'[u] = 0
    /\ \A v \in Users \ {u} :
         /\ up'[v] = up[v] /\ listens'[v] = listens[v] /\ handle'[v] = handle[v]
         /\ disk'[v] = disk[v] /\ streams'[v] = streams[v] /\ sockets'[v] = sockets[v]
         /\ conns'[v] = conns[v]
         /\ accepted'[v] = Abandoned(v, {u}, IF stays THEN {u} ELSE {})
         /\ call'[v] = IF <<v, "call">> \in gone THEN Lost(call[v].req) ELSE call[v]
         /\ look'[v] = IF look[v] # None /\ look[v].who = u
                       THEN [look[v] EXCEPT !.live = FALSE] ELSE look[v]
    /\ \A v \in Users :
         late'[v] = IF v = u /\ stays THEN Sent(u)
                    ELSE IF <<v, "late">> \in gone THEN None ELSE late[v]

LEMMA EndsIs ==
    ASSUME Flags, Functions, NEW u \in Users, Ends(u)
    PROVE  /\ Flags' /\ Functions'
           /\ \E gone \in SUBSET Dealing(u), stays \in {FALSE, Remains(u)} : Left(u, gone, stays)
<1>1. PICK gone \in SUBSET Dealing(u), stays \in {FALSE, Remains(u)} :
    /\ up' = [up EXCEPT ![u] = FALSE] /\ listens' = [listens EXCEPT ![u] = FALSE]
    /\ handle' = [handle EXCEPT ![u] = None]
    /\ disk' = [disk EXCEPT ![u] = Reclaim(@, {})]
    /\ streams' = [streams EXCEPT ![u] = 0] /\ sockets' = [sockets EXCEPT ![u] = 0]
    /\ conns' = [conns EXCEPT ![u] = 0]
    /\ accepted' = [o \in Users |->
                      IF o = u THEN {} ELSE Abandoned(o, {u}, IF stays THEN {u} ELSE {})]
    /\ call' = [v \in Users |-> IF v = u THEN None
                                ELSE IF <<v, "call">> \in gone THEN Lost(call[v].req)
                                ELSE call[v]]
    /\ late' = [v \in Users |-> IF v = u /\ stays THEN Sent(u)
                                ELSE IF <<v, "late">> \in gone THEN None
                                ELSE late[v]]
    /\ look' = [o \in Users |->
                  IF o = u THEN None
                  ELSE IF look[o] # None /\ look[o].who = u THEN [look[o] EXCEPT !.live = FALSE]
                  ELSE look[o]]
  BY ZenonT(60) DEF Ends
<1>2. Flags' BY <1>1 DEF Flags
<1>3. Functions' BY <1>1 DEF Functions
<1>4. Left(u, gone, stays)
  <2>1. /\ up'[u] = FALSE /\ listens'[u] = FALSE /\ handle'[u] = None /\ disk'[u] = Reclaim(disk[u], {})
        /\ streams'[u] = 0 /\ sockets'[u] = 0 /\ conns'[u] = 0
        /\ \A v \in Users \ {u} :
             /\ up'[v] = up[v] /\ listens'[v] = listens[v] /\ handle'[v] = handle[v]
             /\ disk'[v] = disk[v] /\ streams'[v] = streams[v] /\ sockets'[v] = sockets[v]
             /\ conns'[v] = conns[v]
    BY <1>1 DEF Flags, Functions
  <2>2. accepted'[u] = {} /\ call'[u] = None /\ look'[u] = None BY <1>1
  <2>3. ASSUME NEW v \in Users \ {u}
        PROVE  /\ accepted'[v] = Abandoned(v, {u}, IF stays THEN {u} ELSE {})
               /\ call'[v] = IF <<v, "call">> \in gone THEN Lost(call[v].req) ELSE call[v]
               /\ look'[v] = IF look[v] # None /\ look[v].who = u
                             THEN [look[v] EXCEPT !.live = FALSE] ELSE look[v]
    BY <1>1
  <2>4. \A v \in Users : late'[v] = IF v = u /\ stays THEN Sent(u)
                                    ELSE IF <<v, "late">> \in gone THEN None ELSE late[v]
    BY <1>1
  <2> QED BY <2>1, <2>2, <2>3, <2>4 DEF Left
<1> QED BY <1>2, <1>3, <1>4

LEMMA EndsStep ==
    ASSUME IInv, NEW u \in Users, Ends(u)
    PROVE  IInv' /\ \A o \in Users : Seen(disk'[o]) = Seen(disk[o])
<1>f. Flags /\ Functions BY DEF IInv
<1>1. Flags' /\ Functions' BY <1>f, EndsIs
<1>2. PICK gone \in SUBSET Dealing(u), stays \in {FALSE, Remains(u)} : Left(u, gone, stays)
  BY <1>f, EndsIs
<1>3. Requested'
  <2> SUFFICES ASSUME NEW v \in Users
               PROVE  /\ Unfinished(v)' => IsRequest(call'[v].req)
                      /\ late'[v] # None => IsRequest(late'[v])
    BY DEF Requested
  <2>1. Unfinished(v)' => Unfinished(v) /\ call'[v] = call[v]
    <3>1. call'[v] \in {call[v], None, Lost(call[v].req)} BY <1>2 DEF Left
    <3>2. Lost(call[v].req).stage = "answered" BY DEF Lost, Answered, In
    <3> QED BY <3>1, <3>2 DEF Unfinished, Way
  <2>2. stays => OnItsWay(u) BY <1>2 DEF Remains
  <2>3. stays => IsRequest(Sent(u)) BY <2>2, SentIsRequest DEF IInv
  <2>4. late'[v] # None => IsRequest(late'[v])
    BY <1>2, <2>3 DEF Left, IInv, Requested
  <2> QED BY <2>1, <2>4 DEF IInv, Requested
<1>4. \A o \in Users : Shaped(disk'[o]) /\ Seen(disk'[o]) = Seen(disk[o])
  <2>1. disk'[u] = Reclaim(disk[u], {}) /\ \A o \in Users \ {u} : disk'[o] = disk[o]
    BY <1>2 DEF Left
  <2> QED BY <2>1, ReclaimUnseen DEF IInv
<1> QED BY <1>1, <1>3, <1>4 DEF IInv

LEMMA LocalCallStep ==
    ASSUME IInv, NEW u \in Users, call[u] = None, calls' = calls + 1,
           NEW r, r.op \in LocalOps, LocalCall(u, r)
    PROVE  IInv' /\ Changes
<1>1. Shaped(Local(u, r).disk) BY LocalShaped DEF IInv
<1>2. /\ \A v \in Users \ {u} : call'[v] = call[v]
      /\ call'[u].stage = "answered"
  BY DEF LocalCall, Answered, Refusal, In, IInv, Functions
<1>3. PICK held : disk' = [disk EXCEPT ![u] = Reclaim(Local(u, r).disk, held)]
  BY DEF LocalCall
<1>4. /\ disk'[u] = Reclaim(Local(u, r).disk, held)
      /\ \A v \in Users \ {u} : disk'[v] = disk[v]
  BY <1>3 DEF IInv, Functions
<1>5. \A v \in Users : Shaped(disk'[v]) BY <1>1, <1>4, ReclaimUnseen DEF IInv
<1>6. Flags' BY DEF LocalCall, responderVars, IInv, Flags
<1>7. Functions' BY DEF LocalCall, responderVars, IInv, Functions
<1>8. Requested'
  BY <1>2 DEF LocalCall, IInv, Requested, Unfinished, Way
<1>9. Changes
  <2> SUFFICES ASSUME NEW o \in Users, Seen(disk'[o]) # Seen(disk[o])
               PROVE  OwnCall(o)
    BY DEF Changes
  <2>1. o = u
    <3> SUFFICES ASSUME o # u PROVE FALSE OBVIOUS
    <3>1. disk'[o] = disk[o] BY <1>4
    <3> QED BY <3>1
  <2> QED BY <1>2, <2>1 DEF OwnCall
<1> QED BY <1>5, <1>6, <1>7, <1>8, <1>9 DEF IInv

LEMMA BegunIs ==
    ASSUME NEW u \in Users, NEW r, NEW stage
    PROVE  /\ Begun(u, r, stage).req = r /\ Leaked(u) \in {0, 1}
           /\ Leaked(u) = 1 => HasRoom(u) /\ ~ serving
           /\ \/ /\ HasRoom(u) /\ serving /\ Begun(u, r, stage).stage = stage
                 /\ Begun(u, r, stage).how = "none"
              \/ Begun(u, r, stage).stage = "answered" /\ Begun(u, r, stage).how = "error"
    BY DEF Begun, Asking, Answered, In, Leaked, One

LEMMA RemoteCallStep ==
    ASSUME IInv, NEW u \in Users, NEW r, r.op \in LocalOps, r.op \in SentOps => IsRequest(r),
           RemoteCall(u, r)
    PROVE  IInv' /\ UNCHANGED disk
<1>1. Flags' BY DEF RemoteCall, responderVars, IInv, Flags, Leaked, One
<1>2. Functions' BY DEF RemoteCall, responderVars, IInv, Functions
<1>3. Unfinished(u)' => IsRequest(call'[u].req)
  <2>1. CASE IsAtOnce(u, r)
    BY <2>1 DEF RemoteCall, AtOnce, Answered, Refusal, In, Unfinished, Way, IInv, Functions
  <2>2. CASE ~ IsAtOnce(u, r)
    <3>1. IsRequest(r) BY <2>2 DEF IsAtOnce, LocalOps, Ops, SentOps
    <3>2. Begun(u, r, First(r)).req = r BY BegunIs
    <3> QED BY <2>2, <3>1, <3>2 DEF RemoteCall, IInv, Functions
  <2> QED BY <2>1, <2>2
<1>4. Requested'
  BY <1>3 DEF RemoteCall, IInv, Functions, Requested, Unfinished
<1> QED BY <1>1, <1>2, <1>4 DEF IInv, RemoteCall

LEMMA AsksAgainStep ==
    ASSUME IInv, NEW u \in Users, AsksAgain(u)
    PROVE  IInv' /\ UNCHANGED disk
<1>1. /\ UNCHANGED <<disk, handle, late, up, accepted, conns, look, streams, listens>>
      /\ call' = [call EXCEPT ![u] = Begun(u, @.req, "asked")]
      /\ sockets' = [sockets EXCEPT ![u] = @ + Leaked(u)]
      /\ Unfinished(u)
  BY DEF AsksAgain, responderVars, Unfinished
<1>2. Leaked(u) \in Nat BY BegunIs
<1>3. Flags' BY <1>1, <1>2 DEF IInv, Flags
<1>4. Functions' BY <1>1 DEF IInv, Functions
<1>5. call'[u] = Begun(u, call[u].req, "asked") /\ \A v \in Users \ {u} : call'[v] = call[v]
  BY <1>1 DEF IInv, Functions
<1>6. call'[u].req = call[u].req BY <1>5, BegunIs
<1>7. Requested' BY <1>1, <1>5, <1>6 DEF IInv, Requested, Unfinished
<1> QED BY <1>1, <1>3, <1>4, <1>7 DEF IInv

LEMMA CallsStep ==
    ASSUME IInv, NEW u \in Users, Calls(u)
    PROVE  IInv' /\ Changes
<1>1. PICK c \in Requests[u] :
        \/ c.op # "link" /\ LocalCall(u, Resource(u, c))
        \/ c.op # "link" /\ RemoteCall(u, Resource(u, c))
        \/ c.op = "link" /\ Ends(u) /\ UNCHANGED faults
  BY DEF Calls
<1>2. call[u] = None /\ calls' = calls + 1 BY DEF Calls
<1> DEFINE r == Resource(u, c)
<1>3. c.op \in Ops /\ c \in Call(c.op) BY RequestsAssumption
<1>4. r.op = c.op
      /\ r = [op |-> r.op, owner |-> r.owner, name |-> r.name, arg |-> r.arg, via |-> r.via]
  <2>1. PICK op, owner, name, arg, via :
          c = [op |-> op, owner |-> owner, name |-> name, arg |-> arg, via |-> via]
    BY <1>3 DEF Call
  <2>2. c.op = op BY <2>1
  <2>3. \/ r = c
        \/ r = [op |-> op, owner |-> handle[u].owner, name |-> handle[u].name,
                arg |-> arg, via |-> via]
    BY <2>1 DEF Resource
  <2> QED BY <2>1, <2>2, <2>3
<1>5. c.op # "link" => r.op \in LocalOps BY <1>3, <1>4 DEF LocalOps
<1>6. r.op \in SentOps => IsRequest(r)
  <2>1. r.via \in BOOLEAN BY <1>3 DEF Call, Resource
  <2> QED BY <1>4, <2>1 DEF IsRequest
<1> HIDE DEF r
<1>7. CASE c.op # "link" /\ LocalCall(u, r)
  BY <1>2, <1>5, <1>7, LocalCallStep
<1>8. CASE c.op # "link" /\ RemoteCall(u, r)
  BY <1>5, <1>6, <1>8, RemoteCallStep DEF Changes
<1>9. CASE c.op = "link" /\ Ends(u)
  BY <1>9, EndsStep DEF Changes
<1> QED BY <1>1, <1>7, <1>8, <1>9 DEF r

(* What is served is a request to this owner. *)
LEMMA ServedIs ==
    ASSUME Hearing, NEW o \in Users, NEW u \in Users
    PROVE  /\ Serves(o, <<u, "call">>) => OnItsWay(u) /\ call[u].req.owner = o /\ ~ Listed(u)
           /\ Serves(o, <<u, "late">>) => IsLate(o, u)
    BY DEF Hearing, HeardTyped, Serves, AtOwner

LEMMA HandlesIs ==
    ASSUME NEW o \in Users, HandlesRequest(o)
    PROVE  /\ Idle(o) /\ UNCHANGED <<handle, conns, look, streams, sockets, up, listens>>
           /\ \E u \in Users \ {o} :
                \/ /\ Serves(o, <<u, "call">>)
                   /\ Sent(u).op = "readdir" => ~ HasRoom(o)
                   /\ disk' = [disk EXCEPT ![o] =
                                 Reclaim(Handled(o, Sent(u)).disk, HeldBy(handle[o]))]
                   /\ call' = [call EXCEPT ![u] = Response(u, Handled(o, Sent(u)))]
                   /\ UNCHANGED late
                \/ /\ Serves(o, <<u, "late">>)
                   /\ late[u].op = "readdir" => ~ HasRoom(o)
                   /\ disk' = [disk EXCEPT ![o] =
                                 Reclaim(Handled(o, late[u]).disk, HeldBy(handle[o]))]
                   /\ Taken(u)
                   /\ UNCHANGED call
<1>1. Idle(o) /\ UNCHANGED <<handle, conns, look, streams, sockets, up, listens>>
  BY DEF HandlesRequest
<1> QED BY <1>1, Zenon DEF HandlesRequest

LEMMA ResponseIs ==
    ASSUME NEW u \in Users, OnItsWay(u), NEW t
    PROVE  /\ Response(u, t).req = call[u].req
           /\ ~ t.ok => Response(u, t) = Refusal(call[u].req)
           /\ t.ok /\ call[u].stage = "opening" => Response(u, t) = Asking(call[u].req, "opened")
           /\ t.ok /\ call[u].stage = "asked" =>
                Response(u, t) = Answered(call[u].req, "ok", Value(call[u].req, t))
<1> USE DEF OnItsWay, Way
<1>1. CASE ~ t.ok BY <1>1 DEF Response, Refusal, Answered, In
<1>2. CASE t.ok /\ call[u].stage = "opening" BY <1>2 DEF Response, Asking, In
<1>3. CASE t.ok /\ call[u].stage = "asked" BY <1>3 DEF Response, Answered, In
<1> QED BY <1>1, <1>2, <1>3

LEMMA HandlesStep ==
    ASSUME IInv, Hearing, NEW o \in Users, HandlesRequest(o)
    PROVE  IInv' /\ Changes
<1>1. PICK u \in Users \ {o} :
         \/ /\ Serves(o, <<u, "call">>)
            /\ Sent(u).op = "readdir" => ~ HasRoom(o)
            /\ disk' = [disk EXCEPT ![o] = Reclaim(Handled(o, Sent(u)).disk, HeldBy(handle[o]))]
            /\ call' = [call EXCEPT ![u] = Response(u, Handled(o, Sent(u)))]
            /\ UNCHANGED late
         \/ /\ Serves(o, <<u, "late">>)
            /\ late[u].op = "readdir" => ~ HasRoom(o)
            /\ disk' = [disk EXCEPT ![o] =
                          Reclaim(Handled(o, late[u]).disk, HeldBy(handle[o]))]
            /\ Taken(u)
            /\ UNCHANGED call
  BY HandlesIs
<1>2. Idle(o) /\ UNCHANGED <<handle, conns, look, streams, sockets, up, listens>> BY HandlesIs
<1>3. Flags' BY <1>2 DEF IInv, Flags
<1>4. Functions'
  <2>1. accepted' = [v \in Users |-> accepted'[v]] BY <1>1 DEF Serves, IInv, Functions
  <2> QED BY <1>1, <1>2, <2>1 DEF IInv, Functions, Taken
<1>5. CASE /\ Serves(o, <<u, "call">>)
           /\ Sent(u).op = "readdir" => ~ HasRoom(o)
           /\ disk' = [disk EXCEPT ![o] = Reclaim(Handled(o, Sent(u)).disk, HeldBy(handle[o]))]
           /\ call' = [call EXCEPT ![u] = Response(u, Handled(o, Sent(u)))]
           /\ UNCHANGED late
  <2> DEFINE t == Handled(o, Sent(u))
  <2>1. OnItsWay(u) /\ call[u].req.owner = o BY <1>5, ServedIs
  <2>2. IsRequest(Sent(u)) BY <2>1, SentIsRequest DEF IInv
  <2>3. Shaped(t.disk) BY <1>5, <2>2, HandledShaped DEF IInv, IsRequest
  <2>4. disk'[o] = Reclaim(t.disk, HeldBy(handle[o]))
        /\ \A v \in Users \ {o} : disk'[v] = disk[v]
    BY <1>5 DEF IInv, Functions
  <2>5. Shaped(disk'[o]) /\ Seen(disk'[o]) = Seen(t.disk) BY <2>3, <2>4, ReclaimUnseen
  <2>6. \A v \in Users : Shaped(disk'[v]) BY <2>4, <2>5 DEF IInv
  <2>7. call'[u] = Response(u, t) /\ \A v \in Users \ {u} : call'[v] = call[v]
    BY <1>5 DEF IInv, Functions
  <2> HIDE DEF t
  <2>8. call'[u].req = call[u].req BY <2>1, <2>7, ResponseIs
  <2>9. Requested'
    <3>1. Unfinished(u) BY <2>1 DEF Unfinished, OnItsWay
    <3> QED BY <1>5, <2>7, <2>8, <3>1 DEF IInv, Requested, Unfinished
  <2>10. call'[u].stage = "answered" \/ t.disk = disk[o]
    <3>1. CASE ~ t.ok \/ call[u].stage = "asked"
      BY <2>1, <2>7, <3>1, ResponseIs DEF Refusal, Answered, In
    <3>2. CASE call[u].stage = "opening"
      BY <2>1, <3>2, SentIsRequest, FirstOpen DEF IInv, t
    <3> QED BY <2>1, <3>1, <3>2 DEF OnItsWay, Way
  <2>11. Changes
    <3> SUFFICES ASSUME NEW v \in Users, Seen(disk'[v]) # Seen(disk[v])
                 PROVE  Idle(v) /\ \E w \in Users \ {v} : IsPerformed(w, v)
      BY DEF Changes
    <3>1. v = o BY <2>4
    <3>2. call'[u].stage = "answered" BY <2>5, <2>10, <3>1
    <3>3. IsPerformed(u, o) BY <2>1, <3>2 DEF IsPerformed, AtOwner
    <3> QED BY <1>2, <3>1, <3>3
  <2> QED BY <1>3, <1>4, <2>6, <2>9, <2>11 DEF IInv
<1>6. CASE /\ Serves(o, <<u, "late">>)
           /\ late[u].op = "readdir" => ~ HasRoom(o)
           /\ disk' = [disk EXCEPT ![o] = Reclaim(Handled(o, late[u]).disk, HeldBy(handle[o]))]
           /\ Taken(u)
           /\ UNCHANGED call
  <2>0. IsLate(o, u) BY <1>6, ServedIs
  <2>1. late'[u] = None /\ \A v \in Users \ {u} : late'[v] = late[v]
    BY <1>6 DEF Taken, IInv, Functions
  <2>2. Shaped(Handled(o, late[u]).disk)
    BY <1>6, <2>0, HandledShaped DEF IInv, Requested, IsRequest, IsLate
  <2>3. disk'[o] = Reclaim(Handled(o, late[u]).disk, HeldBy(handle[o]))
        /\ \A v \in Users \ {o} : disk'[v] = disk[v]
    BY <1>6 DEF IInv, Functions
  <2>4. \A v \in Users : Shaped(disk'[v]) BY <2>2, <2>3, ReclaimUnseen DEF IInv
  <2>5. Requested' BY <1>6, <2>1 DEF IInv, Requested, Unfinished
  <2>6. Changes
    <3>1. \A v \in Users : Seen(disk'[v]) # Seen(disk[v]) => v = o BY <2>3
    <3>2. IsPerformed(u, o) BY <2>0, <2>1 DEF IsPerformed
    <3> QED BY <1>2, <3>1, <3>2 DEF Changes
  <2> QED BY <1>3, <1>4, <2>4, <2>5, <2>6 DEF IInv
<1> QED BY <1>1, <1>5, <1>6

(* Steps that change no directory *)
LEMMA QuietStep ==
    ASSUME IInv, UNCHANGED disk, Flags', Functions', Requested'
    PROVE  IInv' /\ Changes
    BY DEF IInv, Changes

LEMMA ReleasesStep ==
    ASSUME IInv, NEW u \in Users, Releases(u)
    PROVE  IInv' /\ \A o \in Users : Seen(disk'[o]) = Seen(disk[o])
<1>1. \A o \in Users : Shaped(disk'[o]) /\ Seen(disk'[o]) = Seen(disk[o])
  BY ReclaimUnseen DEF Releases, IInv, Functions
<1>2. Flags' BY DEF Releases, responderVars, IInv, Flags
<1>3. Functions' BY DEF Releases, responderVars, IInv, Functions
<1>4. Requested' BY DEF Releases, IInv, Requested, Unfinished
<1> QED BY <1>1, <1>2, <1>3, <1>4 DEF IInv

LEMMA AcceptsStep ==
    ASSUME IInv, NEW o \in Users, Accepts(o)
    PROVE  IInv' /\ Changes
<1>1. /\ UNCHANGED <<disk, handle, call, late, look, streams, sockets, up, listens>>
      /\ conns' = [conns EXCEPT ![o] = @ + 1]
      /\ \E x : accepted' = [accepted EXCEPT ![o] = x]
  BY DEF Accepts
<1>2. Flags' BY <1>1 DEF IInv, Flags
<1>3. Functions' /\ Requested' BY <1>1 DEF IInv, Functions, Requested, Unfinished
<1> QED BY <1>1, <1>2, <1>3, QuietStep

LEMMA ClosesStep ==
    ASSUME IInv, Hearing, NEW o \in Users, Closes(o)
    PROVE  IInv' /\ Changes
<1>1. /\ UNCHANGED <<disk, handle, call, late, accepted, look, streams, sockets, up, listens>>
      /\ conns' = [conns EXCEPT ![o] = @ - 1] /\ Unanswered(o) < conns[o]
  BY DEF Closes
<1>2. Unanswered(o) \in Nat
  BY FS_CardinalityType DEF Unanswered, One, Hearing, HeardTyped
<1>3. conns[o] - 1 \in Nat BY <1>1, <1>2 DEF IInv, Flags
<1>4. Flags' BY <1>1, <1>3 DEF IInv, Flags
<1>5. Functions' /\ Requested' BY <1>1 DEF IInv, Functions, Requested, Unfinished
<1> QED BY <1>1, <1>4, <1>5, QuietStep

LEMMA AcceptFailsStep ==
    ASSUME IInv, NEW o \in Users, AcceptFails(o)
    PROVE  IInv' /\ Changes
<1>1. UNCHANGED <<disk, handle, accepted, conns, look, streams, sockets, up>>
      /\ listens' = [listens EXCEPT ![o] = FALSE]
  BY DEF AcceptFails, Deafened
<1>2. PICK u \in Users \ {o} :
        \/ call' = [call EXCEPT ![u] = Lost(@.req)] /\ UNCHANGED late
        \/ Taken(u) /\ UNCHANGED call
  BY DEF AcceptFails
<1>3. Flags' BY <1>1 DEF IInv, Flags
<1>4. Functions' BY <1>1, <1>2, Zenon DEF IInv, Functions, Taken
<1>5. Requested'
  BY <1>1, <1>2 DEF IInv, Requested, Functions, Unfinished, Lost, Answered, In, Way, Taken
<1> QED BY <1>1, <1>3, <1>4, <1>5, QuietStep

LEMMA CountsStep ==
    ASSUME IInv, NEW o \in Users, CountsEntries(o)
    PROVE  IInv' /\ Changes
<1>1. /\ streams' = [streams EXCEPT ![o] = @ + 1]
      /\ UNCHANGED <<disk, call, handle, conns, sockets, up, listens>>
  BY DEF CountsEntries
<1>2. PICK u \in Users :
        /\ UNCHANGED late \/ Taken(u)
        /\ \E x : accepted' = [accepted EXCEPT ![o] = x]
  BY DEF CountsEntries, Serves
<1>3. \E x : look' = [look EXCEPT ![o] = x] BY DEF CountsEntries
<1>4. Flags' BY <1>1 DEF IInv, Flags
<1>5. Functions' BY <1>1, <1>2, <1>3 DEF IInv, Functions, Taken
<1>6. Requested' BY <1>1, <1>2 DEF IInv, Requested, Functions, Unfinished, Taken
<1> QED BY <1>1, <1>4, <1>5, <1>6, QuietStep

LEMMA ReadsStep ==
    ASSUME IInv, NEW o \in Users, ReadsEntries(o)
    PROVE  IInv' /\ Changes
<1>1. UNCHANGED <<disk, handle, late, accepted, conns, streams, sockets, up, listens>>
  BY DEF ReadsEntries
<1>2. PICK names : call' = IF look[o].live
                           THEN [call EXCEPT ![look[o].who] = Answered(@.req, "ok", names)]
                           ELSE call
  BY DEF ReadsEntries
<1>3. Flags' BY <1>1 DEF IInv, Flags
<1>4. Functions' BY <1>1, <1>2 DEF ReadsEntries, IInv, Functions
<1>5. Requested'
  BY <1>1, <1>2 DEF IInv, Requested, Functions, Unfinished, Answered, In, Way
<1> QED BY <1>1, <1>3, <1>4, <1>5, QuietStep

LEMMA ServerStepStep ==
    ASSUME IInv, ServerStep
    PROVE  IInv' /\ Changes
<1>1. CASE ServerStarts
  <2>1. UNCHANGED <<disk, handle, call, late, accepted, conns, look, streams, sockets, up, listens>>
    BY <1>1 DEF ServerStarts, clientVars, responderVars
  <2>2. Flags' /\ Functions' /\ Requested'
    BY <2>1 DEF IInv, Flags, Functions, Requested, Unfinished
  <2> QED BY <2>1, <2>2, QuietStep
<1>2. ASSUME NEW u \in Users, ServerAnswers(u) PROVE IInv' /\ Changes
  <2>1. UNCHANGED <<disk, handle, late, accepted, conns, look, streams, sockets, up, listens>>
    BY <1>2 DEF ServerAnswers, responderVars
  <2>2. PICK a : call' = [call EXCEPT ![u] = a]
                 /\ (a.stage = "answered" \/ \E r : a = RootAnswer(r))
    BY <1>2 DEF ServerAnswers, Refusal, Lost, Answered, In
  <2>3. a.stage = "answered"
    BY <2>2 DEF RootAnswer, Refusal, Answered, In
  <2>4. Flags' BY <2>1 DEF IInv, Flags
  <2>5. Functions' BY <2>1, <2>2 DEF IInv, Functions
  <2>6. Requested' BY <2>1, <2>2, <2>3 DEF IInv, Requested, Functions, Unfinished, Way
  <2> QED BY <2>1, <2>4, <2>5, <2>6, QuietStep
<1>3. ASSUME NEW u \in Users, LateIsLost(u) PROVE IInv' /\ Changes
  <2>1. /\ UNCHANGED <<disk, handle, call, accepted, conns, look, streams, sockets, up, listens>>
        /\ Taken(u)
    BY <1>3 DEF LateIsLost, responderVars
  <2>2. Flags' /\ Functions' /\ Requested'
    BY <2>1 DEF IInv, Flags, Functions, Requested, Unfinished, Taken
  <2> QED BY <2>1, <2>2, QuietStep
<1> QED BY <1>1, <1>2, <1>3 DEF ServerStep

LEMMA ServerEndsStep ==
    ASSUME IInv, ServerEnds
    PROVE  IInv' /\ Changes
<1>1. UNCHANGED <<disk, handle, conns, streams, sockets, up, listens>> BY DEF ServerEnds
<1>2. PICK stay \in SUBSET {u \in Users : Remains(u)} :
         /\ late' = [u \in Users |-> IF u \in stay THEN Sent(u) ELSE late[u]]
         /\ accepted' = [o \in Users |-> Abandoned(o, Users, stay)]
  BY DEF ServerEnds
<1>3. Flags' BY <1>1 DEF IInv, Flags
<1>4. Functions' BY <1>1, <1>2 DEF ServerEnds, IInv, Functions
<1>5. Requested'
  <2>1. ASSUME NEW u \in Users, Unfinished(u)' PROVE IsRequest(call'[u].req)
    <3>1. call'[u] = call[u] /\ Unfinished(u)
      BY <2>1 DEF ServerEnds, Unfinished, Lost, Answered, In, Way
    <3> QED BY <3>1 DEF IInv, Requested
  <2>2. ASSUME NEW u \in Users, late'[u] # None PROVE IsRequest(late'[u])
    <3>1. CASE u \in stay
      <4>1. late'[u] = Sent(u) /\ OnItsWay(u) BY <1>2, <3>1 DEF Remains
      <4> QED BY <4>1, SentIsRequest DEF IInv
    <3>2. CASE u \notin stay
      <4>1. late'[u] = late[u] BY <1>2, <3>2
      <4> QED BY <2>2, <4>1 DEF IInv, Requested
    <3> QED BY <3>1, <3>2
  <2> QED BY <2>1, <2>2 DEF Requested
<1> QED BY <1>1, <1>3, <1>4, <1>5, QuietStep

LEMMA ReturnsStep ==
    ASSUME IInv, NEW u \in Users, Returns(u)
    PROVE  IInv' /\ Changes
<1>1. /\ UNCHANGED <<disk, late, accepted, conns, look, streams, sockets, up, listens>>
      /\ call' = [call EXCEPT ![u] = None]
  BY DEF Returns, responderVars
<1>2. Flags' BY <1>1 DEF IInv, Flags
<1>3. Functions' BY <1>1 DEF Returns, IInv, Functions
<1>4. Requested' BY <1>1 DEF IInv, Requested, Functions, Unfinished
<1> QED BY <1>1, <1>2, <1>3, <1>4, QuietStep

LEMMA StartsStep ==
    ASSUME IInv, NEW u \in Users, Starts(u)
    PROVE  IInv' /\ Changes
<1>1. /\ UNCHANGED <<disk, handle, call, late, accepted, conns, look, streams, sockets>>
      /\ up' = [up EXCEPT ![u] = TRUE] /\ listens' = [listens EXCEPT ![u] = TRUE]
  BY DEF Starts
<1>2. Flags' BY <1>1 DEF IInv, Flags
<1>3. Functions' /\ Requested' BY <1>1 DEF IInv, Functions, Requested, Unfinished
<1> QED BY <1>1, <1>2, <1>3, QuietStep

LEMMA NextStep == IInv /\ Hearing /\ [Next]_vars => IInv' /\ Changes
<1> SUFFICES ASSUME IInv, Hearing, [Next]_vars PROVE IInv' /\ Changes OBVIOUS
<1>1. CASE UNCHANGED vars
  <2>1. Flags' /\ Functions' /\ Requested' /\ UNCHANGED disk
    BY <1>1 DEF vars, clientVars, responderVars, IInv, Flags, Functions, Requested, Unfinished
  <2> QED BY <2>1, QuietStep
<1>2. ASSUME NEW u \in Users, Ends(u) PROVE IInv' /\ Changes
  BY <1>2, EndsStep DEF Changes
<1>3. ASSUME NEW u \in Users, Releases(u) PROVE IInv' /\ Changes
  BY <1>3, ReleasesStep DEF Changes
<1>4. ASSUME NEW u \in Users, Responds(u) PROVE IInv' /\ Changes
  BY <1>2, <1>4, AcceptsStep, AcceptFailsStep, HandlesStep, ClosesStep, CountsStep, ReadsStep
  DEF Responds, MisreadsEntries
<1>5. ASSUME NEW u \in Users, AsksAgain(u) PROVE IInv' /\ Changes
  BY <1>5, AsksAgainStep DEF Changes
<1>6. ASSUME NEW u \in Users, CallGoesOn(u) \/ IsKilled(u) \/ Starts(u) PROVE IInv' /\ Changes
  BY <1>2, <1>5, <1>6, ReturnsStep, StartsStep DEF CallGoesOn, Aborts, IsKilled
<1> QED
  BY <1>1, <1>3, <1>4, <1>6, CallsStep, ServerStepStep, ServerEndsStep DEF Next

-----------------------------------------------------------------------------
(* Types.  On the disk is what is referred to: a name or an open file refers   *)
(* to what is there, and calls leave nothing behind that is not.              *)
Backed(d, held) ==
    /\ d \in Disk /\ held \subseteq Files
    /\ \A n \in Names : d.names[n] # None => d.nodes[d.names[n]] # None
    /\ \A f \in held : d.nodes[f] # None
Exact(d, held) ==
    {f \in Files : d.nodes[f] # None} = {d.names[n] : n \in Named(d)} \cup held

LEMMA DiskType ==
    ASSUME NEW d \in Disk
    PROVE  /\ d.names \in [Names -> Files \cup {None}]
           /\ d.nodes \in [Files -> Node \cup {None}]
           /\ d = [names |-> d.names, nodes |-> d.nodes]
    BY DEF Disk

LEMMA ReclaimExact ==
    ASSUME NEW d, NEW held, Backed(d, held)
    PROVE  Reclaim(d, held) \in Disk /\ Exact(Reclaim(d, held), held)
<1> DEFINE nodes == [f \in Files |->
                       IF f \in held \/ \E n \in Names : d.names[n] = f THEN d.nodes[f] ELSE None]
           e == Reclaim(d, held)
<1>1. d \in Disk BY DEF Backed
<1>2. e = [names |-> d.names, nodes |-> nodes] BY <1>1, DiskType DEF Reclaim
<1>3. nodes \in [Files -> Node \cup {None}] BY <1>1, DiskType
<1>4. e \in Disk BY <1>1, <1>2, <1>3, DiskType DEF Disk
<1>5. e.names = d.names /\ e.nodes = nodes BY <1>2
<1>6. ASSUME NEW f \in Files
      PROVE  e.nodes[f] # None <=> f \in {e.names[n] : n \in Named(e)} \cup held
  <2>1. f \in {e.names[n] : n \in Named(e)} <=> \E n \in Names : d.names[n] = f
    BY <1>5, DiskAssumption DEF Named
  <2>2. CASE f \in held \/ \E n \in Names : d.names[n] = f
    <3>1. d.nodes[f] # None BY <2>2, DiskAssumption DEF Backed
    <3> QED BY <1>5, <2>1, <2>2, <3>1
  <2>3. CASE ~ (f \in held \/ \E n \in Names : d.names[n] = f)
    BY <1>5, <2>1, <2>3
  <2> QED BY <2>2, <2>3
<1>7. {e.names[n] : n \in Named(e)} \cup held \subseteq Files
  BY <1>1, <1>5, DiskType DEF Named, Backed
<1> QED BY <1>4, <1>6, <1>7 DEF Exact

(* The call of a directory entry that is what it is to be leaves it so. *)
LEMMA ReclaimNothing ==
    ASSUME NEW d \in Disk, NEW held, Exact(d, held)
    PROVE  Reclaim(d, held) = d
<1> DEFINE nodes == [f \in Files |->
                       IF f \in held \/ \E n \in Names : d.names[n] = f THEN d.nodes[f] ELSE None]
<1>1. \A f \in Files : nodes[f] = d.nodes[f]
  BY DiskType DEF Exact, Named
<1>2. nodes = d.nodes BY <1>1, DiskType
<1> QED BY <1>2, DiskType DEF Reclaim

LEMMA ExactBacked ==
    ASSUME NEW d \in Disk, NEW held, Exact(d, held)
    PROVE  Backed(d, held)
    BY DEF Exact, Backed, Named

LEMMA ReachedType ==
    ASSUME NEW d, NEW held, Backed(d, held), NEW n \in Names
    PROVE  /\ Followed(d, n) \in Names
           /\ Reached(d, n) \in Files \cup {None}
           /\ Reached(d, n) # None => d.nodes[Reached(d, n)] # None
<1>1. d \in Disk BY DEF Backed
<1>2. Is(d, n, "link") => NodeAt(d, n).data \in Names
  <2> SUFFICES ASSUME Is(d, n, "link") PROVE NodeAt(d, n).data \in Names OBVIOUS
  <2>1. d.names[n] \in Files /\ NodeAt(d, n) # None
    BY <1>1, DiskType DEF Is, Named, NodeAt, Backed
  <2>2. NodeAt(d, n) \in Node BY <1>1, <2>1, DiskType DEF NodeAt
  <2>3. NodeAt(d, n).kind = "link" BY DEF Is
  <2> QED BY <2>2, <2>3 DEF Node
<1>3. Followed(d, n) \in Names BY <1>2 DEF Followed
<1> QED BY <1>1, <1>3, DiskType DEF Reached, Backed

(* What each call on a directory leaves behind *)
LEMMA StoreNode ==
    ASSUME NEW node \in Node, node.kind = "file", NEW x \in Data
    PROVE  [node EXCEPT !.data = x] \in Node
    BY DEF Node

LEMMA RoNode ==
    ASSUME NEW node \in Node, node.kind = "file", NEW ro \in BOOLEAN
    PROVE  [node EXCEPT !.ro = ro] \in Node
    BY DEF Node

LEMMA NewNodeType ==
    /\ NewNode("file", Empty) \in Node
    /\ NewNode("dir", None) \in Node
    /\ \A n \in Names : NewNode("link", n) \in Node
    BY DiskAssumption DEF NewNode, Node

LEMMA DoneIfBacked ==
    ASSUME NEW d, NEW held, Backed(d, held), NEW p, NEW e, p => Backed(e, held), NEW v
    PROVE  Backed(DoneIf(p, d, e, v).disk, held)
<1>1. DoneIf(p, d, e, v).disk = IF p THEN e ELSE d BY DEF DoneIf, Done, Fails
<1> QED BY <1>1

LEMMA LinkBacked ==
    ASSUME NEW d, NEW held, Backed(d, held), NEW n \in Names, NEW f \in Files \cup {None},
           f # None => d.nodes[f] # None
    PROVE  Backed(Link(d, n, f), held)
<1> DEFINE names == [d.names EXCEPT ![n] = f]
<1>1. d \in Disk BY DEF Backed
<1>2. Link(d, n, f) = [names |-> names, nodes |-> d.nodes] BY <1>1, DiskType DEF Link
<1>3. names \in [Names -> Files \cup {None}] BY <1>1, DiskType
<1>4. Link(d, n, f) \in Disk BY <1>1, <1>2, <1>3, DiskType DEF Disk
<1>5. \A m \in Names : names[m] = f \/ names[m] = d.names[m] BY <1>1, DiskType
<1>6. Link(d, n, f).names = names /\ Link(d, n, f).nodes = d.nodes BY <1>2
<1> HIDE DEF names
<1> QED BY <1>4, <1>5, <1>6 DEF Backed

LEMMA NodesBacked ==
    ASSUME NEW d, NEW held, Backed(d, held), NEW nodes \in [Files -> Node \cup {None}],
           \A f \in Files : d.nodes[f] # None => nodes[f] # None
    PROVE  Backed([d EXCEPT !.nodes = nodes], held)
<1> DEFINE e == [d EXCEPT !.nodes = nodes]
<1>1. d \in Disk BY DEF Backed
<1>2. e = [names |-> d.names, nodes |-> nodes] BY <1>1, DiskType
<1>3. e \in Disk BY <1>1, <1>2, DiskType DEF Disk
<1>4. e.names = d.names /\ e.nodes = nodes BY <1>2
<1> HIDE DEF e
<1>5. \A n \in Names : d.names[n] # None => d.names[n] \in Files BY <1>1, DiskType
<1> QED BY <1>3, <1>4, <1>5 DEF Backed, e

LEMMA NodeBacked ==
    ASSUME NEW d, NEW held, Backed(d, held), NEW f \in Files, NEW node \in Node
    PROVE  Backed([d EXCEPT !.nodes = [d.nodes EXCEPT ![f] = node]], held)
<1> DEFINE nodes == [d.nodes EXCEPT ![f] = node]
<1>1. d \in Disk BY DEF Backed
<1>2. nodes \in [Files -> Node \cup {None}] BY <1>1, DiskType
<1>3. \A g \in Files : d.nodes[g] # None => nodes[g] # None BY <1>1, DiskType, DiskAssumption
<1> HIDE DEF nodes
<1>4. Backed([d EXCEPT !.nodes = nodes], held) BY <1>2, <1>3, NodesBacked
<1> QED BY <1>4 DEF nodes

(* Storing into a file, which a write, a truncation and an open may do. *)
LEMMA StoreIs ==
    ASSUME NEW d \in Disk, NEW f \in Files, NEW x
    PROVE  Store(d, f, x) = [d EXCEPT !.nodes = [d.nodes EXCEPT ![f] = [d.nodes[f] EXCEPT !.data = x]]]
<1> DEFINE stored == [g \in Files |->
                        IF g = f THEN [d.nodes[g] EXCEPT !.data = x] ELSE d.nodes[g]]
<1>1. Store(d, f, x) = [d EXCEPT !.nodes = stored] BY DiskType DEF Store
<1>2. stored = [d.nodes EXCEPT ![f] = [d.nodes[f] EXCEPT !.data = x]] BY DiskType
<1> QED BY <1>1, <1>2

LEMMA StoreBacked ==
    ASSUME NEW d, NEW held, Backed(d, held), NEW f \in Files, d.nodes[f] # None,
           d.nodes[f].kind = "file", NEW x \in Data
    PROVE  Backed(Store(d, f, x), held)
<1> DEFINE node == [d.nodes[f] EXCEPT !.data = x]
<1>1. d \in Disk BY DEF Backed
<1>2. d.nodes[f] \in Node BY <1>1, DiskType
<1>3. node \in Node BY <1>2, StoreNode
<1> HIDE DEF node
<1>4. Store(d, f, x) = [d EXCEPT !.nodes = [d.nodes EXCEPT ![f] = node]]
  BY <1>1, StoreIs DEF node
<1> QED BY <1>3, <1>4, NodeBacked

LEMMA ChmodBacked ==
    ASSUME NEW d, NEW held, Backed(d, held), NEW f \in Files \cup {None},
           f # None => d.nodes[f] # None, NEW ro \in BOOLEAN
    PROVE  Backed(Chmod(d, f, ro).disk, held)
<1> DEFINE node == [d.nodes[f] EXCEPT !.ro = ro]
<1>1. d \in Disk BY DEF Backed
<1>2. ASSUME IsFile(d, f) PROVE Backed([d EXCEPT !.nodes[f].ro = ro], held)
  <2>1. f \in Files /\ d.nodes[f] \in Node /\ d.nodes[f].kind = "file"
    BY <1>1, <1>2, DiskType DEF IsFile
  <2>2. node \in Node BY <2>1, RoNode
  <2>3. [d EXCEPT !.nodes[f].ro = ro] = [d EXCEPT !.nodes = [d.nodes EXCEPT ![f] = node]]
    OBVIOUS
  <2> HIDE DEF node
  <2> QED BY <2>1, <2>2, <2>3, NodeBacked
<1> QED BY <1>2, DoneIfBacked DEF Chmod

LEMMA TruncateBacked ==
    ASSUME NEW d, NEW held, Backed(d, held), NEW f \in Files \cup {None},
           f # None => d.nodes[f] # None
    PROVE  Backed(Truncate(d, f).disk, held)
<1>1. MayWrite(d, f) => Backed(Store(d, f, Empty), held)
  BY StoreBacked, DiskAssumption DEF MayWrite, IsFile
<1> QED BY <1>1, DoneIfBacked DEF Truncate

LEMMA PwriteBacked ==
    ASSUME NEW d, NEW held, Backed(d, held), NEW f \in Files \cup {None},
           f # None => d.nodes[f] # None, NEW x \in Data
    PROVE  Backed(Pwrite(d, f, x).disk, held)
<1>1. IsFile(d, f) => Backed(Store(d, f, x), held) BY StoreBacked DEF IsFile
<1> QED BY <1>1, DoneIfBacked DEF Pwrite

(* What is made is a new name for a new file. *)
Made(d, n, node, f) == Link([d EXCEPT !.nodes = [d.nodes EXCEPT ![f] = node]], n, f)
LEMMA MakeIs ==
    ASSUME NEW d \in Disk, NEW n, NEW node, ~ (Free(d) = {} \/ n \in Named(d))
    PROVE  \E f \in Files : d.nodes[f] = None /\ Make(d, n, node) = Done(Made(d, n, node, f), f)
<1>1. PICK f \in Files : d.nodes[f] = None
                         /\ Make(d, n, node) = Done([Link(d, n, f) EXCEPT !.nodes[f] = node], f)
  BY DEF Make, Free
<1>2. [Link(d, n, f) EXCEPT !.nodes[f] = node]
        = Made(d, n, node, f)
  BY DiskType DEF Link, Made
<1> QED BY <1>1, <1>2

LEMMA MadeIs ==
    ASSUME NEW d \in Disk, NEW n, NEW node, NEW f
    PROVE  Made(d, n, node, f) =
             [names |-> [d.names EXCEPT ![n] = f], nodes |-> [d.nodes EXCEPT ![f] = node]]
<1> DEFINE nodes == [d.nodes EXCEPT ![f] = node]
<1>1. [d EXCEPT !.nodes = nodes] = [names |-> d.names, nodes |-> nodes] BY DiskType
<1> HIDE DEF nodes
<1>2. Made(d, n, node, f) = Link([names |-> d.names, nodes |-> nodes], n, f)
  BY <1>1 DEF Made, nodes
<1>3. Link([names |-> d.names, nodes |-> nodes], n, f)
        = [names |-> [d.names EXCEPT ![n] = f], nodes |-> nodes]
  BY DEF Link
<1> QED BY <1>2, <1>3 DEF nodes

LEMMA MakeBacked ==
    ASSUME NEW d, NEW held, Backed(d, held), NEW n \in Names, NEW node \in Node
    PROVE  /\ Backed(Make(d, n, node).disk, held)
           /\ Make(d, n, node).ok =>
                /\ Make(d, n, node).value \in Files
                /\ Make(d, n, node).disk.nodes[Make(d, n, node).value] # None
<1>1. d \in Disk BY DEF Backed
<1>2. CASE Free(d) = {} \/ n \in Named(d) BY <1>2 DEF Make, Fails
<1>3. CASE ~ (Free(d) = {} \/ n \in Named(d))
  <2>1. PICK f \in Files : d.nodes[f] = None
          /\ Make(d, n, node) = Done(Made(d, n, node, f), f)
    BY <1>1, <1>3, MakeIs
  <2> DEFINE e == [d EXCEPT !.nodes = [d.nodes EXCEPT ![f] = node]]
  <2>2. Backed(e, held) BY NodeBacked
  <2>3. e.nodes[f] = node /\ node # None BY <1>1, DiskType, DiskAssumption
  <2> HIDE DEF e
  <2>4. Backed(Link(e, n, f), held) BY <2>2, <2>3, LinkBacked
  <2>5. Link(e, n, f).nodes = e.nodes BY <2>2 DEF Link, Backed, Disk
  <2>6. Make(d, n, node) = Done(Link(e, n, f), f) BY <2>1 DEF e, Made
  <2>7. Make(d, n, node).disk = Link(e, n, f) /\ Make(d, n, node).value = f
    BY <2>6 DEF Done
  <2> QED BY <2>3, <2>4, <2>5, <2>7
<1> QED BY <1>2, <1>3

LEMMA OpenBacked ==
    ASSUME NEW d, NEW held, Backed(d, held), NEW n \in Names, NEW flags
    PROVE  /\ Backed(Open(d, n, flags).disk, held)
           /\ Open(d, n, flags).ok =>
                /\ Open(d, n, flags).value \in Files
                /\ Open(d, n, flags).disk.nodes[Open(d, n, flags).value] # None
<1> DEFINE f == Reached(d, n)
<1>1. /\ Followed(d, n) \in Names /\ f \in Files \cup {None}
      /\ f # None => d.nodes[f] # None
  BY ReachedType
<1> HIDE DEF f
<1>2. CASE f = None
  <2>1. CASE "create" \in flags
    <3>1. Open(d, n, flags) = Make(d, Followed(d, n), NewNode("file", Empty))
      BY <1>2, <2>1 DEF Open, f
    <3> QED BY <1>1, <3>1, NewNodeType, MakeBacked
  <2>2. CASE "create" \notin flags BY <1>2, <2>2 DEF Open, Fails, f
  <2> QED BY <2>1, <2>2
<1>3. CASE f # None
  <2> DEFINE e == IF "trunc" \in flags /\ MayWrite(d, f) THEN Store(d, f, Empty) ELSE d
  <2>1. Backed(e, held)
    BY <1>1, <1>3, StoreBacked, DiskAssumption DEF MayWrite, IsFile
  <2>2. e.nodes[f] # None
    <3>1. CASE "trunc" \in flags /\ MayWrite(d, f)
      <4>1. d.nodes[f] \in Node /\ d.nodes[f].kind = "file"
        BY <1>1, <1>3, <3>1, DiskType DEF Backed, MayWrite, IsFile
      <4>2. [d.nodes[f] EXCEPT !.data = Empty] \in Node BY <4>1, StoreNode, DiskAssumption
      <4>3. e.nodes[f] = [d.nodes[f] EXCEPT !.data = Empty] BY <1>1, <1>3, <3>1 DEF Store
      <4> QED BY <4>2, <4>3, DiskAssumption
    <3>2. CASE ~ ("trunc" \in flags /\ MayWrite(d, f)) BY <1>1, <1>3, <3>2
    <3> QED BY <3>1, <3>2
  <2> HIDE DEF e
  <2>3. Open(d, n, flags) = DoneIf("rw" \in flags => MayWrite(d, f), d, e, f)
    BY <1>3 DEF Open, f, e
  <2>4. Backed(Open(d, n, flags).disk, held) BY <2>1, <2>3, DoneIfBacked
  <2>5. Open(d, n, flags).ok => Open(d, n, flags).value = f /\ Open(d, n, flags).disk = e
    BY <2>3 DEF DoneIf, Done, Fails
  <2> QED BY <1>1, <1>3, <2>2, <2>4, <2>5
<1> QED BY <1>2, <1>3

LEMMA RenameBacked ==
    ASSUME NEW d, NEW held, Backed(d, held), NEW n \in Names, NEW m \in Names
    PROVE  Backed(Rename(d, n, m).disk, held)
<1> DEFINE f == d.names[n]
           away == Link(d, n, None)
<1>1. d \in Disk BY DEF Backed
<1>2. f \in Files \cup {None} /\ (f # None => d.nodes[f] # None) BY <1>1, DiskType DEF Backed
<1>3. Backed(away, held) BY LinkBacked
<1>4. away.nodes = d.nodes BY <1>1, DiskType DEF Link
<1> HIDE DEF f, away
<1>5. Backed(Link(away, m, f), held) BY <1>2, <1>3, <1>4, LinkBacked
<1> QED BY <1>5, DoneIfBacked DEF Rename, f, away

LEMMA RemoveBacked ==
    ASSUME NEW d, NEW held, Backed(d, held), NEW n \in Names
    PROVE  Backed(Unlink(d, n).disk, held) /\ Backed(Rmdir(d, n).disk, held)
<1>1. Backed(Link(d, n, None), held) BY LinkBacked
<1> QED BY <1>1, DoneIfBacked DEF Unlink, Rmdir

(* Calls that look only *)
LEMMA LookBacked ==
    ASSUME NEW d, NEW held, Backed(d, held)
    PROVE  /\ \A f : Backed(Pread(d, f).disk, held)
           /\ \A f : Backed(Stat(d, f).disk, held)
           /\ \A f, mode : Backed(Access(d, f, mode).disk, held)
           /\ \A n : Backed(Readlink(d, n).disk, held)
           /\ Backed(Fails(d).disk, held)
    BY DEF Pread, Stat, Access, Readlink, DoneIf, Done, Fails

-----------------------------------------------------------------------------
(* The inductive invariant for the types: TypeOK, with what calls, late         *)
(* requests and handles are about, so that each meets a name where it needs    *)
(* one, and with no handle to lose for who opens another's file.              *)
Crosses(u, r) ==
    r.op = "rename" /\ r.owner \in Users \ {u} /\ r.arg.owner \in Users \ {u, r.owner}
StaysThere == \A u \in Users : \A c \in Requests[u] : ~ Crosses(u, c)
TypedRequest(r) ==
    /\ r.op \in LocalOps /\ r.arg \in Arg(r.op)
    /\ r.owner \in Users \cup {Root} /\ r.name \in Names \cup {None}
    /\ r.owner \in Users /\ r.op \notin {"open", "readdir"} => r.name \in Names
    /\ r.op = "rename" /\ r.arg.owner \in Users => r.arg.name \in Names
Goes(r) ==
    /\ TypedRequest(r)
    /\ r.op = "rename" /\ r.owner \in Users =>
         r.arg.owner \in Users /\ (StaysThere => r.arg.owner = r.owner)
IsNamed(r) == r.owner \in Users /\ r.op # "readdir" => r.name \in Names

DiskTyped(u) == disk[u] \in Disk /\ Exact(disk[u], HeldBy(handle[u]))
HandleTyped(u) ==
    handle[u] # None =>
        /\ handle[u] \in Handle /\ up[u]
        /\ handle[u].owner = u <=> IsHeld(u)
        /\ handle[u].owner \in Users => handle[u].name \in Names
CallTyped(u) ==
    call[u] # None =>
        /\ up[u] /\ call[u].stage \in Way \cup {"opened", "answered"}
        /\ call[u].how = "none" <=> call[u].stage # "answered"
        /\ TypedRequest(call[u].req) /\ IsNamed(call[u].req)
        /\ Unfinished(u) => Goes(call[u].req)
        /\ call[u].req.op = "open" /\ call[u].req.owner # u => handle[u] = None
LateTyped(u) == late[u] # None => Goes(late[u]) /\ late[u].owner \in Users
LookTyped(o) ==
    look[o] # None =>
        /\ up[o] /\ streams[o] > 0
        /\ look[o] \in Listing
        /\ look[o].live =>
             /\ OnItsWay(look[o].who) /\ call[look[o].who].req.owner = o
             /\ call[look[o].who].req.op = "readdir"
FdsTyped(u) == UsedFds(u) <= MaxFds /\ (listens[u] => up[u])
Typed(u) ==
    /\ DiskTyped(u) /\ HandleTyped(u) /\ CallTyped(u)
    /\ LateTyped(u) /\ LookTyped(u) /\ FdsTyped(u)
Typing == \A u \in Users : Typed(u)

LEMMA TypingTypes == IInv /\ Typing /\ Hearing => TypeOK
<1> SUFFICES ASSUME IInv, Typing, Hearing PROVE TypeOK OBVIOUS
<1> USE DEF Typing, Typed
<1>1. disk \in [Users -> Disk] BY DEF IInv, Functions, DiskTyped
<1>2. \A u \in Users : {f \in Files : disk[u].nodes[f] # None} = Referred(u)
  BY DEF DiskTyped, Exact, Referred
<1>3. \A u \in Users : handle[u] # None => handle[u] \in Handle /\ up[u]
  BY DEF HandleTyped
<1>4. \A u \in Users : handle[u] # None => (handle[u].owner = u <=> IsHeld(u))
  BY DEF HandleTyped
<1>5. \A u \in Users : call[u] # None =>
         /\ up[u] /\ call[u].stage \in Way \cup {"opened", "answered"}
         /\ call[u].how = "none" <=> call[u].stage # "answered"
  BY DEF CallTyped
<1>a. \A o \in Users :
         /\ accepted[o] \subseteq Connection
         /\ Unanswered(o) <= conns[o]
         /\ \A v \in Users :
              /\ <<v, "call">> \in accepted[o] => v \in AtOwner(o) /\ ~ Listed(v)
              /\ <<v, "late">> \in accepted[o] => IsLate(o, v)
  BY DEF Hearing, HeardTyped
<1>6. \A o \in Users : look[o] # None =>
         /\ up[o] /\ streams[o] > 0
         /\ look[o].live => OnItsWay(look[o].who) /\ call[look[o].who].req.owner = o
  BY DEF LookTyped
<1>7. \A u \in Users : UsedFds(u) <= MaxFds /\ (listens[u] => up[u]) BY DEF FdsTyped
<1> QED BY <1>1, <1>2, <1>3, <1>4, <1>5, <1>a, <1>6, <1>7 DEF TypeOK

LEMMA InitTyping == Init => Typing
<1> SUFFICES ASSUME Init, NEW u \in Users PROVE Typed(u) BY DEF Typing
<1>1. Backed(NoFiles, {})
  <2>1. NoFiles \in Disk BY DEF NoFiles, Disk
  <2> QED BY <2>1 DEF NoFiles, Backed
<1>2. OneFile \in Disk /\ Exact(OneFile, {})
  <2> DEFINE n == CHOOSE m \in Names : TRUE
  <2>1. n \in Names BY DiskAssumption
  <2>2. NoFiles \in Disk BY <1>1 DEF Backed
  <2>3. n \notin Named(NoFiles) BY DEF Named, NoFiles
  <2>4. CASE Free(NoFiles) = {}
    <3>1. OneFile = NoFiles BY <2>4 DEF OneFile, Make, Fails
    <3> QED BY <2>2, <3>1 DEF Exact, NoFiles, Named
  <2>5. CASE Free(NoFiles) # {}
    <3> DEFINE node == NewNode("file", Empty)
    <3>1. PICK f \in Files : NoFiles.nodes[f] = None
            /\ Make(NoFiles, n, node) = Done(Made(NoFiles, n, node, f), f)
      BY <2>2, <2>3, <2>5, MakeIs
    <3>2. OneFile = Made(NoFiles, n, node, f) BY <3>1 DEF OneFile, Done
    <3>3. node \in Node BY NewNodeType
    <3>4. node # None BY <3>3, DiskAssumption
    <3> HIDE DEF n, node
    <3>5. OneFile = [names |-> [m \in Names |-> IF m = n THEN f ELSE None],
                     nodes |-> [g \in Files |-> IF g = f THEN node ELSE None]]
      BY <2>1, <3>2 DEF Made, Link, NoFiles
    <3>6. OneFile \in Disk BY <3>3, <3>5 DEF Disk
    <3>7. {g \in Files : OneFile.nodes[g] # None} = {f} BY <3>4, <3>5
    <3>8. Named(OneFile) = {n} BY <2>1, <3>5, DiskAssumption DEF Named
    <3>9. OneFile.names[n] = f BY <2>1, <3>5
    <3> QED BY <3>6, <3>7, <3>8, <3>9 DEF Exact
  <2> QED BY <2>4, <2>5
<1>3. disk[u] = OneFile /\ handle[u] = None /\ call[u] = None /\ late[u] = None
      /\ look[u] = None /\ streams[u] = 0 /\ sockets[u] = 0 /\ conns[u] = 0 /\ up[u]
  BY DEF Init
<1>4. DiskTyped(u) BY <1>2, <1>3 DEF DiskTyped, HeldBy
<1>5. UsedFds(u) = 0 BY <1>3 DEF UsedFds, One, IsHeld, OnItsWay
<1>6. FdsTyped(u) BY <1>3, <1>5, BoundsAssumption DEF FdsTyped
<1> QED BY <1>3, <1>4, <1>6 DEF Typed, HandleTyped, CallTyped, LateTyped, LookTyped

(* What each operation leaves behind of a directory *)
LEMMA LocalBacked ==
    ASSUME NEW u \in Users, Backed(disk[u], HeldBy(handle[u])),
           NEW r, TypedRequest(r), IsNamed(r), r.owner = u,
           r.op \in {"read", "write"} => r.via,
           r.via => handle[u] # None /\ handle[u].file \in Files
    PROVE  /\ Backed(Local(u, r).disk, HeldBy(handle[u]))
           /\ r.op = "open" /\ Local(u, r).ok =>
                /\ Local(u, r).value \in Files
                /\ Local(u, r).disk.nodes[Local(u, r).value] # None
<1> DEFINE d == disk[u]
           held == HeldBy(handle[u])
           t == Local(u, r)
           f == Target(u, r)
<1>n. r.op # "readdir" => r.name \in Names BY DEF IsNamed
<1>d. d \in Disk BY DEF Backed
<1>b. Backed(d, held) OBVIOUS
<1>f. r.op # "readdir" => f \in Files \cup {None} /\ (f # None => d.nodes[f] # None)
  <2>1. CASE r.via
    <3>1. f = handle[u].file /\ f \in held BY <2>1, DiskAssumption DEF Target, HeldBy
    <3> QED BY <3>1 DEF Backed
  <2>2. CASE ~ r.via
    <3>1. r.op # "readdir" => f = Reached(d, r.name) BY <2>2 DEF Target
    <3> QED BY <1>n, <1>b, <3>1, ReachedType
  <2> QED BY <2>1, <2>2
<1>a. r.op # "readdir"
        => /\ d.names[r.name] \in Files \cup {None}
           /\ d.names[r.name] # None => d.nodes[d.names[r.name]] # None
  BY <1>n, <1>d, DiskType DEF Backed
<1> HIDE DEF d, held, f
<1>1. CASE r.op = "open"
  <2>1. t = LocalOpen(u, r) BY <1>1 DEF Local
  <2>2. CASE ~ HasRoom(u)
    BY <1>b, <1>1, <2>1, <2>2 DEF LocalOpen, Fails, d, held
  <2>3. CASE HasRoom(u)
    <3>1. t = Open(d, r.name, r.arg) BY <2>1, <2>3 DEF LocalOpen, d
    <3>2. r.name \in Names BY <1>1, <1>n
    <3> HIDE DEF t
    <3>3. Backed(t.disk, held) /\ (t.ok => t.value \in Files /\ t.disk.nodes[t.value] # None)
      BY <1>b, <3>1, <3>2, OpenBacked
    <3> QED BY <3>3 DEF held, t
  <2> QED BY <2>2, <2>3
<1>2. ASSUME r.op # "open", Backed(t.disk, held)
      PROVE  /\ Backed(Local(u, r).disk, HeldBy(handle[u]))
             /\ r.op # "open"
  BY <1>2 DEF held
<1>w. ASSUME r.op # "readdir", NEW x \in Data
      PROVE  Backed(LocalWrite(u, r, x).disk, held)
  <2>1. Backed(Pwrite(d, f, x).disk, held) BY <1>b, <1>f, <1>w, PwriteBacked
  <2>2. Backed(Fails(d).disk, held) BY <1>b, LookBacked
  <2> QED BY <2>1, <2>2 DEF LocalWrite, d, f
<1>3. CASE r.op \in {"read", "getattr", "access", "readlink"}
  <2>1. Backed(t.disk, held) BY <1>3, <1>b, LookBacked DEF Local, d
  <2> QED BY <1>2, <1>3, <2>1
<1>4. CASE r.op = "write"
  <2>1. r.arg \in Data BY <1>4 DEF TypedRequest, Arg
  <2>2. t = LocalWrite(u, r, r.arg) BY <1>4 DEF Local
  <2>3. Backed(t.disk, held) BY <1>4, <1>w, <2>1, <2>2
  <2> QED BY <1>2, <1>4, <2>3
<1>5. CASE r.op = "truncate"
  <2>1. t = LocalTruncate(u, r) BY <1>5 DEF Local
  <2>2. Backed(Truncate(d, f).disk, held) BY <1>5, <1>b, <1>f, TruncateBacked
  <2>e. Empty \in Data BY DiskAssumption
  <2>3. Backed(LocalWrite(u, r, Empty).disk, held) BY ONLY <1>5, <1>w, <2>e
  <2>4. Backed(t.disk, held) BY <2>1, <2>2, <2>3 DEF LocalTruncate, d, f
  <2> QED BY <1>2, <1>5, <2>4
<1>6. CASE r.op = "chmod"
  <2> DEFINE g == IF r.via THEN f ELSE d.names[r.name]
  <2>1. g \in Files \cup {None} /\ (g # None => d.nodes[g] # None) BY <1>6, <1>a, <1>f
  <2>2. r.arg \in BOOLEAN BY <1>6 DEF TypedRequest, Arg
  <2>3. t = Chmod(d, g, r.arg) BY <1>6 DEF Local, LocalChmod, d, f
  <2> HIDE DEF g
  <2>4. Backed(Chmod(d, g, r.arg).disk, held) BY <1>b, <2>1, <2>2, ChmodBacked
  <2> QED BY <1>2, <1>6, <2>3, <2>4
<1>7. CASE r.op = "mkdir"
  <2>1. t = Make(d, r.name, NewNode("dir", None)) BY <1>7 DEF Local, d
  <2>2. r.name \in Names BY <1>7, <1>n
  <2>3. Backed(t.disk, held) BY <1>b, <2>1, <2>2, NewNodeType, MakeBacked
  <2> QED BY <1>2, <1>7, <2>3
<1>8. CASE r.op = "symlink"
  <2>1. t = Make(d, r.name, NewNode("link", r.arg)) BY <1>8 DEF Local, d
  <2>2. r.name \in Names BY <1>8, <1>n
  <2>3. r.arg \in Names BY <1>8 DEF TypedRequest, Arg
  <2>4. Backed(t.disk, held) BY <1>b, <2>1, <2>2, <2>3, NewNodeType, MakeBacked
  <2> QED BY <1>2, <1>8, <2>4
<1>9. CASE r.op \in {"unlink", "rmdir"}
  <2>1. t = Unlink(d, r.name) \/ t = Rmdir(d, r.name) BY <1>9 DEF Local, d
  <2>2. r.name \in Names BY <1>9, <1>n
  <2>3. Backed(t.disk, held) BY <1>b, <2>1, <2>2, RemoveBacked
  <2> QED BY <1>2, <1>9, <2>3
<1>10. CASE r.op = "rename"
  <2>1. t = LocalRename(u, r) BY <1>10 DEF Local
  <2>2. r.name \in Names BY <1>10, <1>n
  <2>3. r.arg.owner = u => r.arg.name \in Names BY <1>10 DEF TypedRequest
  <2>4. r.arg.owner = u => Backed(Rename(d, r.name, r.arg.name).disk, held)
    BY <1>b, <2>2, <2>3, RenameBacked
  <2>5. Backed(Fails(d).disk, held) BY <1>b, LookBacked
  <2>6. Backed(t.disk, held) BY <2>1, <2>4, <2>5 DEF LocalRename, d
  <2> QED BY <1>2, <1>10, <2>6
<1>11. CASE r.op = "readdir"
  <2>1. t = LocalReaddir(u) BY <1>11 DEF Local
  <2>2. t.disk = d BY <2>1 DEF LocalReaddir, DoneIf, Done, Fails, d
  <2> QED BY <1>2, <1>11, <1>b, <2>2
<1> QED
  BY <1>1, <1>3, <1>4, <1>5, <1>6, <1>7, <1>8, <1>9, <1>10, <1>11
  DEF TypedRequest, LocalOps, Ops, Unsupported

LEMMA HandledBacked ==
    ASSUME NEW o \in Users, NEW held, Backed(disk[o], held), NEW r, Goes(r),
           r.owner = o, r.op \in SentOps, r.op = "readdir" => ~ HasRoom(o)
    PROVE  Backed(Handled(o, r).disk, held)
<1> USE DEF Goes
<1> DEFINE d == disk[o]
           t == Handled(o, r)
           f == Reached(d, r.name)
           file == Open(d, r.name, {"rw"})
<1>b. Backed(d, held) OBVIOUS
<1>n. r.op \notin {"open", "readdir"} => r.name \in Names BY DEF TypedRequest
<1>f. r.op \notin {"open", "readdir"} => f \in Files \cup {None} /\ (f # None => d.nodes[f] # None)
  BY <1>b, <1>n, ReachedType
<1>o. r.op \notin {"open", "readdir"} /\ file.ok => file.value = f
  BY DEF Open, DoneIf, Done, Fails
<1> HIDE DEF d, f
<1>l. /\ \A g : Backed(Pread(d, g).disk, held)
      /\ \A g : Backed(Stat(d, g).disk, held)
      /\ \A g, mode : Backed(Access(d, g, mode).disk, held)
      /\ Backed(Fails(d).disk, held)
  BY <1>b, LookBacked
<1>0. CASE r.op \in {"open", "read", "write", "readdir"} /\ ~ HasRoom(o)
  BY <1>0, <1>l DEF Handled, d
<1>1. CASE r.op = "open" /\ HasRoom(o)
  <2>1. t = IF r.name = None THEN Done(d, None) ELSE Open(d, r.name, r.arg)
    BY <1>1 DEF Handled, d
  <2>2. CASE r.name = None
    <3>1. t.disk = d BY <2>1, <2>2 DEF Done
    <3> QED BY <1>b, <3>1
  <2>3. CASE r.name # None
    <3>1. r.name \in Names BY <2>3 DEF TypedRequest
    <3> QED BY <1>b, <2>1, <2>3, <3>1, OpenBacked
  <2> QED BY <2>2, <2>3
<1>2. CASE r.op = "read" /\ HasRoom(o) BY <1>2, <1>l DEF Handled, d
<1>3. CASE r.op = "write" /\ HasRoom(o)
  <2>1. r.arg \in Data BY <1>3 DEF TypedRequest, Arg
  <2>2. t = IF file.ok THEN Pwrite(d, file.value, r.arg) ELSE Fails(d) BY <1>3 DEF Handled, d
  <2>3. Backed(Pwrite(d, f, r.arg).disk, held) BY <1>3, <1>b, <1>f, <2>1, PwriteBacked
  <2> QED BY <1>3, <1>o, <1>l, <2>2, <2>3
<1>4. CASE r.op = "getattr" BY <1>4, <1>l DEF Handled, d
<1>5. CASE r.op = "access" BY <1>5, <1>l DEF Handled, d
<1>6. CASE r.op = "truncate"
  <2>1. t = Truncate(d, f) BY <1>6 DEF Handled, d, f
  <2> QED BY <1>6, <1>b, <1>f, <2>1, TruncateBacked
<1>7. CASE r.op = "rename"
  <2>1. r.arg.name \in Names BY <1>7 DEF TypedRequest
  <2>2. t = Rename(d, r.name, r.arg.name) BY <1>7 DEF Handled, d
  <2> QED BY <1>7, <1>b, <1>n, <2>1, <2>2, RenameBacked
<1> QED BY <1>0, <1>1, <1>2, <1>3, <1>4, <1>5, <1>6, <1>7 DEF SentOps

-----------------------------------------------------------------------------
(* The types are kept by each action.  First, what is not touched *)

SameDisk(v) == disk'[v] = disk[v] /\ handle'[v] = handle[v]
LEMMA DiskKept ==
    ASSUME NEW v \in Users, DiskTyped(v), SameDisk(v) PROVE DiskTyped(v)'
    BY DEF DiskTyped, SameDisk

LEMMA HandleKept ==
    ASSUME NEW v \in Users, HandleTyped(v), handle'[v] = handle[v], up'[v] = up[v]
    PROVE  HandleTyped(v)'
    BY DEF HandleTyped, IsHeld

LEMMA CallKept ==
    ASSUME NEW v \in Users, CallTyped(v), call'[v] = call[v], handle'[v] = handle[v], up'[v] = up[v]
    PROVE  CallTyped(v)'
    BY DEF CallTyped, Unfinished

LEMMA LateKept ==
    ASSUME NEW v \in Users, LateTyped(v), late'[v] \in {late[v], None} PROVE LateTyped(v)'
    BY DEF LateTyped

LEMMA LookKept ==
    ASSUME NEW o \in Users, LookTyped(o), look'[o] = look[o], up'[o] = up[o],
           streams'[o] = streams[o], look[o] # None => call'[look[o].who] = call[look[o].who]
    PROVE  LookTyped(o)'
    BY DEF LookTyped, OnItsWay

LEMMA FdsNat ==
    ASSUME IInv, NEW v \in Users
    PROVE  UsedFds(v) \in Nat
    BY DEF IInv, Flags, UsedFds, One

LEMMA FdsKept ==
    ASSUME NEW v \in Users, FdsTyped(v), IInv, IInv', streams'[v] = streams[v],
           sockets'[v] = sockets[v], conns'[v] <= conns[v], IsHeld(v)' => IsHeld(v),
           OnItsWay(v)' => OnItsWay(v), up'[v] = up[v], listens'[v] => listens[v]
    PROVE  FdsTyped(v)'
<1>1. /\ streams[v] \in Nat /\ sockets[v] \in Nat /\ conns[v] \in Nat /\ conns'[v] \in Nat
  BY DEF IInv, Flags
<1>2. UsedFds(v)' <= UsedFds(v) BY <1>1 DEF UsedFds, One
<1>3. UsedFds(v) \in Nat /\ UsedFds(v)' \in Nat BY <1>1 DEF UsedFds, One
<1>4. UsedFds(v)' <= MaxFds BY <1>2, <1>3, BoundsAssumption DEF FdsTyped
<1> QED BY <1>4 DEF FdsTyped

(* One more is as many as there may be when there was room. *)
LEMMA FdsTaken ==
    ASSUME NEW v \in Users, IInv, IInv', HasRoom(v), UsedFds(v)' <= UsedFds(v) + 1,
           FdsTyped(v), up'[v] = up[v], listens'[v] => listens[v]
    PROVE  FdsTyped(v)'
<1>1. UsedFds(v) \in Nat BY FdsNat
<1>2. UsedFds(v)' \in Nat BY DEF IInv, Flags, UsedFds, One
<1>3. UsedFds(v)' <= MaxFds BY <1>1, <1>2, BoundsAssumption DEF HasRoom
<1> QED BY <1>3 DEF FdsTyped

LEMMA SentTyped ==
    ASSUME IInv, Typing, NEW u \in Users, OnItsWay(u)
    PROVE  /\ Goes(Sent(u)) /\ Sent(u).owner = call[u].req.owner /\ Sent(u).op \in SentOps
<1> DEFINE r == call[u].req
<1>1. Goes(r) /\ IsRequest(r)
  BY DEF Typing, Typed, CallTyped, OnItsWay, Unfinished, IInv, Requested
<1>2. CASE call[u].stage = "opening"
  <2>1. Sent(u) = [op |-> "open", owner |-> r.owner, name |-> r.name, arg |-> {}, via |-> r.via]
    BY <1>1, <1>2 DEF Sent, IsRequest
  <2>2. {} \in Arg("open") BY DEF Arg
  <2>3. "open" \in LocalOps /\ "open" \in SentOps BY DEF LocalOps, Ops, SentOps
  <2> HIDE DEF r
  <2>4. Sent(u).op = "open" /\ Sent(u).owner = r.owner /\ Sent(u).name = r.name /\ Sent(u).arg = {}
    BY <2>1
  <2>5. TypedRequest(Sent(u)) BY <1>1, <2>2, <2>3, <2>4 DEF TypedRequest, Goes
  <2> QED BY <2>3, <2>4, <2>5 DEF Goes, r
<1>3. CASE call[u].stage # "opening" BY <1>1, <1>3 DEF Sent, IsRequest
<1> QED BY <1>2, <1>3

(* What is sent is something. *)
LEMMA SentSome ==
    ASSUME IInv, Typing, NEW u \in Users, OnItsWay(u)
    PROVE  Sent(u) # None
<1> DEFINE r == Sent(u)
<1>1. Goes(r) /\ IsRequest(r) BY SentTyped, SentIsRequest DEF IInv
<1> HIDE DEF r
<1>2. /\ r = [op |-> r.op, owner |-> r.owner, name |-> r.name, arg |-> r.arg, via |-> r.via]
      /\ r.op \in LocalOps /\ r.owner \in Users \cup {Root} /\ r.name \in Names \cup {None}
      /\ r.arg \in Arg(r.op) /\ r.via \in BOOLEAN
  BY <1>1 DEF Goes, TypedRequest, IsRequest
<1>3. r \in Call(r.op) BY <1>2 DEF Call
<1> QED BY <1>2, <1>3, NoneAssumption DEF LocalOps, r

LEMMA EndsTyping ==
    ASSUME IInv, Typing, NEW u \in Users, Ends(u)
    PROVE  Typing'
<1>f. Flags /\ Functions BY DEF IInv
<1>i. IInv' BY EndsStep
<1>1. PICK gone \in SUBSET Dealing(u), stays \in {FALSE, Remains(u)} : Left(u, gone, stays)
  BY <1>f, EndsIs
<1>2. /\ up'[u] = FALSE /\ listens'[u] = FALSE /\ handle'[u] = None /\ call'[u] = None
      /\ disk'[u] = Reclaim(disk[u], {}) /\ streams'[u] = 0 /\ sockets'[u] = 0
      /\ conns'[u] = 0 /\ look'[u] = None
  BY <1>1 DEF Left
<1>3. \A v \in Users \ {u} :
        /\ up'[v] = up[v] /\ listens'[v] = listens[v] /\ handle'[v] = handle[v]
        /\ disk'[v] = disk[v] /\ streams'[v] = streams[v] /\ sockets'[v] = sockets[v]
        /\ conns'[v] = conns[v]
  BY <1>1 DEF Left
<1>4. \A v \in Users \ {u} : call'[v] \in {call[v], Lost(call[v].req)}
                             /\ (call'[v] = call[v] \/ (call[v] # None /\ call[v].req.owner = u))
  BY <1>1 DEF Left, Dealing
<1>5. \A o \in Users \ {u} :
        look'[o] = IF look[o] # None /\ look[o].who = u THEN [look[o] EXCEPT !.live = FALSE]
                   ELSE look[o]
  BY <1>1, Zenon DEF Left
<1>6. \A v \in Users : late'[v] \in {late[v], None} \/ (v = u /\ stays /\ late'[v] = Sent(u))
  BY <1>1 DEF Left
<1>7. stays => OnItsWay(u) /\ call[u].req.owner \in Users BY <1>1 DEF Remains
<1>8. ASSUME NEW v \in Users PROVE LateTyped(v)'
  <2>1. Typed(v) BY DEF Typing
  <2>2. CASE late'[v] \in {late[v], None} BY <2>1, <2>2, LateKept DEF Typed
  <2>3. CASE v = u /\ stays /\ late'[v] = Sent(u) BY <1>7, <2>3, SentTyped DEF LateTyped
  <2> QED BY <1>6, <2>2, <2>3
<1>9. Typed(u)'
  <2>1. DiskTyped(u)'
    <3>1. disk[u] \in Disk /\ Exact(disk[u], HeldBy(handle[u])) BY DEF Typing, Typed, DiskTyped
    <3>2. Backed(disk[u], HeldBy(handle[u])) BY <3>1, ExactBacked
    <3>3. Backed(disk[u], {}) BY <3>2 DEF Backed
    <3>4. disk'[u] \in Disk /\ Exact(disk'[u], {}) BY <1>2, <3>3, ReclaimExact
    <3> QED BY <1>2, <3>4 DEF DiskTyped, HeldBy
  <2>2. UsedFds(u)' = 0 BY <1>2 DEF UsedFds, One, IsHeld, OnItsWay
  <2> QED BY <1>2, <1>8, <2>1, <2>2, BoundsAssumption
          DEF Typed, HandleTyped, CallTyped, LookTyped, FdsTyped
<1>10. ASSUME NEW v \in Users \ {u} PROVE Typed(v)'
  <2>0. Typed(v) BY DEF Typing
  <2>1. DiskTyped(v)' BY <1>3, <2>0, DiskKept DEF Typed, SameDisk
  <2>2. HandleTyped(v)' BY <1>3, <2>0, HandleKept DEF Typed
  <2>3. CallTyped(v)'
    <3>1. CASE call'[v] = call[v] BY <1>3, <2>0, <3>1, CallKept DEF Typed
    <3>2. CASE call'[v] = Lost(call[v].req) /\ call[v] # None
      <4>1. call'[v].req = call[v].req /\ call'[v].stage = "answered" /\ call'[v].how = "lost"
        BY <3>2 DEF Lost, Answered, In
      <4> QED BY <1>3, <2>0, <3>2, <4>1 DEF Typed, CallTyped, Unfinished, Way
    <3> QED BY <1>4, <3>1, <3>2
  <2>4. LookTyped(v)'
    <3>1. CASE look[v] # None /\ look[v].who = u
      <4>1. look'[v] = [look[v] EXCEPT !.live = FALSE] BY <1>5, <3>1
      <4> QED BY <1>3, <2>0, <3>1, <4>1 DEF Typed, LookTyped, Listing
    <3>2. CASE look[v] # None /\ look[v].who # u /\ look[v].live
      <4>1. look'[v] = look[v] BY <1>5, <3>2
      <4>2. look[v].who \in Users /\ call[look[v].who].req.owner = v
        BY <2>0, <3>2 DEF Typed, LookTyped, Listing
      <4>3. call'[look[v].who] = call[look[v].who] BY <1>4, <3>2, <4>2
      <4> QED BY <1>3, <2>0, <4>1, <4>3, LookKept DEF Typed
    <3>3. CASE look[v] # None /\ look[v].who # u /\ ~ look[v].live
      <4>1. look'[v] = look[v] BY <1>5, <3>3
      <4> QED BY <1>3, <2>0, <3>3, <4>1 DEF Typed, LookTyped, Listing
    <3>4. CASE look[v] = None BY <1>5, <3>4 DEF LookTyped
    <3> QED BY <3>1, <3>2, <3>3, <3>4
  <2>5. FdsTyped(v)'
    <3>1. OnItsWay(v)' => OnItsWay(v)
      BY <1>4 DEF OnItsWay, Way, Lost, Answered, In
    <3>2. conns'[v] <= conns[v] BY <1>3, <1>f DEF Flags
    <3>3. IsHeld(v)' => IsHeld(v) BY <1>3 DEF IsHeld
    <3> QED BY <1>3, <1>i, <2>0, <3>1, <3>2, <3>3, FdsKept DEF Typed
  <2> QED BY <1>8, <2>1, <2>2, <2>3, <2>4, <2>5 DEF Typed
<1> QED BY <1>9, <1>10 DEF Typing

(* What a call is about, once the handle is taken into account *)
Fitting(u, r) ==
    /\ TypedRequest(r) /\ IsNamed(r)
    /\ r.op \in {"read", "write"} => r.via
    /\ r.via => handle[u] # None /\ (r.owner = u => handle[u].file \in Files)
    /\ r.op = "open" => handle[u] = None
    /\ StaysThere => ~ Crosses(u, r)
LEMMA ResourceFits ==
    ASSUME IInv, Typing, NEW u \in Users, NEW c \in Requests[u], c.op # "link",
           IF c.op = "open" THEN handle[u] = None ELSE c.via => handle[u] # None
    PROVE  Fitting(u, Resource(u, c))
<1> DEFINE r == Resource(u, c)
           h == handle[u]
<1>1. c.op \in Ops /\ c \in Call(c.op) /\ Sensible(c) BY RequestsAssumption
<1>2. c = [op |-> c.op, owner |-> c.owner, name |-> c.name, arg |-> c.arg, via |-> c.via]
      /\ c.owner \in Users \cup {Root, None} /\ c.name \in Names \cup {None}
      /\ c.arg \in Arg(c.op) /\ c.via \in BOOLEAN
  BY <1>1 DEF Call
<1>3. c.op \in LocalOps BY <1>1 DEF LocalOps
<1>4. CASE ~ c.via
  <2>1. r = c BY <1>4 DEF Resource
  <2>2. c.op \notin {"read", "write"} /\ c.owner # None
        /\ (c.owner \in Users /\ c.op # "readdir" => c.name \in Names)
        /\ (c.op = "rename" /\ c.arg.owner \in Users => c.arg.name \in Names)
    BY <1>1, <1>4 DEF Sensible
  <2>3. c.owner \in Users \cup {Root} BY <1>2, <2>2
  <2>4. StaysThere => ~ Crosses(u, c) BY DEF StaysThere
  <2> QED BY <1>2, <1>3, <1>4, <2>1, <2>2, <2>3, <2>4 DEF Fitting, TypedRequest, IsNamed
<1>5. CASE c.via
  <2>1. r = [op |-> c.op, owner |-> h.owner, name |-> h.name, arg |-> c.arg, via |-> c.via]
    BY <1>2, <1>5 DEF Resource
  <2>2. c.op \in Through BY <1>1, <1>5 DEF Sensible
  <2>3. h # None BY <1>5, <2>2 DEF Through
  <2>4. h \in Handle /\ (h.owner = u <=> IsHeld(u)) /\ (h.owner \in Users => h.name \in Names)
    BY <2>3 DEF Typing, Typed, HandleTyped
  <2>5. h.owner \in Users \cup {Root} /\ h.name \in Names \cup {None} /\ h.file \in Files \cup {None}
    BY <2>4 DEF Handle
  <2>6. h.owner = u => h.file \in Files BY <2>4, <2>5 DEF IsHeld
  <2> HIDE DEF h, r
  <2>7. r.op = c.op /\ r.owner = h.owner /\ r.name = h.name /\ r.arg = c.arg /\ r.via = c.via
    BY <2>1
  <2>8. TypedRequest(r) /\ IsNamed(r)
    BY <1>2, <1>3, <2>2, <2>4, <2>5, <2>7 DEF TypedRequest, IsNamed, Through
  <2>9. handle[u] # None /\ (r.owner = u => handle[u].file \in Files)
    BY <2>3, <2>6, <2>7 DEF h
  <2>10. r.op # "open" /\ r.via /\ ~ Crosses(u, r) BY <1>5, <2>2, <2>7 DEF Through, Crosses
  <2> QED BY <2>8, <2>9, <2>10 DEF Fitting, r
<1> QED BY <1>2, <1>4, <1>5

LEMMA LocalCallTyping ==
    ASSUME IInv, IInv', Typing, NEW u \in Users, up[u], call[u] = None, NEW r, Fitting(u, r),
           LocalCall(u, r)
    PROVE  Typing'
<1> DEFINE t == Local(u, r)
<1>f. Flags /\ Functions BY DEF IInv
<1>1. r.owner = u
  BY DEF LocalCall, MrType, Fitting, TypedRequest
<1>2. Backed(disk[u], HeldBy(handle[u]))
  BY ExactBacked DEF Typing, Typed, DiskTyped
<1>3. /\ Backed(t.disk, HeldBy(handle[u]))
      /\ r.op = "open" /\ t.ok => t.value \in Files /\ t.disk.nodes[t.value] # None
  BY <1>1, <1>2, LocalBacked DEF Fitting
<1> HIDE DEF t
<1>4. /\ call' = [call EXCEPT ![u] = IF t.ok THEN Answered(r, "ok", Value(r, t)) ELSE Refusal(r)]
      /\ handle' = [handle EXCEPT ![u] = IF r.op = "open" /\ t.ok THEN Opened(u, r, t.value) ELSE @]
      /\ disk' = [disk EXCEPT ![u] = Reclaim(t.disk, HeldBy(handle'[u]))]
      /\ UNCHANGED <<late, accepted, conns, look, streams, sockets, up, listens>>
  BY DEF LocalCall, responderVars, t
<1>5. /\ call'[u] = IF t.ok THEN Answered(r, "ok", Value(r, t)) ELSE Refusal(r)
      /\ handle'[u] = IF r.op = "open" /\ t.ok THEN Opened(u, r, t.value) ELSE handle[u]
      /\ disk'[u] = Reclaim(t.disk, HeldBy(handle'[u]))
  BY <1>4, <1>f DEF Functions
<1>6. \A v \in Users \ {u} : call'[v] = call[v] /\ handle'[v] = handle[v] /\ disk'[v] = disk[v]
  BY <1>4, <1>f DEF Functions
<1>7. call'[u].req = r /\ call'[u].stage = "answered" /\ call'[u].how # "none"
  BY <1>5 DEF Answered, Refusal, In
<1>8. ~ OnItsWay(u) BY DEF OnItsWay
<1>9. ~ OnItsWay(u)' BY <1>7 DEF OnItsWay, Way
<1>10. DiskTyped(u)'
  <2>1. Backed(t.disk, HeldBy(handle'[u]))
    <3>1. CASE r.op = "open" /\ t.ok
      <4>1. handle'[u].file = t.value BY <1>5, <3>1 DEF Opened
      <4>2. HeldBy(handle'[u]) \subseteq {t.value} BY <4>1 DEF HeldBy
      <4> QED BY <1>3, <3>1, <4>2 DEF Backed
    <3>2. CASE ~ (r.op = "open" /\ t.ok) BY <1>3, <1>5, <3>2
    <3> QED BY <3>1, <3>2
  <2>2. Reclaim(t.disk, HeldBy(handle'[u])) \in Disk
        /\ Exact(Reclaim(t.disk, HeldBy(handle'[u])), HeldBy(handle'[u]))
    BY <2>1, ReclaimExact
  <2> QED BY <1>5, <2>2 DEF DiskTyped
<1>11. HandleTyped(u)'
  <2>1. CASE r.op = "open" /\ t.ok
    <3>1. handle'[u] = Opened(u, r, t.value) BY <1>5, <2>1
    <3>2. r.owner \in Users /\ r.name \in Names BY <1>1, <2>1 DEF Fitting, IsNamed
    <3>3. t.value \in Files /\ t.value # None BY <1>3, <2>1, DiskAssumption
    <3>4. handle'[u] \in Handle BY <3>1, <3>2, <3>3 DEF Opened, Handle
    <3>5. handle'[u].owner = u /\ handle'[u].file = t.value /\ handle'[u].name = r.name
      BY <1>1, <3>1 DEF Opened
    <3> QED BY <1>4, <3>2, <3>3, <3>4, <3>5 DEF HandleTyped, IsHeld
  <2>2. CASE ~ (r.op = "open" /\ t.ok)
    BY <1>4, <1>5, <2>2, HandleKept DEF Typing, Typed
  <2> QED BY <2>1, <2>2
<1>12. CallTyped(u)'
  BY <1>1, <1>4, <1>7 DEF CallTyped, Fitting, Unfinished, Way
<1>13. FdsTyped(u)'
  <2>0. Typed(u) BY DEF Typing
  <2>1. CASE r.op = "open" /\ t.ok
    <3>1. HasRoom(u)
      BY <2>1 DEF t, Local, LocalOpen, Fails
    <3>2. handle[u] = None BY <2>1 DEF Fitting
    <3>3. UsedFds(u) = streams[u] + sockets[u] + conns[u]
      BY <1>8, <1>f, <3>2 DEF UsedFds, One, IsHeld, Flags
    <3>4. UsedFds(u)' <= UsedFds(u) + 1
      BY <1>4, <1>9, <1>f, <3>3 DEF UsedFds, One, Flags
    <3> QED BY <1>4, <2>0, <3>1, <3>4, FdsTaken DEF Typed
  <2>2. CASE ~ (r.op = "open" /\ t.ok)
    <3>1. handle'[u] = handle[u] BY <1>5, <2>2
    <3>2. conns'[u] <= conns[u] BY <1>4, <1>f DEF Flags
    <3> QED BY <1>4, <1>9, <2>0, <3>1, <3>2, FdsKept DEF Typed, IsHeld
  <2> QED BY <2>1, <2>2
<1>14. ASSUME NEW v \in Users PROVE LateTyped(v)' /\ LookTyped(v)'
  <2>0. Typed(v) BY DEF Typing
  <2>1. LateTyped(v)' BY <1>4, <2>0, LateKept DEF Typed
  <2>2. CASE look[v] # None /\ look[v].live
    <3>1. look[v].who \in Users /\ look[v].who # u
      BY <1>8, <2>0, <2>2 DEF Typed, LookTyped, Listing
    <3> QED BY <1>4, <1>6, <2>0, <2>1, <3>1, LookKept DEF Typed
  <2>3. CASE ~ (look[v] # None /\ look[v].live)
    BY <1>4, <2>0, <2>1, <2>3 DEF Typed, LookTyped
  <2> QED BY <2>2, <2>3
<1>15. ASSUME NEW v \in Users \ {u} PROVE Typed(v)'
  <2>0. Typed(v) BY DEF Typing
  <2>1. DiskTyped(v)' BY <1>6, <2>0, DiskKept DEF Typed, SameDisk
  <2>2. HandleTyped(v)' /\ CallTyped(v)' BY <1>4, <1>6, <2>0, HandleKept, CallKept DEF Typed
  <2>c. conns'[v] <= conns[v] BY <1>4, <1>f DEF Flags
  <2>3. FdsTyped(v)' BY <1>4, <1>6, <2>0, <2>c, FdsKept DEF Typed, IsHeld, OnItsWay
  <2> QED BY <1>14, <2>1, <2>2, <2>3 DEF Typed
<1> QED BY <1>10, <1>11, <1>12, <1>13, <1>14, <1>15 DEF Typing, Typed

(* One user's call goes on, which is not being listed for. *)
LEMMA CallTyping ==
    ASSUME IInv, IInv', Typing, NEW u \in Users, ~ Listed(u),
           \A v \in Users \ {u} : call'[v] = call[v],
           UNCHANGED <<handle, up, look, conns, streams>>,
           \A v \in Users : listens'[v] => listens[v],
           \A v \in Users \ {u} : sockets'[v] = sockets[v],
           \A v \in Users : DiskTyped(v)', \A v \in Users : late'[v] \in {late[v], None},
           CallTyped(u)', FdsTyped(u)'
    PROVE  Typing'
<1> SUFFICES ASSUME NEW v \in Users PROVE Typed(v)' BY DEF Typing
<1>0. Typed(v) BY DEF Typing
<1>1. HandleTyped(v)' /\ LateTyped(v)' BY <1>0, HandleKept, LateKept DEF Typed
<1>2. LookTyped(v)'
  <2>1. CASE look[v] # None /\ look[v].live
    <3>1. look[v].who \in Users /\ look[v].who # u
      BY <1>0, <2>1 DEF Typed, LookTyped, Listing, Listed
    <3> QED BY <1>0, <3>1, LookKept DEF Typed
  <2>2. CASE ~ (look[v] # None /\ look[v].live) BY <1>0, <2>2 DEF Typed, LookTyped
  <2> QED BY <2>1, <2>2
<1>3. CASE v = u BY <1>1, <1>2, <1>3 DEF Typed
<1>4. CASE v # u
  <2>1. CallTyped(v)' BY <1>0, <1>4, CallKept DEF Typed
  <2>2. conns'[v] <= conns[v] BY DEF IInv, Flags
  <2>3. FdsTyped(v)' BY <1>0, <1>4, <2>2, FdsKept DEF Typed, IsHeld, OnItsWay
  <2> QED BY <1>1, <1>2, <2>1, <2>3 DEF Typed
<1> QED BY <1>3, <1>4

(* A call that is answered was on its way. *)
IsAnswer(a, r) == a.req = r /\ a.stage = "answered" /\ a.how # "none"
LEMMA AnswerTypes ==
    ASSUME NEW r, NEW v
    PROVE  /\ IsAnswer(Refusal(r), r) /\ IsAnswer(Lost(r), r)
           /\ IsAnswer(Answered(r, "ok", v), r) /\ IsAnswer(Answered(r, "error", v), r)
           /\ IsAnswer(RootAnswer(r), r)
    BY DEF IsAnswer, Refusal, Lost, Answered, In, RootAnswer

LEMMA AnswerTyping ==
    ASSUME IInv, IInv', Typing, NEW u \in Users, OnItsWay(u), ~ Listed(u),
           NEW a, IsAnswer(a, call[u].req), call' = [call EXCEPT ![u] = a],
           UNCHANGED <<handle, up, look, conns, streams, sockets>>,
           \A v \in Users : listens'[v] => listens[v],
           \A v \in Users : DiskTyped(v)', \A v \in Users : late'[v] \in {late[v], None}
    PROVE  Typing'
<1>1. call'[u] = a /\ \A v \in Users \ {u} : call'[v] = call[v] BY DEF IInv, Functions
<1>2. Typed(u) BY DEF Typing
<1>3. ~ OnItsWay(u)' BY <1>1 DEF OnItsWay, IsAnswer, Way
<1>4. CallTyped(u)' BY <1>1, <1>2, <1>3 DEF Typed, CallTyped, OnItsWay, Unfinished, Way, IsAnswer
<1>5. conns'[u] <= conns[u] BY DEF IInv, Flags
<1>6. FdsTyped(u)' BY <1>2, <1>3, <1>5, FdsKept DEF Typed, IsHeld
<1> QED BY <1>1, <1>4, <1>6, CallTyping

(* A request goes off, if there is room for its connection. *)
LEMMA AskTyping ==
    ASSUME IInv, IInv', Typing, NEW u \in Users, up[u], ~ OnItsWay(u), ~ Listed(u),
           NEW r, TypedRequest(r), IsNamed(r), Goes(r),
           r.op = "open" /\ r.owner # u => handle[u] = None,
           NEW stage \in Way, call' = [call EXCEPT ![u] = Begun(u, r, stage)],
           sockets' = [sockets EXCEPT ![u] = @ + Leaked(u)],
           UNCHANGED <<disk, handle, late, look, conns, streams, up, listens>>
    PROVE  Typing'
<1>f. Flags /\ Functions BY DEF IInv
<1> DEFINE a == Begun(u, r, stage)
           k == Leaked(u)
<1>1. /\ call'[u] = a /\ \A v \in Users \ {u} : call'[v] = call[v]
      /\ sockets'[u] = sockets[u] + k /\ \A v \in Users \ {u} : sockets'[v] = sockets[v]
  BY <1>f DEF Flags, Functions
<1>2. /\ a.req = r /\ k \in {0, 1} /\ (k = 1 => HasRoom(u) /\ ~ serving)
      /\ \/ HasRoom(u) /\ serving /\ a.stage = stage /\ a.how = "none"
         \/ a.stage = "answered" /\ a.how = "error"
  BY BegunIs
<1> HIDE DEF a, k
<1>3. Typed(u) BY DEF Typing
<1>4. CallTyped(u)'
  <2>1. a.stage \in Way \cup {"opened", "answered"} /\ (a.how = "none" <=> a.stage # "answered")
    BY <1>2 DEF Way
  <2> QED BY <1>1, <1>2, <2>1 DEF CallTyped
<1>5. FdsTyped(u)'
  <2>1. CASE HasRoom(u)
    <3>1. k = 0 \/ ~ OnItsWay(u)' BY <1>1, <1>2 DEF OnItsWay, Way
    <3>2. UsedFds(u)' <= UsedFds(u) + 1
      BY <1>1, <1>2, <1>f, <3>1 DEF UsedFds, One, Flags, IsHeld
    <3> QED BY <1>3, <2>1, <3>2, FdsTaken DEF Typed
  <2>2. CASE ~ HasRoom(u)
    <3>1. k = 0 /\ ~ OnItsWay(u)' BY <1>1, <1>2, <2>2 DEF OnItsWay, Way
    <3>2. sockets'[u] = sockets[u] /\ conns'[u] <= conns[u] BY <1>1, <1>f, <3>1 DEF Flags
    <3> QED BY <1>3, <3>1, <3>2, FdsKept DEF Typed, IsHeld
  <2> QED BY <2>1, <2>2
<1>6. \A v \in Users : DiskTyped(v)' BY DiskKept DEF SameDisk, Typing, Typed
<1> QED BY <1>1, <1>4, <1>5, <1>6, CallTyping

LEMMA RemoteCallTyping ==
    ASSUME IInv, IInv', Typing, NEW u \in Users, up[u], call[u] = None, NEW r, Fitting(u, r),
           RemoteCall(u, r)
    PROVE  Typing'
<1>f. Flags /\ Functions BY DEF IInv
<1>1. /\ UNCHANGED <<disk, handle, late, look, conns, streams, up, listens>>
      /\ MrType(u, r.owner) # "local"
  BY DEF RemoteCall, responderVars
<1>2. ~ OnItsWay(u) BY DEF OnItsWay
<1>3. ~ Listed(u) BY <1>2 DEF Listed, Typing, Typed, LookTyped, Listing
<1>4. r.owner # u BY <1>1, UsersAssumption DEF MrType
<1>5. r.op = "open" => handle[u] = None BY DEF Fitting
<1>6. CASE IsAtOnce(u, r)
  <2> DEFINE a == AtOnce(u, r)
  <2>1. IsAnswer(a, r) BY AnswerTypes DEF AtOnce
  <2>2. call' = [call EXCEPT ![u] = a] /\ sockets' = [sockets EXCEPT ![u] = @]
    BY <1>6 DEF RemoteCall
  <2> HIDE DEF a
  <2>3. call'[u] = a /\ \A v \in Users \ {u} : call'[v] = call[v] BY <2>2, <1>f DEF Functions
  <2>4. sockets' = sockets BY <2>2, <1>f DEF Flags
  <2>5. ~ OnItsWay(u)' BY <2>1, <2>3 DEF OnItsWay, IsAnswer, Way
  <2>6. CallTyped(u)'
    BY <1>1, <1>5, <2>1, <2>3 DEF CallTyped, Unfinished, Way, IsAnswer, Fitting
  <2>7. conns'[u] <= conns[u] BY <1>1, <1>f DEF Flags
  <2>8. FdsTyped(u)' BY <1>1, <2>4, <2>5, <2>7, FdsKept DEF Typing, Typed, IsHeld
  <2>9. \A v \in Users : DiskTyped(v)' BY <1>1, DiskKept DEF SameDisk, Typing, Typed
  <2> QED BY <1>1, <1>3, <2>3, <2>4, <2>6, <2>8, <2>9, CallTyping
<1>7. CASE ~ IsAtOnce(u, r)
  <2>1. Goes(r)
    <3> SUFFICES ASSUME r.op = "rename", r.owner \in Users
                 PROVE  r.arg.owner \in Users /\ (StaysThere => r.arg.owner = r.owner)
      BY DEF Goes, Fitting
    <3>1. MrType(u, r.owner) = MrType(u, r.arg.owner) BY <1>7 DEF IsAtOnce
    <3>2. r.arg.owner \in Users \cup {Root} BY DEF Fitting, TypedRequest, Arg
    <3>3. r.arg.owner \in Users \ {u} BY <3>1, <3>2, <1>4, UsersAssumption DEF MrType
    <3>4. StaysThere => ~ Crosses(u, r) BY DEF Fitting
    <3> QED BY <3>3, <3>4, <1>4 DEF Crosses
  <2>2. First(r) \in Way BY DEF First, Way
  <2>3. /\ call' = [call EXCEPT ![u] = Begun(u, r, First(r))]
        /\ sockets' = [sockets EXCEPT ![u] = @ + Leaked(u)]
    BY <1>7 DEF RemoteCall
  <2> QED BY <1>1, <1>2, <1>3, <1>5, <2>1, <2>2, <2>3, AskTyping DEF Fitting
<1> QED BY <1>6, <1>7

LEMMA AsksAgainTyping ==
    ASSUME IInv, Typing, NEW u \in Users, AsksAgain(u)
    PROVE  Typing'
<1> DEFINE r == call[u].req
<1>i. IInv' BY AsksAgainStep
<1>1. /\ UNCHANGED <<disk, handle, late, look, conns, streams, up, listens>>
      /\ call[u] # None /\ call[u].stage = "opened"
      /\ call' = [call EXCEPT ![u] = Begun(u, r, "asked")]
      /\ sockets' = [sockets EXCEPT ![u] = @ + Leaked(u)]
  BY DEF AsksAgain, responderVars
<1>2. ~ OnItsWay(u) BY <1>1 DEF OnItsWay, Way
<1>3. ~ Listed(u) BY <1>2 DEF Listed, Typing, Typed, LookTyped, Listing
<1>4. CallTyped(u) /\ HandleTyped(u) BY DEF Typing, Typed
<1>5. up[u] /\ TypedRequest(r) /\ IsNamed(r) /\ Goes(r) BY <1>1, <1>4 DEF CallTyped, Unfinished
<1>6. r.op = "open" /\ r.owner # u => handle[u] = None BY <1>1, <1>4 DEF CallTyped
<1>7. "asked" \in Way BY DEF Way
<1> QED BY <1>1, <1>2, <1>3, <1>5, <1>6, <1>7, <1>i, AskTyping

LEMMA CallsTyping ==
    ASSUME IInv, Typing, NEW u \in Users, Calls(u)
    PROVE  Typing'
<1>1. PICK c \in Requests[u] :
        /\ IF c.op = "open" THEN handle[u] = None ELSE c.via => handle[u] # None
        /\ \/ c.op # "link" /\ LocalCall(u, Resource(u, c))
           \/ c.op # "link" /\ RemoteCall(u, Resource(u, c))
           \/ c.op = "link" /\ Ends(u) /\ UNCHANGED faults
  BY DEF Calls
<1>2. up[u] /\ call[u] = None BY DEF Calls
<1>i. IInv' BY CallsStep
<1> DEFINE r == Resource(u, c)
<1>3. c.op # "link" => Fitting(u, r) BY <1>1, ResourceFits
<1> HIDE DEF r
<1>4. CASE c.op # "link" /\ LocalCall(u, r) BY <1>2, <1>3, <1>4, <1>i, LocalCallTyping
<1>5. CASE c.op # "link" /\ RemoteCall(u, r) BY <1>2, <1>3, <1>5, <1>i, RemoteCallTyping
<1> QED BY <1>1, <1>4, <1>5, EndsTyping DEF r

(* A late request goes, and the call of nobody. *)
LEMMA LateTyping ==
    ASSUME IInv, IInv', Typing, UNCHANGED <<call, handle, up, look, conns, streams, sockets>>,
           \A v \in Users : listens'[v] => listens[v],
           \A v \in Users : DiskTyped(v)', \A v \in Users : late'[v] \in {late[v], None}
    PROVE  Typing'
<1> SUFFICES ASSUME NEW v \in Users PROVE Typed(v)' BY DEF Typing
<1>0. Typed(v) BY DEF Typing
<1>1. HandleTyped(v)' /\ CallTyped(v)' /\ LateTyped(v)' /\ LookTyped(v)'
  BY <1>0, HandleKept, CallKept, LateKept, LookKept DEF Typed
<1>2. conns'[v] <= conns[v] BY DEF IInv, Flags
<1>3. FdsTyped(v)' BY <1>0, <1>2, FdsKept DEF Typed, IsHeld, OnItsWay
<1> QED BY <1>1, <1>3 DEF Typed

LEMMA HandlesTyping ==
    ASSUME IInv, Hearing, Typing, NEW o \in Users, HandlesRequest(o)
    PROVE  Typing'
<1>f. Flags /\ Functions BY DEF IInv
<1>i. IInv' BY HandlesStep
<1>1. PICK u \in Users \ {o} :
         \/ /\ Serves(o, <<u, "call">>)
            /\ Sent(u).op = "readdir" => ~ HasRoom(o)
            /\ disk' = [disk EXCEPT ![o] = Reclaim(Handled(o, Sent(u)).disk, HeldBy(handle[o]))]
            /\ call' = [call EXCEPT ![u] = Response(u, Handled(o, Sent(u)))]
            /\ UNCHANGED late
         \/ /\ Serves(o, <<u, "late">>)
            /\ late[u].op = "readdir" => ~ HasRoom(o)
            /\ disk' = [disk EXCEPT ![o] =
                          Reclaim(Handled(o, late[u]).disk, HeldBy(handle[o]))]
            /\ Taken(u)
            /\ UNCHANGED call
  BY HandlesIs
<1>2. UNCHANGED <<handle, conns, look, streams, sockets, up, listens>> BY HandlesIs
<1>3. ASSUME NEW r, Goes(r), r.owner = o, r.op \in SentOps, r.op = "readdir" => ~ HasRoom(o),
             disk' = [disk EXCEPT ![o] = Reclaim(Handled(o, r).disk, HeldBy(handle[o]))]
      PROVE  \A v \in Users : DiskTyped(v)'
  <2>1. Backed(disk[o], HeldBy(handle[o])) BY ExactBacked DEF Typing, Typed, DiskTyped
  <2>2. Backed(Handled(o, r).disk, HeldBy(handle[o])) BY <1>3, <2>1, HandledBacked
  <2>3. disk'[o] = Reclaim(Handled(o, r).disk, HeldBy(handle[o]))
        /\ \A v \in Users \ {o} : disk'[v] = disk[v]
    BY <1>3, <1>f DEF Functions
  <2>4. DiskTyped(o)' BY <1>2, <2>2, <2>3, ReclaimExact DEF DiskTyped
  <2>5. \A v \in Users \ {o} : DiskTyped(v)'
    BY <1>2, <2>3, DiskKept DEF SameDisk, Typing, Typed
  <2> QED BY <2>4, <2>5
<1>4. CASE /\ Serves(o, <<u, "call">>)
           /\ Sent(u).op = "readdir" => ~ HasRoom(o)
           /\ disk' = [disk EXCEPT ![o] = Reclaim(Handled(o, Sent(u)).disk, HeldBy(handle[o]))]
           /\ call' = [call EXCEPT ![u] = Response(u, Handled(o, Sent(u)))]
           /\ UNCHANGED late
  <2>1. OnItsWay(u) /\ ~ Listed(u) /\ call[u].req.owner = o BY <1>4, ServedIs
  <2>2. Goes(Sent(u)) /\ Sent(u).owner = o /\ Sent(u).op \in SentOps BY <2>1, SentTyped
  <2>3. \A v \in Users : DiskTyped(v)' BY <1>3, <1>4, <2>2
  <2> DEFINE t == Handled(o, Sent(u))
             a == Response(u, t)
             r == call[u].req
  <2>4. \/ IsAnswer(a, r) \/ a = Asking(r, "opened")
    <3>1. CASE ~ t.ok BY <2>1, <3>1, AnswerTypes, ResponseIs
    <3>2. CASE t.ok /\ call[u].stage = "opening" BY <2>1, <3>2, ResponseIs
    <3>3. CASE t.ok /\ call[u].stage = "asked" BY <2>1, <3>3, AnswerTypes, ResponseIs
    <3> QED BY <2>1, <3>1, <3>2, <3>3 DEF OnItsWay, Way
  <2> HIDE DEF t, a
  <2>5. CASE IsAnswer(a, r)
    BY <1>2, <1>4, <1>i, <2>1, <2>3, <2>5, AnswerTyping DEF t, a
  <2>6. CASE a = Asking(r, "opened")
    <3>1. call'[u] = a /\ \A v \in Users \ {u} : call'[v] = call[v]
      BY <1>4, <1>f DEF Functions, t, a
    <3>2. Typed(u) BY DEF Typing
    <3>3. a.req = r /\ a.stage = "opened" /\ a.how = "none" BY <2>6 DEF Asking, In
    <3>4. CallTyped(u)'
      BY <1>2, <2>1, <3>1, <3>2, <3>3 DEF Typed, CallTyped, OnItsWay, Unfinished, Way
    <3>5. ~ OnItsWay(u)' BY <3>1, <3>3 DEF OnItsWay, Way
    <3>6. conns'[u] <= conns[u] BY <1>2, <1>f DEF Flags
    <3>7. FdsTyped(u)' BY <1>2, <1>i, <3>2, <3>5, <3>6, FdsKept DEF Typed, IsHeld
    <3> QED BY <1>2, <1>4, <1>i, <2>1, <2>3, <3>1, <3>4, <3>7, CallTyping
  <2> QED BY <2>4, <2>5, <2>6
<1>5. CASE /\ Serves(o, <<u, "late">>)
           /\ late[u].op = "readdir" => ~ HasRoom(o)
           /\ disk' = [disk EXCEPT ![o] = Reclaim(Handled(o, late[u]).disk, HeldBy(handle[o]))]
           /\ Taken(u)
           /\ UNCHANGED call
  <2>0. IsLate(o, u) BY <1>5, ServedIs
  <2>1. Goes(late[u]) /\ late[u].owner = o /\ late[u].op \in SentOps
    BY <2>0 DEF IsLate, Typing, Typed, LateTyped, IInv, Requested, IsRequest
  <2>2. \A v \in Users : DiskTyped(v)' BY <1>3, <1>5, <2>1
  <2>3. \A v \in Users : late'[v] \in {late[v], None} BY <1>5, <1>f DEF Taken, Functions
  <2> QED BY <1>2, <1>5, <1>i, <2>2, <2>3, LateTyping
<1> QED BY <1>1, <1>4, <1>5

(* One descriptor more or less, for a connection *)
LEMMA ConnsTyping ==
    ASSUME IInv, IInv', Typing, NEW o \in Users, FdsTyped(o)',
           \A v \in Users \ {o} : conns'[v] = conns[v],
           UNCHANGED <<disk, handle, call, late, look, streams, sockets, up, listens>>
    PROVE  Typing'
<1> SUFFICES ASSUME NEW v \in Users PROVE Typed(v)' BY DEF Typing
<1>0. Typed(v) BY DEF Typing
<1>1. DiskTyped(v)' /\ HandleTyped(v)' /\ CallTyped(v)' /\ LateTyped(v)' /\ LookTyped(v)'
  BY <1>0, DiskKept, HandleKept, CallKept, LateKept, LookKept DEF SameDisk, Typed
<1>2. FdsTyped(v)'
  <2>1. CASE v = o BY <2>1
  <2>2. CASE v # o
    <3>1. conns'[v] <= conns[v] BY <2>2 DEF IInv, Flags
    <3> QED BY <1>0, <3>1, FdsKept DEF Typed, IsHeld, OnItsWay
  <2> QED BY <2>1, <2>2
<1> QED BY <1>1, <1>2 DEF Typed

LEMMA AcceptsTyping ==
    ASSUME IInv, Typing, NEW o \in Users, Accepts(o)
    PROVE  Typing'
<1>i. IInv' BY AcceptsStep
<1>1. /\ UNCHANGED <<disk, handle, call, late, look, streams, sockets, up, listens>>
      /\ conns' = [conns EXCEPT ![o] = @ + 1] /\ HasRoom(o)
  BY DEF Accepts
<1>2. conns'[o] = conns[o] + 1 /\ \A v \in Users \ {o} : conns'[v] = conns[v]
  BY <1>1 DEF IInv, Flags
<1>3. UsedFds(o)' <= UsedFds(o) + 1
  BY <1>1, <1>2 DEF UsedFds, One, IsHeld, OnItsWay, IInv, Flags
<1>4. FdsTyped(o)' BY <1>1, <1>3, <1>i, FdsTaken DEF Typing, Typed
<1> QED BY <1>1, <1>2, <1>4, <1>i, ConnsTyping

LEMMA ClosesTyping ==
    ASSUME IInv, Hearing, Typing, NEW o \in Users, Closes(o)
    PROVE  Typing'
<1>i. IInv' BY ClosesStep
<1>1. /\ UNCHANGED <<disk, handle, call, late, look, streams, sockets, up, listens>>
      /\ conns' = [conns EXCEPT ![o] = @ - 1]
  BY DEF Closes
<1>2. conns'[o] = conns[o] - 1 /\ \A v \in Users \ {o} : conns'[v] = conns[v]
  BY <1>1 DEF IInv, Flags
<1>3. conns'[o] <= conns[o] BY <1>2 DEF IInv, Flags
<1>4. FdsTyped(o)' BY <1>1, <1>3, <1>i, FdsKept DEF Typing, Typed, IsHeld, OnItsWay
<1> QED BY <1>1, <1>2, <1>4, <1>i, ConnsTyping

LEMMA AcceptFailsTyping ==
    ASSUME IInv, Typing, NEW o \in Users, AcceptFails(o)
    PROVE  Typing'
<1>f. Flags /\ Functions BY DEF IInv
<1>i. IInv' BY AcceptFailsStep
<1>1. UNCHANGED <<disk, handle, conns, look, streams, sockets, up>>
      /\ listens' = [listens EXCEPT ![o] = FALSE]
  BY DEF AcceptFails, Deafened
<1>2. PICK u \in Users \ {o} :
        \/ Waits(o, u) /\ call' = [call EXCEPT ![u] = Lost(@.req)] /\ UNCHANGED late
        \/ Comes(o, u) /\ Taken(u) /\ UNCHANGED call
  BY DEF AcceptFails
<1>3. \A v \in Users : DiskTyped(v)' BY <1>1, DiskKept DEF SameDisk, Typing, Typed
<1>4. \A v \in Users : listens'[v] => listens[v] BY <1>1, <1>f DEF Flags
<1>5. CASE Waits(o, u) /\ call' = [call EXCEPT ![u] = Lost(@.req)] /\ UNCHANGED late
  <2>1. OnItsWay(u) /\ ~ Listed(u) BY <1>5 DEF Waits, AtOwner, Heard
  <2> DEFINE a == Lost(call[u].req)
  <2>2. IsAnswer(a, call[u].req) BY AnswerTypes
  <2>3. call' = [call EXCEPT ![u] = a] BY <1>5
  <2> HIDE DEF a
  <2> QED BY <1>1, <1>3, <1>4, <1>5, <1>i, <2>1, <2>2, <2>3, AnswerTyping
<1>6. CASE Comes(o, u) /\ Taken(u) /\ UNCHANGED call
  <2>1. \A v \in Users : late'[v] \in {late[v], None} BY <1>6, <1>f DEF Taken, Functions
  <2> QED BY <1>1, <1>3, <1>4, <1>6, <1>i, <2>1, LateTyping
<1> QED BY <1>2, <1>5, <1>6

(* A listing takes a descriptor, and leaves it open. *)
LEMMA CountsTyping ==
    ASSUME IInv, Hearing, Typing, NEW o \in Users, CountsEntries(o)
    PROVE  Typing'
<1>f. Flags /\ Functions BY DEF IInv
<1>i. IInv' BY CountsStep
<1>1. /\ streams' = [streams EXCEPT ![o] = @ + 1]
      /\ UNCHANGED <<disk, call, handle, conns, sockets, up, listens>>
      /\ up[o] /\ look[o] = None /\ HasRoom(o)
  BY DEF CountsEntries, Idle
<1>2. PICK u \in Users \ {o} :
         \/ /\ Serves(o, <<u, "call">>) /\ Sent(u).op = "readdir"
            /\ look' = [look EXCEPT ![o] = [who |-> u, live |-> TRUE, names |-> Named(disk[o])]]
            /\ UNCHANGED late
         \/ /\ Serves(o, <<u, "late">>) /\ late[u].op = "readdir"
            /\ look' = [look EXCEPT ![o] = [who |-> u, live |-> FALSE, names |-> Named(disk[o])]]
            /\ Taken(u)
  BY DEF CountsEntries
<1>3. \A v \in Users : late'[v] \in {late[v], None} BY <1>2, <1>f DEF Taken, Functions
<1>4. \A v \in Users \ {o} : look'[v] = look[v] /\ streams'[v] = streams[v]
  BY <1>1, <1>2, <1>f DEF Flags, Functions
<1>5. LookTyped(o)'
  <2>1. streams'[o] > 0 BY <1>1, <1>f DEF Flags
  <2>2. PICK live \in BOOLEAN :
          /\ look' = [look EXCEPT ![o] = [who |-> u, live |-> live, names |-> Named(disk[o])]]
          /\ live => Serves(o, <<u, "call">>) /\ Sent(u).op = "readdir"
    BY <1>2
  <2>3. look'[o] = [who |-> u, live |-> live, names |-> Named(disk[o])]
    BY <2>2, <1>f DEF Functions
  <2>4. /\ look'[o].who = u /\ look'[o].live = live
        /\ look'[o] \in Listing
    BY <2>2, <2>3 DEF Listing, Named
  <2>5. live => OnItsWay(u) /\ call[u].req.owner = o BY <2>2, ServedIs
  <2>6. live => call[u].req.op = "readdir"
    <3>1. live => Sent(u).op = "readdir" BY <2>2
    <3> QED BY <2>5, <3>1, SentIsRequest DEF IInv, Sent
  <2> QED BY <1>1, <2>1, <2>4, <2>5, <2>6 DEF LookTyped, Listing, OnItsWay
<1>6. FdsTyped(o)'
  <2>1. streams'[o] = streams[o] + 1 BY <1>1, <1>f DEF Flags
  <2>2. UsedFds(o)' <= UsedFds(o) + 1
    BY <1>1, <1>f, <2>1 DEF UsedFds, One, IsHeld, OnItsWay, Flags
  <2> QED BY <1>1, <1>i, <2>2, FdsTaken DEF Typing, Typed
<1> SUFFICES ASSUME NEW v \in Users PROVE Typed(v)' BY DEF Typing
<1>7. Typed(v) BY DEF Typing
<1>8. DiskTyped(v)' /\ HandleTyped(v)' /\ CallTyped(v)' /\ LateTyped(v)'
  BY <1>1, <1>3, <1>7, DiskKept, HandleKept, CallKept, LateKept DEF SameDisk, Typed
<1>9. CASE v = o BY <1>5, <1>6, <1>8, <1>9 DEF Typed
<1>10. CASE v # o
  <2>1. LookTyped(v)' BY <1>1, <1>4, <1>7, <1>10, LookKept DEF Typed
  <2>c. conns'[v] <= conns[v] BY <1>1, <1>f DEF Flags
  <2>2. FdsTyped(v)' BY <1>1, <1>4, <1>7, <1>10, <1>i, <2>c, FdsKept DEF Typed, IsHeld, OnItsWay
  <2> QED BY <1>8, <2>1, <2>2 DEF Typed
<1> QED BY <1>9, <1>10

(* A listing ends: one who waits for it is at this responder and no other.    *)
LEMMA ReadsTyping ==
    ASSUME IInv, Typing, NEW o \in Users, ReadsEntries(o)
    PROVE  Typing'
<1>f. Flags /\ Functions BY DEF IInv
<1>i. IInv' BY ReadsStep
<1> DEFINE w == look[o].who
<1>1. /\ UNCHANGED <<disk, handle, late, conns, streams, sockets, up, listens>>
      /\ look' = [look EXCEPT ![o] = None] /\ look[o] # None
  BY DEF ReadsEntries
<1>2. PICK names : call' = IF look[o].live
                           THEN [call EXCEPT ![w] = Answered(@.req, "ok", names)]
                           ELSE call
  BY DEF ReadsEntries
<1>3. look'[o] = None /\ \A v \in Users \ {o} : look'[v] = look[v] BY <1>1, <1>f DEF Functions
<1>4. w \in Users /\ (look[o].live => OnItsWay(w) /\ call[w].req.owner = o)
  BY <1>1 DEF Typing, Typed, LookTyped, Listing
<1> HIDE DEF w
<1>5. \A v \in Users : call'[v] # call[v] => v = w /\ look[o].live
  BY <1>2, <1>f DEF Functions
<1>6. look[o].live => IsAnswer(call'[w], call[w].req)
  <2> DEFINE a == Answered(call[w].req, "ok", names)
  <2>1. look[o].live => call'[w] = a BY <1>2, <1>4, <1>f DEF Functions
  <2>2. IsAnswer(a, call[w].req) BY AnswerTypes
  <2> QED BY <2>1, <2>2
<1> SUFFICES ASSUME NEW v \in Users PROVE Typed(v)' BY DEF Typing
<1>7. Typed(v) BY DEF Typing
<1>8. DiskTyped(v)' /\ HandleTyped(v)' /\ LateTyped(v)'
  BY <1>1, <1>7, DiskKept, HandleKept, LateKept DEF SameDisk, Typed
<1>9. CallTyped(v)' /\ (OnItsWay(v)' => OnItsWay(v))
  <2>1. CASE call'[v] = call[v] BY <1>1, <1>7, <2>1, CallKept DEF Typed, OnItsWay
  <2>2. CASE call'[v] # call[v]
    <3>1. v = w /\ OnItsWay(v) /\ IsAnswer(call'[v], call[v].req) BY <1>4, <1>5, <1>6, <2>2
    <3>2. ~ OnItsWay(v)' BY <3>1 DEF OnItsWay, IsAnswer, Way
    <3>3. CallTyped(v)'
      BY <1>1, <1>7, <3>1, <3>2 DEF Typed, CallTyped, OnItsWay, Unfinished, Way, IsAnswer
    <3> QED BY <3>2, <3>3
  <2> QED BY <2>1, <2>2
<1>10. LookTyped(v)'
  <2>1. CASE v = o BY <1>3, <2>1 DEF LookTyped
  <2>2. CASE v # o /\ look[v] # None /\ look[v].live
    <3>1. call[look[v].who].req.owner = v /\ look[v].who \in Users
      BY <1>7, <2>2 DEF Typed, LookTyped, Listing
    <3>2. call'[look[v].who] = call[look[v].who] BY <1>4, <1>5, <2>2, <3>1
    <3> QED BY <1>1, <1>3, <1>7, <2>2, <3>2, LookKept DEF Typed
  <2>3. CASE v # o /\ ~ (look[v] # None /\ look[v].live)
    BY <1>1, <1>3, <1>7, <2>3 DEF Typed, LookTyped, Listing
  <2> QED BY <2>1, <2>2, <2>3
<1>11. FdsTyped(v)'
  <2>1. conns'[v] <= conns[v] BY <1>1, <1>f DEF Flags
  <2> QED BY <1>1, <1>7, <1>9, <1>i, <2>1, FdsKept DEF Typed, IsHeld
<1> QED BY <1>8, <1>9, <1>10, <1>11 DEF Typed

LEMMA ServerStepTyping ==
    ASSUME IInv, Typing, ServerStep
    PROVE  Typing'
<1>f. Flags /\ Functions BY DEF IInv
<1>i. IInv' BY ServerStepStep
<1>1. CASE ServerStarts
  <2>1. UNCHANGED <<disk, handle, call, late, look, conns, streams, sockets, up, listens>>
    BY <1>1 DEF ServerStarts, clientVars, responderVars
  <2>2. \A v \in Users : DiskTyped(v)' BY <2>1, DiskKept DEF SameDisk, Typing, Typed
  <2> QED BY <1>i, <2>1, <2>2, LateTyping
<1>2. ASSUME NEW u \in Users, ServerAnswers(u) PROVE Typing'
  <2> DEFINE r == call[u].req
  <2>1. UNCHANGED <<disk, handle, late, look, conns, streams, sockets, up, listens>>
        /\ OnItsWay(u) /\ ~ Listed(u)
    BY <1>2 DEF ServerAnswers, responderVars, Heard
  <2>2. \E a \in {RootAnswer(r), Refusal(r), Lost(r)} : call' = [call EXCEPT ![u] = a]
    BY <1>2 DEF ServerAnswers
  <2>3. PICK a \in {RootAnswer(r), Refusal(r), Lost(r)} : call' = [call EXCEPT ![u] = a]
    BY <2>2
  <2>4. IsAnswer(a, r) BY AnswerTypes
  <2>5. \A v \in Users : DiskTyped(v)' BY <2>1, DiskKept DEF SameDisk, Typing, Typed
  <2> QED BY <2>1, <2>3, <2>4, <2>5, <1>i, AnswerTyping
<1>3. ASSUME NEW u \in Users, LateIsLost(u) PROVE Typing'
  <2>1. UNCHANGED <<disk, handle, call, look, conns, streams, sockets, up, listens>> /\ Taken(u)
    BY <1>3 DEF LateIsLost, responderVars
  <2>2. \A v \in Users : late'[v] \in {late[v], None} BY <2>1, <1>f DEF Taken, Functions
  <2>3. \A v \in Users : DiskTyped(v)' BY <2>1, DiskKept DEF SameDisk, Typing, Typed
  <2> QED BY <1>i, <2>1, <2>2, <2>3, LateTyping
<1> QED BY <1>1, <1>2, <1>3 DEF ServerStep

LEMMA ServerEndsTyping ==
    ASSUME IInv, Typing, ServerEnds
    PROVE  Typing'
<1>f. Flags BY DEF IInv
<1>i. IInv' BY ServerEndsStep
<1>1. UNCHANGED <<disk, handle, conns, streams, sockets, up, listens>>
      /\ call' = [u \in Users |-> IF OnItsWay(u) THEN Lost(call[u].req) ELSE call[u]]
      /\ look' = [o \in Users |-> IF look[o] = None THEN None ELSE [look[o] EXCEPT !.live = FALSE]]
  BY DEF ServerEnds
<1>2. PICK stay \in SUBSET {u \in Users : Remains(u)} :
         late' = [u \in Users |-> IF u \in stay THEN Sent(u) ELSE late[u]]
  BY DEF ServerEnds
<1> SUFFICES ASSUME NEW v \in Users PROVE Typed(v)' BY DEF Typing
<1>3. Typed(v) BY DEF Typing
<1>4. DiskTyped(v)' /\ HandleTyped(v)' BY <1>1, <1>3, DiskKept, HandleKept DEF SameDisk, Typed
<1>5. LateTyped(v)'
  <2>1. CASE v \in stay
    <3>1. late'[v] = Sent(v) /\ OnItsWay(v) /\ call[v].req.owner \in Users
      BY <1>2, <2>1 DEF Remains
    <3> QED BY <3>1, SentTyped DEF LateTyped
  <2>2. CASE v \notin stay
    <3>1. late'[v] = late[v] BY <1>2, <2>2
    <3> QED BY <1>3, <3>1, LateKept DEF Typed
  <2> QED BY <2>1, <2>2
<1>6. CallTyped(v)' /\ ~ OnItsWay(v)'
  <2>1. CASE OnItsWay(v)
    <3>1. call'[v] = Lost(call[v].req) BY <1>1, <2>1
    <3>2. call'[v].req = call[v].req /\ call'[v].stage = "answered" /\ call'[v].how = "lost"
      BY <3>1 DEF Lost, Answered, In
    <3>3. call[v] # None BY <2>1 DEF OnItsWay
    <3> QED BY <1>1, <1>3, <3>2, <3>3 DEF Typed, CallTyped, OnItsWay, Unfinished, Way
  <2>2. CASE ~ OnItsWay(v)
    <3>1. call'[v] = call[v] BY <1>1, <2>2
    <3> QED BY <1>1, <1>3, <2>2, <3>1, CallKept DEF Typed, OnItsWay
  <2> QED BY <2>1, <2>2
<1>7. LookTyped(v)'
  <2>1. CASE look[v] # None
    <3>1. look'[v] = [look[v] EXCEPT !.live = FALSE] BY <1>1, <2>1
    <3> QED BY <1>1, <1>3, <2>1, <3>1 DEF Typed, LookTyped, Listing
  <2>2. CASE look[v] = None BY <1>1, <2>2 DEF LookTyped
  <2> QED BY <2>1, <2>2
<1>8. FdsTyped(v)'
  <2>1. conns'[v] <= conns[v] BY <1>1, <1>f DEF Flags
  <2> QED BY <1>1, <1>3, <1>6, <1>i, <2>1, FdsKept DEF Typed, IsHeld
<1> QED BY <1>4, <1>5, <1>6, <1>7, <1>8 DEF Typed

LEMMA ReturnsTyping ==
    ASSUME IInv, Typing, NEW u \in Users, Returns(u)
    PROVE  Typing'
<1>f. Flags /\ Functions BY DEF IInv
<1>i. IInv' BY ReturnsStep
<1> DEFINE r == call[u].req
           opens == r.op = "open" /\ r.owner # u /\ call[u].how = "ok"
<1>1. /\ UNCHANGED <<disk, late, look, conns, streams, sockets, up, listens>>
      /\ call' = [call EXCEPT ![u] = None]
      /\ handle' = [handle EXCEPT ![u] = IF opens THEN Opened(u, r, None) ELSE @]
      /\ call[u] # None /\ call[u].stage = "answered"
  BY DEF Returns, responderVars
<1>2. /\ call'[u] = None /\ \A v \in Users \ {u} : call'[v] = call[v]
      /\ handle'[u] = IF opens THEN Opened(u, r, None) ELSE handle[u]
      /\ \A v \in Users \ {u} : handle'[v] = handle[v]
  BY <1>1, <1>f DEF Functions
<1>3. ~ OnItsWay(u) BY <1>1 DEF OnItsWay, Way
<1>4. CallTyped(u) BY DEF Typing, Typed
<1>5. TypedRequest(r) /\ IsNamed(r) /\ up[u] /\ (opens => handle[u] = None)
  BY <1>1, <1>4 DEF CallTyped
<1> HIDE DEF r, opens
<1>6. HeldBy(handle'[u]) = HeldBy(handle[u]) /\ (IsHeld(u)' <=> IsHeld(u))
  <2>1. CASE opens
    <3>1. handle'[u].file = None BY <1>2, <2>1 DEF Opened
    <3> QED BY <1>5, <2>1, <3>1 DEF HeldBy, IsHeld
  <2>2. CASE ~ opens BY <1>2, <2>2 DEF IsHeld
  <2> QED BY <2>1, <2>2
<1>7. HandleTyped(u)'
  <2>1. CASE opens
    <3>1. handle'[u] = [owner |-> r.owner, name |-> r.name, file |-> None, rw |-> "rw" \in r.arg]
      BY <1>2, <2>1 DEF Opened
    <3>2. r.owner \in Users \cup {Root} /\ r.name \in Names \cup {None}
          /\ (r.owner \in Users => r.name \in Names) /\ r.owner # u
      BY <1>5, <2>1 DEF TypedRequest, IsNamed, opens
    <3>3. handle'[u] \in Handle BY <3>1, <3>2 DEF Handle
    <3>4. handle'[u].owner = r.owner /\ handle'[u].name = r.name /\ handle'[u].file = None
      BY <3>1
    <3> QED BY <1>1, <1>5, <3>2, <3>3, <3>4 DEF HandleTyped, IsHeld
  <2>2. CASE ~ opens
    BY <1>1, <1>2, <2>2, HandleKept DEF Typing, Typed
  <2> QED BY <2>1, <2>2
<1> SUFFICES ASSUME NEW v \in Users PROVE Typed(v)' BY DEF Typing
<1>8. Typed(v) BY DEF Typing
<1>9. LateTyped(v)' BY <1>1, <1>8, LateKept DEF Typed
<1>10. LookTyped(v)'
  <2>1. CASE look[v] # None /\ look[v].live
    <3>1. look[v].who \in Users /\ look[v].who # u BY <1>3, <1>8, <2>1 DEF Typed, LookTyped, Listing
    <3> QED BY <1>1, <1>2, <1>8, <3>1, LookKept DEF Typed
  <2>2. CASE ~ (look[v] # None /\ look[v].live) BY <1>1, <1>8, <2>2 DEF Typed, LookTyped, Listing
  <2> QED BY <2>1, <2>2
<1>11. CASE v = u
  <2>1. DiskTyped(u)' BY <1>1, <1>6, <1>8, <1>11 DEF Typed, DiskTyped
  <2>2. CallTyped(u)' BY <1>2 DEF CallTyped
  <2>3. ~ OnItsWay(u)' BY <1>2 DEF OnItsWay
  <2>c. conns'[u] <= conns[u] BY <1>1, <1>f DEF Flags
  <2>4. FdsTyped(u)' BY <1>1, <1>6, <1>8, <1>11, <1>i, <2>3, <2>c, FdsKept DEF Typed
  <2> QED BY <1>7, <1>9, <1>10, <1>11, <2>1, <2>2, <2>4 DEF Typed
<1>12. CASE v # u
  <2>1. DiskTyped(v)' /\ HandleTyped(v)' /\ CallTyped(v)'
    BY <1>1, <1>2, <1>8, <1>12, DiskKept, HandleKept, CallKept DEF SameDisk, Typed
  <2>c. conns'[v] <= conns[v] BY <1>1, <1>f DEF Flags
  <2>2. FdsTyped(v)' BY <1>1, <1>2, <1>8, <1>12, <1>i, <2>c, FdsKept DEF Typed, IsHeld, OnItsWay
  <2> QED BY <1>9, <1>10, <2>1, <2>2 DEF Typed
<1> QED BY <1>11, <1>12

LEMMA ReleasesTyping ==
    ASSUME IInv, Typing, NEW u \in Users, Releases(u)
    PROVE  Typing'
<1>f. Flags /\ Functions BY DEF IInv
<1>i. IInv' BY ReleasesStep
<1>1. /\ UNCHANGED <<call, late, look, conns, streams, sockets, up, listens>>
      /\ handle' = [handle EXCEPT ![u] = None]
      /\ disk' = [disk EXCEPT ![u] = Reclaim(@, {})] /\ call[u] = None
  BY DEF Releases, responderVars
<1>2. /\ handle'[u] = None /\ disk'[u] = Reclaim(disk[u], {})
      /\ \A v \in Users \ {u} : handle'[v] = handle[v] /\ disk'[v] = disk[v]
  BY <1>1, <1>f DEF Functions
<1>3. DiskTyped(u)'
  <2>1. Backed(disk[u], HeldBy(handle[u])) BY ExactBacked DEF Typing, Typed, DiskTyped
  <2>2. Backed(disk[u], {}) BY <2>1 DEF Backed
  <2>3. disk'[u] \in Disk /\ Exact(disk'[u], {}) BY <1>2, <2>2, ReclaimExact
  <2> QED BY <1>2, <2>3 DEF DiskTyped, HeldBy
<1> SUFFICES ASSUME NEW v \in Users PROVE Typed(v)' BY DEF Typing
<1>4. Typed(v) BY DEF Typing
<1>5. LateTyped(v)' /\ LookTyped(v)' BY <1>1, <1>4, LateKept, LookKept DEF Typed
<1>c. conns'[v] <= conns[v] BY <1>1, <1>f DEF Flags
<1>6. FdsTyped(v)' BY <1>1, <1>2, <1>4, <1>i, <1>c, FdsKept DEF Typed, IsHeld, OnItsWay
<1>7. CASE v = u
  <2>1. HandleTyped(u)' /\ CallTyped(u)' BY <1>1, <1>2 DEF HandleTyped, CallTyped
  <2> QED BY <1>3, <1>5, <1>6, <1>7, <2>1 DEF Typed
<1>8. CASE v # u
  <2>1. DiskTyped(v)' /\ HandleTyped(v)' /\ CallTyped(v)'
    BY <1>1, <1>2, <1>4, <1>8, DiskKept, HandleKept, CallKept DEF SameDisk, Typed
  <2> QED BY <1>5, <1>6, <2>1 DEF Typed
<1> QED BY <1>7, <1>8

LEMMA StartsTyping ==
    ASSUME IInv, Typing, NEW u \in Users, Starts(u)
    PROVE  Typing'
<1>f. Flags BY DEF IInv
<1>1. /\ UNCHANGED <<disk, handle, call, late, look, conns, streams, sockets>>
      /\ up' = [up EXCEPT ![u] = TRUE] /\ listens' = [listens EXCEPT ![u] = TRUE]
  BY DEF Starts
<1>2. \A v \in Users : (up[v] => up'[v]) /\ (listens'[v] => up'[v]) 
  <2>1. \A v \in Users : listens[v] => up[v] BY DEF Typing, Typed, FdsTyped
  <2> QED BY <1>1, <1>f, <2>1 DEF Flags
<1> SUFFICES ASSUME NEW v \in Users PROVE Typed(v)' BY DEF Typing
<1>3. Typed(v) BY DEF Typing
<1>4. DiskTyped(v)' /\ LateTyped(v)' BY <1>1, <1>3, DiskKept, LateKept DEF SameDisk, Typed
<1>5. HandleTyped(v)' BY <1>1, <1>2, <1>3 DEF Typed, HandleTyped, IsHeld
<1>6. CallTyped(v)' BY <1>1, <1>2, <1>3 DEF Typed, CallTyped, Unfinished
<1>7. LookTyped(v)' BY <1>1, <1>2, <1>3 DEF Typed, LookTyped, OnItsWay
<1>8. FdsTyped(v)'
  <2>1. UsedFds(v)' = UsedFds(v) BY <1>1 DEF UsedFds, IsHeld, OnItsWay
  <2> QED BY <1>2, <1>3, <2>1 DEF Typed, FdsTyped
<1> QED BY <1>4, <1>5, <1>6, <1>7, <1>8 DEF Typed

LEMMA NextTyping == IInv /\ Hearing /\ Typing /\ [Next]_vars => Typing'
<1> SUFFICES ASSUME IInv, Hearing, Typing, [Next]_vars PROVE Typing' OBVIOUS
<1>1. CASE UNCHANGED vars
  <2>1. UNCHANGED <<disk, handle, call, late, look, conns, streams, sockets, up, listens>>
    BY <1>1 DEF vars, clientVars, responderVars
  <2>2. \A v \in Users : DiskTyped(v)' BY <2>1, DiskKept DEF SameDisk, Typing, Typed
  <2>3. IInv' BY <1>1, NextStep
  <2> QED BY <2>1, <2>2, <2>3, LateTyping
<1>2. ASSUME NEW u \in Users, Responds(u) PROVE Typing'
  BY <1>2, AcceptsTyping, AcceptFailsTyping, HandlesTyping, ClosesTyping, CountsTyping,
     ReadsTyping, EndsTyping
  DEF Responds, MisreadsEntries
<1>3. ASSUME NEW u \in Users, CallGoesOn(u) \/ IsKilled(u) \/ Starts(u) PROVE Typing'
  BY <1>3, AsksAgainTyping, ReturnsTyping, StartsTyping, EndsTyping
  DEF CallGoesOn, Aborts, IsKilled
<1> QED
  BY <1>1, <1>2, <1>3, CallsTyping, ReleasesTyping, ServerStepTyping, ServerEndsTyping DEF Next

-----------------------------------------------------------------------------
(* What is accepted stays so, or is taken up, step by step. *)

LEMMA AbandonedFew ==
    ASSUME NEW o \in Users, HeardTyped(o), NEW left, NEW stay \in SUBSET Users, stay \subseteq left
    PROVE  /\ Abandoned(o, left, stay) \subseteq Connection
           /\ IsFiniteSet(Abandoned(o, left, stay))
           /\ Cardinality(Abandoned(o, left, stay)) <= Cardinality(accepted[o])
<1> DEFINE S == accepted[o]
           A == Abandoned(o, left, stay)
           Leaves(c) == IF c[1] \in left /\ c[2] = "call" THEN <<c[1], "late">> ELSE c
           f == [c \in S |-> Leaves(c)]
           T == {f[c] : c \in S}
<1>1. S \subseteq Connection /\ IsFiniteSet(S) BY DEF HeardTyped
<1>2. A \subseteq Connection
  <2>1. \A v \in stay : <<v, "late">> \in Connection BY DEF Connection
  <2> HIDE DEF S
  <2> QED BY <1>1, <2>1 DEF Abandoned, S
<1>3. IsFiniteSet(T) /\ Cardinality(T) <= Cardinality(S)
  <2>1. f \in Surjection(S, T) BY DEF Surjection
  <2> HIDE DEF S, T, f
  <2> QED BY <1>1, <2>1, FS_Surjection
<1>4. A \subseteq T
  <2> SUFFICES ASSUME NEW a \in A PROVE \E c \in S : Leaves(c) = a OBVIOUS
  <2>1. CASE a \in S /\ (a[1] \in left => a[2] = "late") BY <2>1
  <2>2. CASE \E v \in stay : <<v, "call">> \in S /\ a = <<v, "late">>
    <3>1. PICK v \in stay : <<v, "call">> \in S /\ a = <<v, "late">> BY <2>2
    <3>2. Leaves(<<v, "call">>) = a BY <3>1
    <3> QED BY <3>1, <3>2
  <2> QED BY <2>1, <2>2 DEF Abandoned
<1> HIDE DEF T, A, S
<1>5. IsFiniteSet(A) /\ Cardinality(A) <= Cardinality(T) BY <1>3, <1>4, FS_Subset
<1>6. Cardinality(A) \in Nat /\ Cardinality(T) \in Nat /\ Cardinality(S) \in Nat
  BY <1>1, <1>3, <1>5, FS_CardinalityType
<1> QED BY <1>2, <1>3, <1>5, <1>6 DEF A, S

(* One owner's, of which some are taken up and the rest wait as before *)
LEMMA HeardKept ==
    ASSUME NEW o \in Users, HeardTyped(o), accepted'[o] \subseteq accepted[o],
           Unanswered(o)' <= conns'[o],
           \A v \in Users : <<v, "call">> \in accepted'[o] => call'[v] = call[v] /\ ~ Listed(v)',
           \A v \in Users : <<v, "late">> \in accepted'[o] => late'[v] = late[v]
    PROVE  HeardTyped(o)'
<1>1. accepted'[o] \subseteq Connection /\ IsFiniteSet(accepted'[o])
  BY FS_Subset DEF HeardTyped
<1>2. ASSUME NEW v \in Users, <<v, "call">> \in accepted'[o] PROVE v \in AtOwner(o)' /\ ~ Listed(v)'
  BY <1>2 DEF HeardTyped, AtOwner, OnItsWay
<1>3. ASSUME NEW v \in Users, <<v, "late">> \in accepted'[o] PROVE IsLate(o, v)'
  BY <1>3 DEF HeardTyped, IsLate
<1> QED BY <1>1, <1>2, <1>3 DEF HeardTyped, Connection

(* A listing is for the one whom it was for. *)
LEMMA ListedKept ==
    ASSUME \A o \in Users : look'[o] # None /\ look'[o].live =>
               look[o] # None /\ look[o].live /\ look[o].who = look'[o].who,
           NEW v
    PROVE  Listed(v)' => Listed(v)
    BY DEF Listed

(* Steps by which nothing is accepted, and nothing that is accepted is touched *)
LEMMA QuietHearing ==
    ASSUME Hearing, UNCHANGED <<accepted, conns, look>>,
           \A o, v \in Users : <<v, "call">> \in accepted[o] => call'[v] = call[v],
           \A o, v \in Users : <<v, "late">> \in accepted[o] => late'[v] = late[v]
    PROVE  Hearing'
<1> SUFFICES ASSUME NEW o \in Users PROVE HeardTyped(o)' BY DEF Hearing
<1>1. HeardTyped(o) BY DEF Hearing
<1>2. Unanswered(o)' <= conns'[o] BY <1>1 DEF HeardTyped, Unanswered
<1>3. \A v : Listed(v)' => Listed(v) BY ListedKept
<1>4. \A v \in Users : <<v, "call">> \in accepted'[o] => ~ Listed(v)' BY <1>1, <1>3 DEF HeardTyped
<1> QED BY <1>1, <1>2, <1>4, HeardKept

(* A call that is not on its way has not been accepted. *)
LEMMA AwayHearing ==
    ASSUME Hearing, NEW u \in Users, ~ OnItsWay(u) \/ ~ Heard(u),
           UNCHANGED <<accepted, conns, look, late>>,
           \A v \in Users \ {u} : call'[v] = call[v]
    PROVE  Hearing'
<1>1. \A o \in Users : <<u, "call">> \notin accepted[o]
  BY DEF Hearing, HeardTyped, AtOwner, Heard
<1> QED BY <1>1, QuietHearing

LEMMA InitHearing == Init => Hearing
<1> SUFFICES ASSUME Init, NEW o \in Users PROVE HeardTyped(o) BY DEF Hearing
<1>1. accepted[o] = {} /\ conns[o] = 0 /\ look[o] = None BY DEF Init
<1>2. IsFiniteSet(accepted[o]) /\ Unanswered(o) = 0
  BY <1>1, FS_EmptySet DEF Unanswered, One
<1> QED BY <1>1, <1>2 DEF HeardTyped

LEMMA EndsHearing ==
    ASSUME IInv, Typing, Hearing, NEW u \in Users, Ends(u)
    PROVE  Hearing'
<1>1. PICK gone \in SUBSET Dealing(u), stays \in {FALSE, Remains(u)} : Left(u, gone, stays)
  BY EndsIs DEF IInv
<1>2. \A v : Listed(v)' => Listed(v)
  <2>1. ASSUME NEW o \in Users, look'[o] # None, look'[o].live
        PROVE  look[o] # None /\ look[o].live /\ look[o].who = look'[o].who
    <3>1. o # u BY <1>1, <2>1 DEF Left
    <3>2. CASE look[o] # None /\ look[o].who = u
      <4>1. look'[o] = [look[o] EXCEPT !.live = FALSE] BY <1>1, <3>1, <3>2, Zenon DEF Left
      <4>2. look[o] \in Listing
        BY <3>2 DEF Typing, Typed, LookTyped, Listing
      <4> QED BY <2>1, <4>1, <4>2
    <3>3. CASE ~ (look[o] # None /\ look[o].who = u)
      <4>1. look'[o] = look[o] BY <1>1, <3>1, <3>3, Zenon DEF Left
      <4> QED BY <2>1, <4>1
    <3> QED BY <3>2, <3>3
  <2> QED BY <2>1, ListedKept
<1>3. HeardTyped(u)'
  <2>1. accepted'[u] = {} /\ conns'[u] = 0 /\ look'[u] = None BY <1>1 DEF Left
  <2>2. IsFiniteSet(accepted'[u]) /\ Unanswered(u)' = 0
    BY <2>1, FS_EmptySet DEF Unanswered, One
  <2> QED BY <2>1, <2>2 DEF HeardTyped
<1>4. ASSUME NEW o \in Users \ {u} PROVE HeardTyped(o)'
  <2> DEFINE stay == IF stays THEN {u} ELSE {}
             A == Abandoned(o, {u}, stay)
  <2>0. HeardTyped(o) BY DEF Hearing
  <2>1. accepted'[o] = A /\ conns'[o] = conns[o] BY <1>1 DEF Left
  <2>2. A \subseteq Connection /\ IsFiniteSet(A) /\ Cardinality(A) <= Cardinality(accepted[o])
    BY <2>0, AbandonedFew
  <2>3. Unanswered(o)' <= conns'[o]
    <3>1. look[o] = None => look'[o] = None BY <1>1, Zenon DEF Left
    <3>2. Cardinality(A) \in Nat /\ Cardinality(accepted[o]) \in Nat
      BY <2>0, <2>2, FS_CardinalityType DEF HeardTyped
    <3>3. conns[o] \in Nat BY DEF IInv, Flags
    <3>4. Unanswered(o) <= conns[o] BY <2>0 DEF HeardTyped
    <3> HIDE DEF A
    <3> QED BY <2>1, <2>2, <3>1, <3>2, <3>3, <3>4 DEF Unanswered, One
  <2>4. ASSUME NEW v \in Users, <<v, "call">> \in A PROVE v \in AtOwner(o)' /\ ~ Listed(v)'
    <3>1. v # u /\ <<v, "call">> \in accepted[o] BY <2>4 DEF Abandoned
    <3>2. v \in AtOwner(o) /\ ~ Listed(v) BY <2>0, <3>1 DEF HeardTyped
    <3>3. <<v, "call">> \notin gone BY <3>2 DEF Dealing, AtOwner
    <3>4. call'[v] = call[v] BY <1>1, <3>1, <3>3 DEF Left
    <3> QED BY <1>2, <3>2, <3>4 DEF AtOwner, OnItsWay
  <2>5. ASSUME NEW v \in Users, <<v, "late">> \in A PROVE IsLate(o, v)'
    <3>1. CASE <<v, "late">> \in accepted[o]
      <4>1. IsLate(o, v) BY <2>0, <3>1 DEF HeardTyped
      <4>2. <<v, "late">> \notin gone BY <4>1 DEF Dealing, IsLate
      <4>3. ~ (v = u /\ stays) BY <4>1 DEF Remains, IsLate
      <4>4. late'[v] = late[v] BY <1>1, <4>2, <4>3 DEF Left
      <4> QED BY <4>1, <4>4 DEF IsLate
    <3>2. CASE <<v, "late">> \notin accepted[o]
      <4>1. v = u /\ stays /\ <<u, "call">> \in accepted[o] BY <2>5, <3>2 DEF Abandoned
      <4>2. OnItsWay(u) /\ call[u].req.owner = o BY <2>0, <4>1 DEF HeardTyped, AtOwner
      <4>3. late'[u] = Sent(u) BY <1>1, <4>1 DEF Left
      <4>4. Sent(u) # None /\ Sent(u).owner = o BY <4>2, SentSome, SentTyped
      <4> QED BY <4>1, <4>3, <4>4 DEF IsLate
    <3> QED BY <3>1, <3>2
  <2> HIDE DEF A
  <2> QED BY <2>1, <2>2, <2>3, <2>4, <2>5 DEF HeardTyped
<1> QED BY <1>3, <1>4 DEF Hearing

LEMMA CallsHearing ==
    ASSUME IInv, Typing, Hearing, NEW u \in Users, Calls(u)
    PROVE  Hearing'
<1>1. PICK c \in Requests[u] :
        \/ LocalCall(u, Resource(u, c))
        \/ RemoteCall(u, Resource(u, c))
        \/ Ends(u)
  BY DEF Calls
<1>2. ~ OnItsWay(u) BY DEF Calls, OnItsWay
<1>3. ASSUME NEW r, LocalCall(u, r) \/ RemoteCall(u, r) PROVE Hearing'
  <2>1. UNCHANGED <<accepted, conns, look, late>> /\ \E a : call' = [call EXCEPT ![u] = a]
    BY <1>3 DEF LocalCall, RemoteCall, responderVars
  <2>2. \A v \in Users \ {u} : call'[v] = call[v] BY <2>1 DEF IInv, Functions
  <2> QED BY <1>2, <2>1, <2>2, AwayHearing
<1> QED BY <1>1, <1>3, EndsHearing

LEMMA GoesOnHearing ==
    ASSUME IInv, Typing, Hearing, NEW u \in Users, CallGoesOn(u)
    PROVE  Hearing'
<1>1. CASE AsksAgain(u) \/ Returns(u)
  <2>1. /\ UNCHANGED <<accepted, conns, look, late>>
        /\ \E a : call' = [call EXCEPT ![u] = a] /\ ~ OnItsWay(u)
    BY <1>1 DEF AsksAgain, Returns, responderVars, OnItsWay, Way
  <2>2. \A v \in Users \ {u} : call'[v] = call[v] BY <2>1 DEF IInv, Functions
  <2> QED BY <2>1, <2>2, AwayHearing
<1>2. CASE Aborts(u) BY <1>2, EndsHearing DEF Aborts
<1> QED BY <1>1, <1>2 DEF CallGoesOn

LEMMA AcceptsHearing ==
    ASSUME IInv, Hearing, NEW o \in Users, Accepts(o)
    PROVE  Hearing'
<1>1. /\ UNCHANGED <<call, late, look>> /\ conns' = [conns EXCEPT ![o] = @ + 1]
      /\ \E u \in Users \ {o} :
           \/ Waits(o, u) /\ accepted' = [accepted EXCEPT ![o] = @ \cup {<<u, "call">>}]
           \/ Comes(o, u) /\ accepted' = [accepted EXCEPT ![o] = @ \cup {<<u, "late">>}]
  BY DEF Accepts
<1>2. \A v : Listed(v)' <=> Listed(v) BY <1>1 DEF Listed
<1>3. PICK c : /\ accepted' = [accepted EXCEPT ![o] = @ \cup {c}]
               /\ \/ \E u \in Users : c = <<u, "call">> /\ u \in AtOwner(o) /\ ~ Listed(u)
                  \/ \E u \in Users : c = <<u, "late">> /\ IsLate(o, u)
  BY <1>1 DEF Waits, Comes, Heard
<1>4. accepted'[o] = accepted[o] \cup {c} /\ conns'[o] = conns[o] + 1 /\ conns[o] \in Nat
      /\ \A v \in Users \ {o} : accepted'[v] = accepted[v] /\ conns'[v] = conns[v]
  BY <1>1, <1>3 DEF IInv, Flags, Functions
<1>5. HeardTyped(o)'
  <2>0. HeardTyped(o) BY DEF Hearing
  <2>f. IsFiniteSet(accepted[o]) BY <2>0 DEF HeardTyped
  <2>c. Cardinality(accepted[o]) \in Nat BY <2>f, FS_CardinalityType
  <2>a. /\ IsFiniteSet(accepted[o] \cup {c})
        /\ Cardinality(accepted[o] \cup {c}) =
             IF c \in accepted[o] THEN Cardinality(accepted[o]) ELSE Cardinality(accepted[o]) + 1
    BY <2>f, FS_AddElement
  <2>1. /\ IsFiniteSet(accepted'[o]) /\ Cardinality(accepted[o]) \in Nat
        /\ Cardinality(accepted'[o]) \in {Cardinality(accepted[o]), Cardinality(accepted[o]) + 1}
    BY <1>4, <2>a, <2>c
  <2>2. Unanswered(o)' <= conns'[o]
    BY <1>1, <1>4, <2>0, <2>1 DEF HeardTyped, Unanswered, One
  <2>3. accepted'[o] \subseteq Connection BY <1>3, <1>4, <2>0 DEF HeardTyped, Connection
  <2>4. ASSUME NEW v \in Users, <<v, "call">> \in accepted'[o]
        PROVE  v \in AtOwner(o)' /\ ~ Listed(v)'
    <3>0. <<v, "call">> \in accepted[o] \/ <<v, "call">> = c BY <1>4, <2>4
    <3>1. v \in AtOwner(o) /\ ~ Listed(v)
      <4>1. CASE <<v, "call">> \in accepted[o] BY <2>0, <4>1 DEF HeardTyped
      <4>2. CASE <<v, "call">> = c BY <1>3, <4>2
      <4> QED BY <3>0, <4>1, <4>2
    <3> QED BY <1>1, <1>2, <3>1 DEF AtOwner, OnItsWay
  <2>5. ASSUME NEW v \in Users, <<v, "late">> \in accepted'[o] PROVE IsLate(o, v)'
    <3>0. <<v, "late">> \in accepted[o] \/ <<v, "late">> = c BY <1>4, <2>5
    <3>1. IsLate(o, v)
      <4>1. CASE <<v, "late">> \in accepted[o] BY <2>0, <4>1 DEF HeardTyped
      <4>2. CASE <<v, "late">> = c BY <1>3, <4>2
      <4> QED BY <3>0, <4>1, <4>2
    <3> QED BY <1>1, <3>1 DEF IsLate
  <2> QED BY <2>1, <2>2, <2>3, <2>4, <2>5 DEF HeardTyped
<1>6. ASSUME NEW v \in Users \ {o} PROVE HeardTyped(v)'
  <2>0. HeardTyped(v) BY DEF Hearing
  <2>1. Unanswered(v)' <= conns'[v] BY <1>1, <1>4, <2>0 DEF HeardTyped, Unanswered
  <2>2. \A w \in Users : <<w, "call">> \in accepted'[v] => ~ Listed(w)'
    BY <1>2, <1>4, <2>0 DEF HeardTyped
  <2> QED BY <1>1, <1>4, <2>0, <2>1, <2>2, HeardKept
<1> QED BY <1>5, <1>6 DEF Hearing

LEMMA AcceptFailsHearing ==
    ASSUME IInv, Hearing, NEW o \in Users, AcceptFails(o)
    PROVE  Hearing'
<1>1. UNCHANGED <<accepted, conns, look>> BY DEF AcceptFails, Deafened
<1>2. PICK u \in Users \ {o} :
        \/ Waits(o, u) /\ call' = [call EXCEPT ![u] = Lost(@.req)] /\ UNCHANGED late
        \/ Comes(o, u) /\ Taken(u) /\ UNCHANGED call
  BY DEF AcceptFails
<1>3. CASE Waits(o, u) /\ call' = [call EXCEPT ![u] = Lost(@.req)] /\ UNCHANGED late
  <2>1. \A v \in Users \ {u} : call'[v] = call[v] BY <1>3 DEF IInv, Functions
  <2> QED BY <1>1, <1>3, <2>1, AwayHearing DEF Waits
<1>4. CASE Comes(o, u) /\ Taken(u) /\ UNCHANGED call
  <2>1. \A v \in Users \ {u} : late'[v] = late[v] BY <1>4 DEF Taken, IInv, Functions
  <2>2. \A v \in Users : <<u, "late">> \notin accepted[v]
    BY <1>4 DEF Comes, Hearing, HeardTyped, IsLate
  <2> QED BY <1>1, <1>4, <2>1, <2>2, QuietHearing
<1> QED BY <1>2, <1>3, <1>4

(* What is served is taken up, by this owner and no other. *)
LEMMA ServesHearing ==
    ASSUME IInv, Hearing, NEW o \in Users, NEW u \in Users, NEW k \in {"call", "late"},
           Serves(o, <<u, k>>), UNCHANGED conns,
           \A v \in Users \ {o} : look'[v] = look[v],
           look'[o] = look[o] \/ (look[o] = None /\ (look'[o].live => look'[o].who = u /\ k = "call")),
           \A v \in Users \ {u} : call'[v] = call[v] /\ late'[v] = late[v],
           k = "call" => UNCHANGED late, k = "late" => UNCHANGED call
    PROVE  Hearing'
<1> DEFINE c == <<u, k>>
<1>1. c \in accepted[o] /\ accepted'[o] = accepted[o] \ {c}
      /\ \A v \in Users \ {o} : accepted'[v] = accepted[v]
  BY DEF Serves, IInv, Functions
<1>2. \A v \in Users : c \notin accepted'[v]
  <2> SUFFICES ASSUME NEW v \in Users \ {o}, c \in accepted[v] PROVE FALSE BY <1>1
  <2>1. k = "call" => call[u].req.owner = o /\ call[u].req.owner = v
    BY <1>1 DEF Hearing, HeardTyped, AtOwner
  <2>2. k = "late" => late[u].owner = o /\ late[u].owner = v
    BY <1>1 DEF Hearing, HeardTyped, IsLate
  <2> QED BY <2>1, <2>2
<1>3. \A v \in Users : Listed(v)' => Listed(v) \/ (v = u /\ k = "call")
  BY DEF Listed
<1> SUFFICES ASSUME NEW v \in Users PROVE HeardTyped(v)' BY DEF Hearing
<1>4. HeardTyped(v) BY DEF Hearing
<1>5. accepted'[v] \subseteq accepted[v] BY <1>1
<1>6. Unanswered(v)' <= conns'[v]
  <2>1. CASE v = o
    <3>f. IsFiniteSet(accepted[o]) BY <1>4, <2>1 DEF HeardTyped
    <3>c. Cardinality(accepted[o]) \in Nat BY <3>f, FS_CardinalityType
    <3>a. c \in accepted[o] => Cardinality(accepted[o] \ {c}) = Cardinality(accepted[o]) - 1
      BY <3>f, FS_RemoveElement
    <3>1. Cardinality(accepted[o]) \in Nat /\ Cardinality(accepted'[o]) = Cardinality(accepted[o]) - 1
      BY <1>1, <3>a, <3>c
    <3>2. conns[o] \in Nat BY DEF IInv, Flags
    <3>3. One(look'[o] # None) <= One(look[o] # None) + 1 BY DEF One
    <3> QED BY <1>4, <2>1, <3>1, <3>2, <3>3 DEF HeardTyped, Unanswered, One
  <2>2. CASE v # o BY <1>1, <1>4, <2>2 DEF HeardTyped, Unanswered
  <2> QED BY <2>1, <2>2
<1>7. ASSUME NEW w \in Users, <<w, "call">> \in accepted'[v]
      PROVE  call'[w] = call[w] /\ ~ Listed(w)'
  <2>1. ~ Listed(w) BY <1>4, <1>5, <1>7 DEF HeardTyped
  <2>2. ~ (w = u /\ k = "call") BY <1>2, <1>7
  <2> QED BY <1>3, <2>1, <2>2
<1>8. ASSUME NEW w \in Users, <<w, "late">> \in accepted'[v] PROVE late'[w] = late[w]
  <2>1. ~ (w = u /\ k = "late") BY <1>2, <1>8
  <2> QED BY <2>1
<1> QED BY <1>4, <1>5, <1>6, <1>7, <1>8, HeardKept

LEMMA HandlesHearing ==
    ASSUME IInv, Hearing, NEW o \in Users, HandlesRequest(o)
    PROVE  Hearing'
<1>1. UNCHANGED <<conns, look>> BY HandlesIs
<1>2. PICK u \in Users \ {o} :
        \/ /\ Serves(o, <<u, "call">>) /\ UNCHANGED late
           /\ call' = [call EXCEPT ![u] = Response(u, Handled(o, Sent(u)))]
        \/ Serves(o, <<u, "late">>) /\ Taken(u) /\ UNCHANGED call
  BY HandlesIs
<1>3. \A v \in Users \ {u} : call'[v] = call[v] /\ late'[v] = late[v]
  BY <1>2 DEF Taken, IInv, Functions
<1> QED BY <1>1, <1>2, <1>3, ServesHearing

LEMMA CountsHearing ==
    ASSUME IInv, Hearing, NEW o \in Users, CountsEntries(o)
    PROVE  Hearing'
<1>1. UNCHANGED <<call, conns>> /\ look[o] = None BY DEF CountsEntries, Idle
<1>2. PICK u \in Users \ {o}, live \in BOOLEAN :
        /\ look' = [look EXCEPT ![o] = [who |-> u, live |-> live, names |-> Named(disk[o])]]
        /\ \/ live /\ Serves(o, <<u, "call">>) /\ UNCHANGED late
           \/ ~ live /\ Serves(o, <<u, "late">>) /\ Taken(u)
  BY DEF CountsEntries
<1>3. \A v \in Users \ {u} : call'[v] = call[v] /\ late'[v] = late[v]
  BY <1>1, <1>2 DEF Taken, IInv, Functions
<1>4. look'[o] = [who |-> u, live |-> live, names |-> Named(disk[o])]
      /\ \A v \in Users \ {o} : look'[v] = look[v]
  BY <1>2 DEF IInv, Functions
<1>5. look'[o].who = u /\ look'[o].live = live BY <1>4
<1> QED BY <1>1, <1>2, <1>3, <1>4, <1>5, ServesHearing

LEMMA ReadsHearing ==
    ASSUME IInv, Typing, Hearing, NEW o \in Users, ReadsEntries(o)
    PROVE  Hearing'
<1>1. UNCHANGED <<late, accepted, conns>> /\ look[o] # None
      /\ look' = [look EXCEPT ![o] = None]
  BY DEF ReadsEntries
<1>2. PICK a : call' = IF look[o].live THEN [call EXCEPT ![look[o].who] = a] ELSE call
  BY DEF ReadsEntries
<1>3. look'[o] = None /\ \A v \in Users \ {o} : look'[v] = look[v]
  BY <1>1 DEF IInv, Functions
<1>4. \A v \in Users : ~ Listed(v) => call'[v] = call[v]
  <2>1. look[o].live => Listed(look[o].who) BY <1>1 DEF Listed
  <2> QED BY <1>2, <2>1 DEF IInv, Functions
<1>5. \A v : Listed(v)' => Listed(v) BY <1>3, ListedKept
<1> SUFFICES ASSUME NEW v \in Users PROVE HeardTyped(v)' BY DEF Hearing
<1>6. HeardTyped(v) BY DEF Hearing
<1>7. Unanswered(v)' <= conns'[v]
  <2>1. One(look'[v] # None) <= One(look[v] # None) BY <1>1, <1>3 DEF One
  <2>2. Cardinality(accepted[v]) \in Nat /\ conns[v] \in Nat
    BY <1>6, FS_CardinalityType DEF HeardTyped, IInv, Flags
  <2> QED BY <1>1, <1>6, <2>1, <2>2 DEF HeardTyped, Unanswered, One
<1>8. \A w \in Users : <<w, "call">> \in accepted'[v] => call'[w] = call[w] /\ ~ Listed(w)'
  BY <1>1, <1>4, <1>5, <1>6 DEF HeardTyped
<1> QED BY <1>1, <1>6, <1>7, <1>8, HeardKept

LEMMA ClosesHearing ==
    ASSUME IInv, Hearing, NEW o \in Users, Closes(o)
    PROVE  Hearing'
<1>1. UNCHANGED <<call, late, accepted, look>> /\ conns' = [conns EXCEPT ![o] = @ - 1]
      /\ Unanswered(o) < conns[o]
  BY DEF Closes
<1>2. \A v : Listed(v)' => Listed(v) BY <1>1, ListedKept
<1> SUFFICES ASSUME NEW v \in Users PROVE HeardTyped(v)' BY DEF Hearing
<1>3. HeardTyped(v) BY DEF Hearing
<1>4. Unanswered(v)' <= conns'[v]
  <2>1. conns'[v] = IF v = o THEN conns[v] - 1 ELSE conns[v] BY <1>1 DEF IInv, Flags
  <2>2. Unanswered(v) \in Nat /\ conns[v] \in Nat
    BY <1>3, FS_CardinalityType DEF HeardTyped, Unanswered, One, IInv, Flags
  <2>3. Unanswered(v)' = Unanswered(v) BY <1>1 DEF Unanswered
  <2> QED BY <1>1, <1>3, <2>1, <2>2, <2>3 DEF HeardTyped
<1>5. \A w \in Users : <<w, "call">> \in accepted'[v] => call'[w] = call[w] /\ ~ Listed(w)'
  BY <1>1, <1>2, <1>3 DEF HeardTyped
<1> QED BY <1>1, <1>3, <1>4, <1>5, HeardKept

LEMMA ServerStepHearing ==
    ASSUME IInv, Hearing, ServerStep
    PROVE  Hearing'
<1>1. CASE ServerStarts
  <2>1. UNCHANGED <<accepted, conns, look, call, late>>
    BY <1>1 DEF ServerStarts, clientVars, responderVars
  <2> QED BY <2>1, QuietHearing
<1>2. ASSUME NEW u \in Users, ServerAnswers(u) PROVE Hearing'
  <2>1. UNCHANGED <<accepted, conns, look, late>> /\ ~ Heard(u)
        /\ \E a : call' = [call EXCEPT ![u] = a]
    BY <1>2 DEF ServerAnswers, responderVars
  <2>2. \A v \in Users \ {u} : call'[v] = call[v] BY <2>1 DEF IInv, Functions
  <2> QED BY <2>1, <2>2, AwayHearing
<1>3. ASSUME NEW u \in Users, LateIsLost(u) PROVE Hearing'
  <2>1. UNCHANGED <<accepted, conns, look, call>> /\ Taken(u) /\ late[u] # None
        /\ Comes(late[u].owner, u)
    BY <1>3 DEF LateIsLost, responderVars
  <2>2. \A v \in Users \ {u} : late'[v] = late[v] BY <2>1 DEF Taken, IInv, Functions
  <2>3. \A v \in Users : <<u, "late">> \notin accepted[v]
    BY <2>1 DEF Comes, Hearing, HeardTyped, IsLate
  <2> QED BY <2>1, <2>2, <2>3, QuietHearing
<1> QED BY <1>1, <1>2, <1>3 DEF ServerStep

LEMMA ServerEndsHearing ==
    ASSUME IInv, Typing, Hearing, ServerEnds
    PROVE  Hearing'
<1>1. PICK stay \in SUBSET {u \in Users : Remains(u)} :
         /\ late' = [u \in Users |-> IF u \in stay THEN Sent(u) ELSE late[u]]
         /\ accepted' = [o \in Users |-> Abandoned(o, Users, stay)]
  BY DEF ServerEnds
<1>2. UNCHANGED conns
      /\ look' = [o \in Users |-> IF look[o] = None THEN None ELSE [look[o] EXCEPT !.live = FALSE]]
  BY DEF ServerEnds
<1>3. stay \in SUBSET Users BY <1>1
<1> SUFFICES ASSUME NEW o \in Users PROVE HeardTyped(o)' BY DEF Hearing
<1> DEFINE A == Abandoned(o, Users, stay)
<1>4. HeardTyped(o) BY DEF Hearing
<1>5. accepted'[o] = A /\ conns'[o] = conns[o] /\ (look[o] = None => look'[o] = None)
  BY <1>1, <1>2
<1>6. A \subseteq Connection /\ IsFiniteSet(A) /\ Cardinality(A) <= Cardinality(accepted[o])
  BY <1>3, <1>4, AbandonedFew
<1>7. Unanswered(o)' <= conns'[o]
  <2>1. Cardinality(A) \in Nat /\ Cardinality(accepted[o]) \in Nat
    BY <1>4, <1>6, FS_CardinalityType DEF HeardTyped
  <2>2. conns[o] \in Nat BY DEF IInv, Flags
  <2>3. Unanswered(o) <= conns[o] BY <1>4 DEF HeardTyped
  <2> HIDE DEF A
  <2> QED BY <1>5, <1>6, <2>1, <2>2, <2>3 DEF Unanswered, One
<1>8. \A v \in Users : <<v, "call">> \notin A BY DEF Abandoned
<1>9. ASSUME NEW v \in Users, <<v, "late">> \in A PROVE IsLate(o, v)'
  <2>1. CASE v \in stay
    <3>1. OnItsWay(v) /\ late[v] = None /\ late'[v] = Sent(v) BY <1>1, <2>1 DEF Remains
    <3>2. <<v, "call">> \in accepted[o] BY <1>4, <1>9, <3>1 DEF Abandoned, HeardTyped, IsLate
    <3>3. call[v].req.owner = o BY <1>4, <3>2 DEF HeardTyped, AtOwner
    <3>4. Sent(v) # None /\ Sent(v).owner = o BY <3>1, <3>3, SentSome, SentTyped
    <3> QED BY <3>1, <3>4 DEF IsLate
  <2>2. CASE v \notin stay
    <3>1. <<v, "late">> \in accepted[o] BY <1>9, <2>2 DEF Abandoned
    <3>2. late'[v] = late[v] BY <1>1, <2>2
    <3> QED BY <1>4, <3>1, <3>2 DEF HeardTyped, IsLate
  <2> QED BY <2>1, <2>2
<1> HIDE DEF A
<1> QED BY <1>5, <1>6, <1>7, <1>8, <1>9 DEF HeardTyped

LEMMA NextHearing == IInv /\ Typing /\ Hearing /\ [Next]_vars => Hearing'
<1> SUFFICES ASSUME IInv, Typing, Hearing, [Next]_vars PROVE Hearing' OBVIOUS
<1>1. CASE UNCHANGED vars
  BY <1>1, QuietHearing DEF vars, clientVars, responderVars
<1>2. ASSUME NEW u \in Users, Responds(u) PROVE Hearing'
  BY <1>2, AcceptsHearing, AcceptFailsHearing, HandlesHearing, ClosesHearing, CountsHearing,
     ReadsHearing, EndsHearing
  DEF Responds, MisreadsEntries
<1>3. ASSUME NEW u \in Users, Releases(u) \/ Starts(u) PROVE Hearing'
  BY <1>3, QuietHearing DEF Releases, Starts, responderVars
<1>4. ASSUME NEW u \in Users, IsKilled(u) PROVE Hearing' BY <1>4, EndsHearing DEF IsKilled
<1> QED
  BY <1>1, <1>2, <1>3, <1>4, CallsHearing, GoesOnHearing, ServerStepHearing, ServerEndsHearing
  DEF Next

(* The invariant of all *)
Invariant == IInv /\ Typing /\ Hearing
LEMMA Invariance == Spec => []Invariant
<1>1. Init => Invariant BY InitIInv, InitTyping, InitHearing DEF Invariant
<1>2. Invariant /\ [Next]_vars => Invariant' BY NextStep, NextTyping, NextHearing DEF Invariant
<1> QED BY <1>1, <1>2, PTL DEF Spec

-----------------------------------------------------------------------------
(* What calls say.  First, what one call on a directory says of it *)

LEMMA RefusedNothing ==
    ASSUME NEW d
    PROVE  /\ ~ Fails(d).ok /\ Fails(d).disk = d
           /\ \A p, e, v : DoneIf(p, d, e, v).ok <=> p
           /\ \A p, e, v : ~ p => DoneIf(p, d, e, v).disk = d
           /\ \A p, e, v : p => DoneIf(p, d, e, v).disk = e /\ DoneIf(p, d, e, v).value = v
           /\ \A n, node : ~ Make(d, n, node).ok => Make(d, n, node).disk = d
           /\ \A n, flags : ~ Open(d, n, flags).ok => Open(d, n, flags).disk = d
<1>1. \A p, e, v : DoneIf(p, d, e, v) = IF p THEN Done(e, v) ELSE Fails(d) BY DEF DoneIf
<1>2. Fails(d).ok = FALSE /\ Fails(d).disk = d BY DEF Fails
<1>3. \A e, v : Done(e, v).ok = TRUE /\ Done(e, v).disk = e /\ Done(e, v).value = v BY DEF Done
<1>4. \A n, node : ~ Make(d, n, node).ok => Make(d, n, node).disk = d
  BY <1>2, <1>3 DEF Make
<1> QED BY <1>1, <1>2, <1>3, <1>4 DEF Open

(* Where a name leads is not changed by what becomes of files that have none. *)
LEMMA ReclaimReached ==
    ASSUME NEW d, NEW held, Backed(d, held), NEW n \in Names
    PROVE  Reached(Reclaim(d, held), n) = Reached(d, n)
<1> DEFINE nodes == [f \in Files |->
                       IF f \in held \/ \E m \in Names : d.names[m] = f THEN d.nodes[f] ELSE None]
           e == Reclaim(d, held)
<1>1. d \in Disk BY DEF Backed
<1>2. e = [names |-> d.names, nodes |-> nodes] BY <1>1, DiskType DEF Reclaim
<1>3. e.names = d.names /\ e.nodes = nodes BY <1>2
<1> HIDE DEF e
<1>4. Named(e) = Named(d) BY <1>3 DEF Named
<1>5. \A m \in Named(d) : NodeAt(e, m) = NodeAt(d, m)
  <2> SUFFICES ASSUME NEW m \in Named(d) PROVE NodeAt(e, m) = NodeAt(d, m) OBVIOUS
  <2>1. m \in Names /\ d.names[m] \in Files BY <1>1, DiskType DEF Named
  <2>2. nodes[d.names[m]] = d.nodes[d.names[m]] BY <2>1
  <2> QED BY <1>3, <2>2 DEF NodeAt
<1>6. \A m \in Names : \A kind : Is(e, m, kind) <=> Is(d, m, kind)
  BY <1>4, <1>5 DEF Is
<1>7. Followed(e, n) = Followed(d, n)
  BY <1>4, <1>5, <1>6 DEF Followed, Is
<1>8. Followed(d, n) \in Names BY ReachedType
<1> QED BY <1>3, <1>6, <1>7, <1>8 DEF Reached, e

(* What an open succeeds with is what its name now leads to. *)
LEMMA OpenReaches ==
    ASSUME NEW d, NEW held, Backed(d, held), NEW n \in Names, NEW flags, Open(d, n, flags).ok
    PROVE  Reached(Open(d, n, flags).disk, n) # None
<1> DEFINE f == Reached(d, n)
           m == Followed(d, n)
           e == Open(d, n, flags).disk
<1>1. d \in Disk BY DEF Backed
<1>2. m \in Names /\ f \in Files \cup {None} /\ (f # None => d.nodes[f] # None) BY ReachedType
<1>3. CASE f = None
  <2> DEFINE node == NewNode("file", Empty)
  <2>1. "create" \in flags /\ Make(d, m, node).ok /\ Open(d, n, flags) = Make(d, m, node)
    BY <1>3, RefusedNothing DEF Open
  <2>2. ~ (Free(d) = {} \/ m \in Named(d)) BY <2>1, RefusedNothing DEF Make
  <2>3. PICK g \in Files : d.nodes[g] = None /\ Make(d, m, node) = Done(Made(d, m, node, g), g)
    BY <1>1, <2>2, MakeIs
  <2>4. e = Made(d, m, node, g) BY <2>1, <2>3 DEF Done
  <2>5. node.kind = "file" BY DEF NewNode
  <2> HIDE DEF node
  <2>6. e = [names |-> [d.names EXCEPT ![m] = g], nodes |-> [d.nodes EXCEPT ![g] = node]]
    BY <1>1, <2>4, DiskType, MadeIs
  <2>7. e.names = [d.names EXCEPT ![m] = g] /\ e.nodes = [d.nodes EXCEPT ![g] = node] BY <2>6
  <2>8. g # None BY DiskAssumption
  <2> HIDE DEF e, m
  <2>9. e.names[m] = g /\ e.nodes[g] = node BY <1>1, <1>2, <2>7, DiskType
  <2>10. ~ Is(e, m, "link") BY <2>5, <2>9 DEF Is, NodeAt
  <2>11. Followed(e, n) = m
    <3>1. CASE n = m BY <2>10, <3>1 DEF Followed
    <3>2. CASE n # m
      <4>1. Is(d, n, "link") /\ NodeAt(d, n).data = m BY <3>2 DEF Followed, m
      <4>2. d.names[n] # None /\ d.names[n] \in Files /\ d.names[n] # g
        BY <1>1, <2>3, <4>1, DiskType DEF Is, Named, Backed
      <4>3. e.names[n] = d.names[n] /\ NodeAt(e, n) = NodeAt(d, n)
        BY <1>1, <2>7, <3>2, <4>2, DiskType DEF NodeAt
      <4>4. Is(e, n, "link") BY <4>1, <4>2, <4>3 DEF Is, Named
      <4> QED BY <4>1, <4>3, <4>4 DEF Followed
    <3> QED BY <3>1, <3>2
  <2>12. Reached(e, n) = g BY <2>9, <2>10, <2>11 DEF Reached
  <2> QED BY <2>8, <2>12 DEF e
<1>4. CASE f # None
  <2>1. e = d \/ (MayWrite(d, f) /\ e = Store(d, f, Empty))
    BY <1>4 DEF Open, DoneIf, Done, Fails
  <2>2. CASE e = d BY <1>4, <2>2
  <2>3. CASE MayWrite(d, f) /\ e = Store(d, f, Empty)
    <3> DEFINE node == [d.nodes[f] EXCEPT !.data = Empty]
    <3>1. d.nodes[f] \in Node /\ d.nodes[f].kind = "file" /\ f \in Files
      BY <1>1, <1>2, <1>4, <2>3, DiskType DEF MayWrite, IsFile
    <3>2. node.kind = "file" BY <3>1 DEF Node
    <3> HIDE DEF node, e, f, m
    <3>3. e = [d EXCEPT !.nodes = [d.nodes EXCEPT ![f] = node]]
      BY <1>1, <2>3, <3>1, StoreIs DEF node
    <3>4. e.names = d.names /\ e.nodes = [d.nodes EXCEPT ![f] = node]
      BY <1>1, <3>3, DiskType
    <3>5. \A k \in Names : d.names[k] \in Files \cup {None} BY <1>1, DiskType
    <3>6. \A k \in Named(d) : NodeAt(e, k).kind = NodeAt(d, k).kind
      BY <1>1, <3>1, <3>2, <3>4, <3>5, DiskType DEF Named, NodeAt
    <3>7. Named(e) = Named(d) BY <3>4 DEF Named
    <3>8. \A k, kind : Is(e, k, kind) <=> Is(d, k, kind) BY <3>6, <3>7 DEF Is
    <3>9. Is(d, n, "link") => NodeAt(e, n) = NodeAt(d, n)
      <4> SUFFICES ASSUME Is(d, n, "link") PROVE NodeAt(e, n) = NodeAt(d, n) OBVIOUS
      <4>1. d.names[n] \in Files /\ d.names[n] # f
        BY <3>1, <3>5 DEF Is, Named, NodeAt
      <4> QED BY <1>1, <3>4, <4>1, DiskType DEF NodeAt
    <3>10. Followed(e, n) = Followed(d, n) BY <3>8, <3>9 DEF Followed
    <3>11. Reached(e, n) = f BY <3>4, <3>8, <3>10 DEF Reached, f
    <3> QED BY <1>4, <3>11 DEF e
  <2> QED BY <2>1, <2>2, <2>3
<1> QED BY <1>3, <1>4

(* What is stored in a file stays. *)
LEMMA StoreStays ==
    ASSUME NEW d \in Disk, NEW held, Exact(d, held), NEW f \in Files,
           IsFile(d, f), d.nodes[f] # None, NEW x \in Data
    PROVE  Reclaim(Store(d, f, x), held) = [d EXCEPT !.nodes[f].data = x]
<1> DEFINE node == [d.nodes[f] EXCEPT !.data = x]
           nodes == [d.nodes EXCEPT ![f] = node]
           e == [d EXCEPT !.nodes = nodes]
<1>1. d.nodes[f] \in Node /\ d.nodes[f].kind = "file" BY DiskType DEF IsFile
<1>2. node \in Node /\ node # None BY <1>1, StoreNode, DiskAssumption
<1> HIDE DEF node
<1>3. nodes \in [Files -> Node \cup {None}] BY <1>2, DiskType
<1>4. \A g \in Files : nodes[g] # None <=> d.nodes[g] # None BY <1>1, <1>2, DiskType
<1> HIDE DEF nodes
<1>5. e = [names |-> d.names, nodes |-> nodes] BY DiskType
<1>6. e.names = d.names /\ e.nodes = nodes BY <1>5
<1>7. e \in Disk BY <1>3, <1>5, DiskType DEF Disk
<1> HIDE DEF e
<1>8. Named(e) = Named(d) BY <1>6 DEF Named
<1>9. Exact(e, held) BY <1>4, <1>6, <1>8 DEF Exact
<1>10. Store(d, f, x) = e BY StoreIs DEF e, nodes, node
<1>11. Reclaim(e, held) = e BY <1>7, <1>9, ReclaimNothing
<1> QED BY <1>10, <1>11 DEF e, nodes, node

(* A file that is renamed is found by its new name, and not by its old one. *)
LEMMA RenameMoves ==
    ASSUME NEW d \in Disk, NEW n \in Names, NEW m \in Names, Rename(d, n, m).ok
    PROVE  LET e == Rename(d, n, m).disk
           IN  /\ m \in Named(e) /\ NodeAt(e, m) = NodeAt(d, n)
               /\ n # m => n \notin Named(e)
<1> DEFINE e == Rename(d, n, m).disk
<1>1. n \in Named(d)
      /\ e = IF n = m THEN d ELSE Link(Link(d, n, None), m, d.names[n])
  BY DEF Rename, DoneIf, Done, Fails
<1> HIDE DEF e
<1>2. CASE n = m BY <1>1, <1>2 DEF e
<1>3. CASE n # m
  <2> DEFINE names == [[d.names EXCEPT ![n] = None] EXCEPT ![m] = d.names[n]]
  <2>1. Link(d, n, None) = [names |-> [d.names EXCEPT ![n] = None], nodes |-> d.nodes]
    BY DiskType DEF Link
  <2>2. e = [names |-> names, nodes |-> d.nodes] BY <1>1, <1>3, <2>1 DEF Link
  <2>3. e.names = names /\ e.nodes = d.nodes BY <2>2
  <2>4. names[m] = d.names[n] /\ names[n] = None BY <1>3, DiskType
  <2> HIDE DEF names
  <2> QED BY <1>1, <1>3, <2>3, <2>4 DEF Named, NodeAt, e
<1> QED BY <1>2, <1>3

(* A name that is made is there, and one that is removed is not. *)
LEMMA MakeNames ==
    ASSUME NEW d \in Disk, NEW n \in Names, NEW node, Make(d, n, node).ok
    PROVE  n \notin Named(d) /\ n \in Named(Make(d, n, node).disk)
<1>1. ~ (Free(d) = {} \/ n \in Named(d)) BY RefusedNothing DEF Make
<1>2. PICK f \in Files : Make(d, n, node) = Done(Made(d, n, node, f), f) BY <1>1, MakeIs
<1> DEFINE e == Make(d, n, node).disk
<1>3. e = Made(d, n, node, f) BY <1>2 DEF Done
<1>4. e = [names |-> [d.names EXCEPT ![n] = f], nodes |-> [d.nodes EXCEPT ![f] = node]]
  BY <1>3, MadeIs
<1>5. e.names[n] = f BY <1>4, DiskType
<1>6. f # None BY DiskAssumption
<1> HIDE DEF e
<1> QED BY <1>1, <1>5, <1>6 DEF Named, e

LEMMA RemoveUnnames ==
    ASSUME NEW d \in Disk, NEW n \in Names, NEW t \in {Unlink(d, n), Rmdir(d, n)}, t.ok
    PROVE  n \in Named(d) /\ n \notin Named(t.disk)
<1>1. n \in Named(d) /\ t.disk = Link(d, n, None)
  BY DEF Unlink, Rmdir, DoneIf, Done, Fails, Is
<1>2. Link(d, n, None).names[n] = None BY DiskType DEF Link
<1> QED BY <1>1, <1>2 DEF Named

(* Reclaiming takes no name away. *)
LEMMA ReclaimNames ==
    ASSUME NEW d \in Disk, NEW held
    PROVE  /\ Named(Reclaim(d, held)) = Named(d)
           /\ \A n \in Named(d) : NodeAt(Reclaim(d, held), n) = NodeAt(d, n)
<1>1. Shaped(d) BY DiskType DEF Shaped
<1>2. Seen(Reclaim(d, held)) = Seen(d) BY <1>1, ReclaimUnseen
<1>3. DOMAIN Seen(d) = Named(d) /\ DOMAIN Seen(Reclaim(d, held)) = Named(Reclaim(d, held))
  BY DEF Seen
<1>4. Named(Reclaim(d, held)) = Named(d) BY <1>2, <1>3
<1>5. \A n \in Named(d) : Seen(d)[n] = NodeAt(d, n)
                          /\ Seen(Reclaim(d, held))[n] = NodeAt(Reclaim(d, held), n)
  BY <1>4 DEF Seen
<1> QED BY <1>2, <1>4, <1>5

(* A call that is refused has left the directory as it was. *)
LEMMA LocalRefuses ==
    ASSUME NEW u \in Users, NEW r, r.op \in LocalOps, ~ Local(u, r).ok
    PROVE  Local(u, r).disk = disk[u]
<1> DEFINE d == disk[u]
<1> HIDE DEF d
<1>d. /\ Fails(d).disk = d
      /\ \A p, e, v : DoneIf(p, d, e, v).ok <=> p
      /\ \A p, e, v : ~ p => DoneIf(p, d, e, v).disk = d
      /\ \A n, node : ~ Make(d, n, node).ok => Make(d, n, node).disk = d
      /\ \A n, flags : ~ Open(d, n, flags).ok => Open(d, n, flags).disk = d
  BY RefusedNothing
<1>1. CASE r.op = "open" BY <1>1, <1>d DEF Local, LocalOpen, d
<1>2. CASE r.op = "read" BY <1>2, <1>d DEF Local, Pread, d
<1>w. \A x : ~ LocalWrite(u, r, x).ok => LocalWrite(u, r, x).disk = d
  BY <1>d DEF LocalWrite, Pwrite, d
<1>3. CASE r.op = "write" BY <1>3, <1>w DEF Local, d
<1>4. CASE r.op = "truncate" BY <1>4, <1>w, <1>d DEF Local, LocalTruncate, Truncate, d
<1>5. CASE r.op = "chmod" BY <1>5, <1>d DEF Local, LocalChmod, Chmod, d
<1>6. CASE r.op = "getattr" BY <1>6, <1>d DEF Local, Stat, d
<1>7. CASE r.op = "access" BY <1>7, <1>d DEF Local, Access, d
<1>8. CASE r.op = "readlink" BY <1>8, <1>d DEF Local, Readlink, d
<1>9. CASE r.op \in {"mkdir", "symlink"} BY <1>9, <1>d DEF Local, d
<1>10. CASE r.op \in {"unlink", "rmdir"} BY <1>10, <1>d DEF Local, Unlink, Rmdir, d
<1>11. CASE r.op = "rename" BY <1>11, <1>d DEF Local, LocalRename, Rename, d
<1>12. CASE r.op = "readdir" BY <1>12, <1>d DEF Local, LocalReaddir, d
<1> QED
  BY <1>1, <1>2, <1>3, <1>4, <1>5, <1>6, <1>7, <1>8, <1>9, <1>10, <1>11, <1>12
  DEF LocalOps, Ops, Unsupported

LEMMA HandledRefuses ==
    ASSUME NEW o \in Users, NEW r, r.op \in SentOps, r.op = "readdir" => ~ HasRoom(o),
           ~ Handled(o, r).ok
    PROVE  Handled(o, r).disk = disk[o]
<1> DEFINE d == disk[o]
<1> USE DEF DoneIf, Done, Fails
<1>d. \A n, flags : ~ Open(d, n, flags).ok => Open(d, n, flags).disk = d BY RefusedNothing
<1>0. CASE r.op \in {"open", "read", "write", "readdir"} /\ ~ HasRoom(o)
  BY <1>0 DEF Handled
<1>1. CASE r.op = "open" /\ HasRoom(o) BY <1>1, <1>d DEF Handled
<1>2. CASE r.op = "read" /\ HasRoom(o) BY <1>2 DEF Handled, Pread
<1>3. CASE r.op = "write" /\ HasRoom(o) BY <1>3 DEF Handled, Pwrite
<1>4. CASE r.op = "getattr" BY <1>4 DEF Handled, Stat
<1>5. CASE r.op = "access" BY <1>5 DEF Handled, Access
<1>6. CASE r.op = "truncate" BY <1>6 DEF Handled, Truncate
<1>7. CASE r.op = "rename" BY <1>7 DEF Handled, Rename
<1> QED BY <1>0, <1>1, <1>2, <1>3, <1>4, <1>5, <1>6, <1>7 DEF SentOps

(* What the user's own directory answers is so. *)
LEMMA LocalSays ==
    ASSUME NEW u \in Users, DiskTyped(u), NEW r, Fitting(u, r), r.owner = u,
           Local(u, r).ok, NEW held, Backed(Local(u, r).disk, held),
           r.op # "open" => held = HeldBy(handle[u]),
           disk'[u] = Reclaim(Local(u, r).disk, held)
    PROVE  Says(u, r, Value(r, Local(u, r)))
<1> DEFINE d == disk[u]
           t == Local(u, r)
           e == disk'[u]
           f == Target(u, r)
<1>n. r.op # "readdir" => r.name \in Names BY DEF Fitting, IsNamed
<1>d. d \in Disk /\ Exact(d, HeldBy(handle[u])) /\ Backed(d, HeldBy(handle[u]))
  BY ExactBacked DEF DiskTyped
<1>t. t.disk \in Disk /\ e = Reclaim(t.disk, held) BY DEF Backed
<1>f. r.op # "readdir" =>
        /\ f = Meant(u, r, d)
        /\ f \in Files \cup {None} /\ (f # None => d.nodes[f] # None)
  <2>1. CASE r.via
    <3>1. f = handle[u].file /\ f \in Files /\ f = Meant(u, r, d)
      BY <2>1 DEF Target, Fitting, Meant
    <3>2. handle[u] # None /\ f # None BY <2>1, <3>1, DiskAssumption DEF Fitting
    <3>3. f \in HeldBy(handle[u]) BY <3>1, <3>2 DEF HeldBy
    <3> QED BY <1>d, <3>1, <3>3 DEF Backed
  <2>2. CASE ~ r.via
    <3>1. f = Reached(d, r.name) /\ f = Meant(u, r, d) BY <2>2 DEF Target, Meant
    <3> QED BY <1>n, <1>d, <3>1, ReachedType
  <2> QED BY <2>1, <2>2
<1>v. Value(r, t) = IF r.op \in Valued THEN t.value ELSE None BY DEF Value
<1>a. t.ok OBVIOUS
<1>h. r.op # "open" => held = HeldBy(handle[u]) OBVIOUS
<1> HIDE DEF d, e, f, t
<1>s. \A x \in Data : IsFile(d, f) /\ f \in Files \cup {None} /\ (f # None => d.nodes[f] # None)
         /\ r.op # "open" => Reclaim(Store(d, f, x), held) = [d EXCEPT !.nodes[f].data = x]
  BY <1>d, <1>h, StoreStays DEF IsFile
<1>1. CASE r.op = "open"
  <2>1. t = Open(d, r.name, r.arg) BY <1>1, <1>a, RefusedNothing DEF Local, LocalOpen, d, t
  <2>2. Reached(t.disk, r.name) # None BY <1>1, <1>a, <1>n, <1>d, <2>1, OpenReaches
  <2>3. Reached(e, r.name) # None BY <1>1, <1>n, <1>t, <2>2, ReclaimReached DEF t
  <2> QED BY <1>1, <2>3 DEF Says, e
<1>2. CASE r.op = "read"
  <2>1. t = Pread(d, f) BY <1>2 DEF Local, d, t, f
  <2>2. t.value = d.nodes[f].data BY <1>a, <2>1 DEF Pread, DoneIf, Done, Fails
  <2> QED BY <1>2, <1>f, <1>v, <2>2 DEF Says, Valued, d, t
<1>w. ASSUME NEW x \in Data, t = Pwrite(d, f, x) \/ (x = Empty /\ t = Truncate(d, f)),
             r.op \notin {"open", "readdir"}
      PROVE  e = [d EXCEPT !.nodes[f].data = x]
  <2>1. IsFile(d, f) /\ t.disk = Store(d, f, x)
    BY <1>a, <1>w DEF Pwrite, Truncate, MayWrite, DoneIf, Done, Fails
  <2> QED BY <1>f, <1>s, <1>t, <1>w, <2>1
<1>l. ASSUME NEW x, t = LocalWrite(u, r, x) PROVE t = Pwrite(d, f, x)
  BY <1>a, <1>l, RefusedNothing DEF LocalWrite, d, f
<1>3. CASE r.op = "write"
  <2>1. t = LocalWrite(u, r, r.arg) /\ r.arg \in Data
    BY <1>3 DEF Local, t, Fitting, TypedRequest, Arg
  <2>2. e = [d EXCEPT !.nodes[f].data = r.arg] BY <1>3, <1>l, <1>w, <2>1
  <2> QED BY <1>3, <1>f, <2>2 DEF Says, d, e
<1>4. CASE r.op = "truncate"
  <2>1. t = LocalWrite(u, r, Empty) \/ t = Truncate(d, f)
    BY <1>4 DEF Local, LocalTruncate, t, d, f
  <2>2. Empty \in Data BY DiskAssumption
  <2>3. e = [d EXCEPT !.nodes[f].data = Empty] BY <1>4, <1>l, <1>w, <2>1, <2>2
  <2> QED BY <1>4, <1>f, <2>3 DEF Says, d, e
<1>5. CASE r.op = "getattr"
  <2>1. t = Stat(d, d.names[r.name]) BY <1>5 DEF Local, d, t
  <2>2. t.value = NodeAt(d, r.name) BY <1>a, <2>1 DEF Stat, NodeAt, DoneIf, Done, Fails
  <2> QED BY <1>5, <1>v, <2>2 DEF Says, Valued, d, t
<1>6. CASE r.op \in {"access", "readlink", "chmod"} BY <1>6 DEF Says
<1>m. ASSUME NEW node, t = Make(d, r.name, node), r.name \in Names
      PROVE  r.name \notin Named(d) /\ r.name \in Named(e)
  <2>1. r.name \notin Named(d) /\ r.name \in Named(t.disk) BY <1>a, <1>d, <1>m, MakeNames
  <2> QED BY <1>t, <2>1, ReclaimNames
<1>7. CASE r.op \in {"mkdir", "symlink"}
  <2>1. \E node : t = Make(d, r.name, node) BY <1>7 DEF Local, d, t
  <2>2. r.name \notin Named(d) /\ r.name \in Named(e) BY <1>7, <1>n, <1>m, <2>1
  <2> QED BY <1>7, <2>2 DEF Says, d, e
<1>8. CASE r.op \in {"unlink", "rmdir"}
  <2>1. t \in {Unlink(d, r.name), Rmdir(d, r.name)} BY <1>8 DEF Local, d, t
  <2>2. r.name \in Named(d) /\ r.name \notin Named(t.disk)
    BY <1>8, <1>a, <1>d, <1>n, <2>1, RemoveUnnames
  <2>3. r.name \notin Named(e) BY <1>t, <2>2, ReclaimNames
  <2> QED BY <1>8, <2>2, <2>3 DEF Says, d, e
<1>9. CASE r.op = "rename"
  <2>1. r.arg.owner = u /\ t = Rename(d, r.name, r.arg.name)
    BY <1>9, <1>a, RefusedNothing DEF Local, LocalRename, d, t
  <2>2. r.arg.name \in Names /\ r.arg = [owner |-> r.arg.owner, name |-> r.arg.name]
    BY <1>9, <2>1 DEF Fitting, TypedRequest, Arg
  <2>3. /\ r.arg.name \in Named(t.disk) /\ NodeAt(t.disk, r.arg.name) = NodeAt(d, r.name)
        /\ r.name # r.arg.name => r.name \notin Named(t.disk)
    BY <1>9, <1>a, <1>d, <1>n, <2>1, <2>2, RenameMoves
  <2>4. /\ r.arg.name \in Named(e) /\ NodeAt(e, r.arg.name) = NodeAt(d, r.name)
        /\ r.name # r.arg.name => r.name \notin Named(e)
    BY <1>t, <2>3, ReclaimNames
  <2> QED BY <1>9, <2>1, <2>2, <2>4 DEF Says, Renamed, d, e
<1>10. CASE r.op = "readdir"
  <2>1. t = DoneIf(HasRoom(u), d, d, Named(d)) BY <1>10 DEF Local, LocalReaddir, d, t
  <2>2. t.value = Named(d) BY <1>a, <2>1 DEF DoneIf, Done, Fails
  <2> QED BY <1>10, <1>v, <2>2 DEF Says, Valued, d, t
<1> QED
  BY <1>1, <1>2, <1>3, <1>4, <1>5, <1>6, <1>7, <1>8, <1>9, <1>10
  DEF Fitting, TypedRequest, LocalOps, Ops, Unsupported, t, d

(* And so is what another's responder answers. *)
LEMMA HandledSays ==
    ASSUME StaysThere, NEW o \in Users, NEW u \in Users \ {o}, DiskTyped(o),
           NEW r, Goes(r), IsNamed(r), r.owner = o, r.op \in SentOps,
           r.op = "readdir" => ~ HasRoom(o), Handled(o, r).ok,
           disk'[o] = Reclaim(Handled(o, r).disk, HeldBy(handle[o]))
    PROVE  Says(u, r, Value(r, Handled(o, r)))
<1> DEFINE d == disk[o]
           held == HeldBy(handle[o])
           t == Handled(o, r)
           e == disk'[o]
           f == Reached(d, r.name)
<1>b. Backed(d, held) /\ d \in Disk /\ Exact(d, held) BY ExactBacked DEF DiskTyped
<1>k. Backed(t.disk, held) BY <1>b, HandledBacked
<1>t. t.disk \in Disk /\ e = Reclaim(t.disk, held) BY <1>k DEF Backed
<1>n. r.op # "readdir" => r.name \in Names BY DEF IsNamed
<1>f. r.op # "readdir" => f \in Files \cup {None} /\ (f # None => d.nodes[f] # None)
  BY <1>b, <1>n, ReachedType
<1>m. f = Meant(u, r, d) BY DEF Meant
<1>v. Value(r, t) = IF r.op \in Valued THEN t.value ELSE None BY DEF Value
<1>a. t.ok /\ r.op # "readdir" BY DEF Handled, Fails
<1>o. r.op \in {"open", "read", "write"} => HasRoom(o) BY <1>a DEF Handled, Fails
<1>i. r.name # None \/ r.op = "readdir" BY <1>n, DiskAssumption
<1> DEFINE file == Open(d, r.name, {"rw"})
<1>r. file.ok => file.value = f BY <1>n, <1>a DEF Open, DoneIf, Done, Fails
<1> HIDE DEF d, e, f, t, held, file
<1>s. \A x \in Data : IsFile(d, f) => Reclaim(Store(d, f, x), held) = [d EXCEPT !.nodes[f].data = x]
  BY <1>a, <1>b, <1>f, StoreStays DEF IsFile
<1>1. CASE r.op = "open"
  <2>1. t = Open(d, r.name, r.arg) BY <1>1, <1>o, <1>i DEF Handled, d, t
  <2>2. Reached(t.disk, r.name) # None BY <1>1, <1>a, <1>n, <1>b, <2>1, OpenReaches
  <2>3. Reached(e, r.name) # None BY <1>1, <1>n, <1>t, <1>k, <2>2, ReclaimReached
  <2> QED BY <1>1, <2>3 DEF Says, e
<1>2. CASE r.op = "read"
  <2>1. t = IF file.ok THEN Pread(d, file.value) ELSE Fails(d)
    BY <1>2, <1>o DEF Handled, d, t, file
  <2>2. t = Pread(d, f) BY <1>a, <1>r, <2>1 DEF Fails
  <2>3. t.value = d.nodes[f].data BY <1>a, <2>2 DEF Pread, DoneIf, Done, Fails
  <2> QED BY <1>2, <1>m, <1>v, <2>3 DEF Says, Valued, d, t
<1>w. ASSUME NEW x \in Data, t = Pwrite(d, f, x) \/ (x = Empty /\ t = Truncate(d, f))
      PROVE  e = [d EXCEPT !.nodes[f].data = x]
  <2>1. IsFile(d, f) /\ t.disk = Store(d, f, x)
    BY <1>a, <1>w DEF Pwrite, Truncate, MayWrite, DoneIf, Done, Fails
  <2> QED BY <1>s, <1>t, <2>1
<1>3. CASE r.op = "write"
  <2>1. t = IF file.ok THEN Pwrite(d, file.value, r.arg) ELSE Fails(d)
    BY <1>3, <1>o DEF Handled, d, t, file
  <2>2. t = Pwrite(d, f, r.arg) BY <1>a, <1>r, <2>1 DEF Fails
  <2>3. r.arg \in Data BY <1>3 DEF Goes, TypedRequest, Arg
  <2>4. e = [d EXCEPT !.nodes[f].data = r.arg] BY <1>w, <2>2, <2>3
  <2> QED BY <1>3, <1>m, <2>4 DEF Says, d, e
<1>4. CASE r.op = "truncate"
  <2>1. t = Truncate(d, f) BY <1>4 DEF Handled, t, d, f
  <2>2. Empty \in Data BY DiskAssumption
  <2>3. e = [d EXCEPT !.nodes[f].data = Empty] BY <1>w, <2>1, <2>2
  <2> QED BY <1>4, <1>m, <2>3 DEF Says, d, e
<1>5. CASE r.op = "getattr"
  <2>1. t = Stat(d, f) BY <1>5 DEF Handled, d, t, f
  <2>2. t.value = d.nodes[f] BY <1>a, <2>1 DEF Stat, DoneIf, Done, Fails
  <2> QED BY <1>5, <1>m, <1>v, <2>2 DEF Says, Valued, d, t
<1>6. CASE r.op = "access" BY <1>6 DEF Says
<1>7. CASE r.op = "rename"
  <2>1. t = Rename(d, r.name, r.arg.name) BY <1>7 DEF Handled, d, t
  <2>2. r.arg.owner = o BY <1>7 DEF Goes
  <2>3. r.arg.name \in Names /\ r.arg = [owner |-> r.arg.owner, name |-> r.arg.name]
    BY <1>7, <2>2 DEF Goes, TypedRequest, Arg
  <2>4. /\ r.arg.name \in Named(t.disk) /\ NodeAt(t.disk, r.arg.name) = NodeAt(d, r.name)
        /\ r.name # r.arg.name => r.name \notin Named(t.disk)
    BY <1>7, <1>a, <1>b, <1>n, <2>1, <2>3, RenameMoves
  <2>5. /\ r.arg.name \in Named(e) /\ NodeAt(e, r.arg.name) = NodeAt(d, r.name)
        /\ r.name # r.arg.name => r.name \notin Named(e)
    BY <1>t, <2>4, ReclaimNames
  <2> QED BY <1>7, <2>2, <2>3, <2>5 DEF Says, Renamed, d, e
<1> QED BY <1>1, <1>2, <1>3, <1>4, <1>5, <1>6, <1>7, <1>a DEF SentOps

-----------------------------------------------------------------------------
(* Second, who gets an answer in a step *)

IsTrue(u) ==
    /\ Succeeds(u) /\ call'[u].req.owner \in Users => Says(u, call'[u].req, call'[u].value)
    /\ Gets(u, "no") => disk' = disk

(* Nobody does whose call goes on, ends, or is lost. *)
LEMMA NoAnswer ==
    ASSUME Typing, NEW u \in Users,
           call'[u] \in {call[u], None} \/ call'[u].how \notin {"ok", "no"}
    PROVE  IsTrue(u)
<1>1. OnItsWay(u) => call[u].how = "none" BY DEF Typing, Typed, CallTyped, OnItsWay, Way
<1>2. ~ Gets(u, "ok") /\ ~ Gets(u, "no") BY <1>1 DEF Gets
<1> QED BY <1>2 DEF IsTrue, Succeeds

LEMMA EndsTrue ==
    ASSUME IInv, Typing, NEW x \in Users, Ends(x), NEW u \in Users
    PROVE  IsTrue(u)
<1>1. PICK gone \in SUBSET Dealing(x), stays \in {FALSE, Remains(x)} : Left(x, gone, stays)
  BY EndsIs DEF IInv
<1>2. call'[u] \in {call[u], None} \/ call'[u] = Lost(call[u].req) BY <1>1 DEF Left
<1>3. Lost(call[u].req).how = "lost" BY DEF Lost, Answered, In
<1> QED BY <1>2, <1>3, NoAnswer

LEMMA LocalCallTrue ==
    ASSUME IInv, Typing, NEW x \in Users, call[x] = None,
           NEW r, Fitting(x, r), LocalCall(x, r), NEW u \in Users
    PROVE  IsTrue(u)
<1> DEFINE t == Local(x, r)
           held == HeldBy(handle'[x])
<1>f. Flags /\ Functions /\ DiskTyped(x) BY DEF IInv, Typing, Typed
<1>1. r.owner = x BY DEF LocalCall, MrType
<1>b. Backed(disk[x], HeldBy(handle[x])) BY <1>f, ExactBacked DEF DiskTyped
<1>2. /\ Backed(t.disk, HeldBy(handle[x]))
      /\ r.op = "open" /\ t.ok => t.value \in Files /\ t.disk.nodes[t.value] # None
  BY <1>1, <1>b, LocalBacked DEF Fitting
<1> HIDE DEF t
<1>3. /\ call'[x] = IF t.ok THEN Answered(r, "ok", Value(r, t)) ELSE Refusal(r)
      /\ handle'[x] = IF r.op = "open" /\ t.ok THEN Opened(x, r, t.value) ELSE handle[x]
      /\ disk' = [disk EXCEPT ![x] = Reclaim(t.disk, held)]
      /\ \A v \in Users \ {x} : call'[v] = call[v]
  BY <1>f DEF LocalCall, Functions, t
<1>4. CASE u # x BY <1>3, <1>4, NoAnswer
<1>5. CASE u = x /\ t.ok
  <2>1. call'[x] = Answered(r, "ok", Value(r, t)) BY <1>3, <1>5
  <2>2. call'[x].req = r /\ call'[x].how = "ok" /\ call'[x].value = Value(r, t)
    BY <2>1 DEF Answered, In
  <2>3. Backed(t.disk, held)
    <3>1. CASE r.op = "open"
      <4>1. handle'[x].file = t.value BY <1>3, <1>5, <3>1 DEF Opened
      <4>2. held \subseteq {t.value} BY <4>1 DEF HeldBy
      <4> QED BY <1>2, <1>5, <3>1, <4>2 DEF Backed
    <3>2. CASE r.op # "open" BY <1>2, <1>3, <3>2
    <3> QED BY <3>1, <3>2
  <2>4. disk'[x] = Reclaim(t.disk, held) BY <1>3, <1>f DEF Functions
  <2>5. r.op # "open" => held = HeldBy(handle[x]) BY <1>3
  <2> HIDE DEF held
  <2>6. Says(x, r, Value(r, t)) BY <1>1, <1>f, <1>5, <2>3, <2>4, <2>5, LocalSays DEF t
  <2> QED BY <1>5, <2>2, <2>6 DEF IsTrue, Gets, Succeeds
<1>6. CASE u = x /\ ~ t.ok
  <2>1. call'[x] = Refusal(r) /\ handle'[x] = handle[x] BY <1>3, <1>6
  <2>2. call'[x].how = "no" BY <2>1 DEF Refusal, Answered, In
  <2>3. t.disk = disk[x] BY <1>6, LocalRefuses DEF t, Fitting, TypedRequest
  <2>4. Reclaim(t.disk, held) = disk[x] BY <1>f, <2>1, <2>3, ReclaimNothing DEF DiskTyped
  <2>5. disk' = disk BY <1>3, <1>f, <2>4 DEF Functions
  <2> QED BY <1>6, <2>2, <2>5 DEF IsTrue, Gets, Succeeds
<1> QED BY <1>4, <1>5, <1>6

LEMMA RemoteCallTrue ==
    ASSUME IInv, Typing, NEW x \in Users, NEW r, Fitting(x, r), RemoteCall(x, r), NEW u \in Users
    PROVE  IsTrue(u)
<1> DEFINE a == IF IsAtOnce(x, r) THEN AtOnce(x, r) ELSE Begun(x, r, First(r))
<1>1. disk' = disk /\ call' = [call EXCEPT ![x] = a] BY DEF RemoteCall
<1>2. call'[x] = a /\ \A v \in Users \ {x} : call'[v] = call[v]
  BY <1>1 DEF IInv, Functions
<1>3. a.how = "ok" => a.req.owner = Root
  <2>1. CASE IsAtOnce(x, r) BY <2>1 DEF AtOnce, Refusal, Answered, In
  <2>2. CASE ~ IsAtOnce(x, r) BY <2>2, BegunIs
  <2> QED BY <2>1, <2>2
<1> HIDE DEF a
<1>4. CASE u # x BY <1>2, <1>4, NoAnswer
<1>5. CASE u = x
  BY <1>1, <1>2, <1>3, <1>5, UsersAssumption DEF IsTrue, Gets, Succeeds
<1> QED BY <1>4, <1>5

LEMMA AsksAgainTrue ==
    ASSUME IInv, Typing, NEW x \in Users, AsksAgain(x), NEW u \in Users
    PROVE  IsTrue(u)
<1> DEFINE a == Begun(x, call[x].req, "asked")
<1>1. call' = [call EXCEPT ![x] = a] BY DEF AsksAgain
<1>2. call'[x] = a /\ \A v \in Users \ {x} : call'[v] = call[v]
  BY <1>1 DEF IInv, Functions
<1>3. a.how \in {"none", "error"} BY BegunIs
<1> HIDE DEF a
<1> QED BY <1>2, <1>3, NoAnswer

LEMMA HandlesTrue ==
    ASSUME StaysThere, IInv, Typing, Hearing, NEW o \in Users, HandlesRequest(o), NEW v \in Users
    PROVE  IsTrue(v)
<1>f. Flags /\ Functions /\ DiskTyped(o) BY DEF IInv, Typing, Typed
<1>1. PICK u \in Users \ {o} :
         \/ /\ Serves(o, <<u, "call">>)
            /\ Sent(u).op = "readdir" => ~ HasRoom(o)
            /\ disk' = [disk EXCEPT ![o] = Reclaim(Handled(o, Sent(u)).disk, HeldBy(handle[o]))]
            /\ call' = [call EXCEPT ![u] = Response(u, Handled(o, Sent(u)))]
         \/ UNCHANGED call
  BY HandlesIs
<1>2. CASE UNCHANGED call BY <1>2, NoAnswer
<1>3. CASE /\ Serves(o, <<u, "call">>)
           /\ Sent(u).op = "readdir" => ~ HasRoom(o)
           /\ disk' = [disk EXCEPT ![o] = Reclaim(Handled(o, Sent(u)).disk, HeldBy(handle[o]))]
           /\ call' = [call EXCEPT ![u] = Response(u, Handled(o, Sent(u)))]
  <2> DEFINE t == Handled(o, Sent(u))
             r == call[u].req
  <2>1. OnItsWay(u) /\ r.owner = o BY <1>3, ServedIs
  <2>2. Goes(Sent(u)) /\ Sent(u).owner = o /\ Sent(u).op \in SentOps BY <2>1, SentTyped
  <2>3. IsNamed(r) BY <2>1 DEF Typing, Typed, CallTyped, OnItsWay
  <2>4. /\ call'[u] = Response(u, t) /\ \A w \in Users \ {u} : call'[w] = call[w]
        /\ disk'[o] = Reclaim(t.disk, HeldBy(handle[o]))
        /\ \A w \in Users \ {o} : disk'[w] = disk[w]
    BY <1>3, <1>f DEF Functions
  <2> HIDE DEF t, r
  <2>r. /\ ~ t.ok => Response(u, t) = Refusal(r)
        /\ t.ok /\ call[u].stage = "opening" => Response(u, t) = Asking(r, "opened")
        /\ t.ok /\ call[u].stage = "asked" => Response(u, t) = Answered(r, "ok", Value(r, t))
    BY <2>1, ResponseIs DEF r
  <2>5. CASE v # u BY <2>4, <2>5, NoAnswer
  <2>6. CASE v = u /\ t.ok /\ call[u].stage = "asked"
    <3>1. call'[u] = Answered(r, "ok", Value(r, t)) BY <2>4, <2>6, <2>r
    <3>2. call'[u].req = r /\ call'[u].how = "ok" /\ call'[u].value = Value(r, t)
      BY <3>1 DEF Answered, In
    <3>3. Sent(u) = r BY <2>6 DEF Sent, r
    <3>4. Says(u, r, Value(r, t))
      BY <1>3, <1>f, <2>1, <2>2, <2>3, <2>4, <2>6, <3>3, HandledSays DEF t
    <3> QED BY <2>6, <3>2, <3>4 DEF IsTrue, Gets, Succeeds
  <2>7. CASE v = u /\ ~ t.ok
    <3>1. call'[u] = Refusal(r) BY <2>4, <2>7, <2>r
    <3>2. call'[u].how = "no" BY <3>1 DEF Refusal, Answered, In
    <3>3. t.disk = disk[o] BY <1>3, <2>2, <2>7, HandledRefuses DEF t
    <3>4. Reclaim(t.disk, HeldBy(handle[o])) = disk[o]
      BY <1>f, <3>3, ReclaimNothing DEF DiskTyped
    <3>5. disk' = disk BY <1>3, <1>f, <3>4 DEF Functions, t
    <3> QED BY <2>7, <3>2, <3>5 DEF IsTrue, Gets, Succeeds
  <2>8. CASE v = u /\ t.ok /\ call[u].stage = "opening"
    <3>1. call'[u] = Asking(r, "opened") BY <2>4, <2>8, <2>r
    <3>2. call'[u].how = "none" BY <3>1 DEF Asking, In
    <3> QED BY <2>8, <3>2, NoAnswer
  <2> QED BY <2>1, <2>5, <2>6, <2>7, <2>8 DEF OnItsWay, Way
<1> QED BY <1>1, <1>2, <1>3

(* A listing of as many names as were counted is of them all, if these were.  *)
LEMMA ReadsTrue ==
    ASSUME IInv, Typing, NEW o \in Users, ReadsEntries(o), NEW v \in Users
    PROVE  IsTrue(v)
<1> DEFINE w == look[o].who
           r == call[w].req
<1>1. look[o] # None BY DEF ReadsEntries
<1>2. PICK names \in SUBSET Named(disk[o]) :
         /\ Cardinality(names) = Cardinality(look[o].names)
         /\ call' = IF look[o].live THEN [call EXCEPT ![w] = Answered(@.req, "ok", names)] ELSE call
  BY DEF ReadsEntries
<1>3. look[o].live => OnItsWay(w) /\ r.owner = o /\ r.op = "readdir"
  BY <1>1 DEF Typing, Typed, LookTyped, Listing
<1>4. w \in Users BY <1>1 DEF Typing, Typed, LookTyped, Listing
<1>5. CASE ~ (look[o].live /\ v = w)
  <2>1. call'[v] = call[v] BY <1>2, <1>5 DEF IInv, Functions
  <2> QED BY <2>1, NoAnswer
<1>6. CASE look[o].live /\ v = w
  <2>1. call'[v] = Answered(r, "ok", names) BY <1>2, <1>4, <1>6 DEF IInv, Functions
  <2>2. call'[v].req = r /\ call'[v].how = "ok" /\ call'[v].value = names
    BY <2>1 DEF Answered, In
  <2>3. ASSUME look[o].names = Named(disk[o]) PROVE names = Named(disk[o])
    <3>1. IsFiniteSet(Named(disk[o])) BY NamesAssumption, FS_Subset DEF Named
    <3> QED BY <1>2, <2>3, <3>1, FS_Subset
  <2>4. Says(v, r, names) BY <1>1, <1>3, <1>6, <2>3 DEF Says
  <2> QED BY <2>2, <2>4 DEF IsTrue, Gets, Succeeds
<1> QED BY <1>5, <1>6

LEMMA ServerStepTrue ==
    ASSUME IInv, Typing, ServerStep \/ ServerEnds, NEW v \in Users
    PROVE  IsTrue(v)
<1>1. CASE ServerStarts BY <1>1, NoAnswer DEF ServerStarts, clientVars, responderVars
<1>2. ASSUME NEW u \in Users, LateIsLost(u) PROVE IsTrue(v) BY <1>2, NoAnswer DEF LateIsLost
<1>3. ASSUME NEW u \in Users, ServerAnswers(u) PROVE IsTrue(v)
  <2> DEFINE r == call[u].req
  <2>1. disk' = disk BY <1>3 DEF ServerAnswers
  <2>2. \E a : /\ (r.owner = Root /\ a = RootAnswer(r)) \/ a \in {Refusal(r), Lost(r)}
               /\ call' = [call EXCEPT ![u] = a]
    BY <1>3 DEF ServerAnswers
  <2>3. PICK a : /\ (r.owner = Root /\ a = RootAnswer(r)) \/ a \in {Refusal(r), Lost(r)}
                 /\ call' = [call EXCEPT ![u] = a]
    BY <2>2
  <2>4. call'[u] = a /\ \A x \in Users \ {u} : call'[x] = call[x]
    BY <2>3 DEF IInv, Functions
  <2>5. a.req = r /\ (a.how \in {"ok", "no"} => a.how = "no" \/ r.owner = Root)
    <3>1. IsAnswer(a, r) BY <2>3, AnswerTypes
    <3>2. a \in {Refusal(r), Lost(r)} => a.how # "ok" BY DEF Refusal, Lost, Answered, In
    <3> QED BY <2>3, <3>1, <3>2 DEF IsAnswer
  <2>6. CASE v # u BY <2>4, <2>6, NoAnswer
  <2>7. CASE v = u BY <2>1, <2>4, <2>5, <2>7, UsersAssumption DEF IsTrue, Gets, Succeeds
  <2> QED BY <2>6, <2>7
<1>4. CASE ServerEnds
  <2>1. call'[v] = call[v] \/ call'[v] = Lost(call[v].req) BY <1>4 DEF ServerEnds
  <2>2. Lost(call[v].req).how = "lost" BY DEF Lost, Answered, In
  <2> QED BY <2>1, <2>2, NoAnswer
<1> QED BY <1>1, <1>2, <1>3, <1>4 DEF ServerStep

LEMMA NextTrue ==
    ASSUME StaysThere, IInv, Typing, Hearing, [Next]_vars, NEW v \in Users
    PROVE  IsTrue(v)
<1>1. CASE UNCHANGED vars BY <1>1, NoAnswer DEF vars, clientVars, responderVars
<1>2. ASSUME NEW u \in Users, Ends(u) PROVE IsTrue(v) BY <1>2, EndsTrue
<1>3. ASSUME NEW u \in Users, Calls(u) PROVE IsTrue(v)
  <2>1. PICK c \in Requests[u] :
          /\ IF c.op = "open" THEN handle[u] = None ELSE c.via => handle[u] # None
          /\ \/ c.op # "link" /\ LocalCall(u, Resource(u, c))
             \/ c.op # "link" /\ RemoteCall(u, Resource(u, c))
             \/ c.op = "link" /\ Ends(u)
    BY <1>3 DEF Calls
  <2>2. call[u] = None BY <1>3 DEF Calls
  <2> DEFINE r == Resource(u, c)
  <2>3. c.op # "link" => Fitting(u, r) BY <2>1, ResourceFits
  <2> HIDE DEF r
  <2>4. CASE c.op # "link" /\ LocalCall(u, r) BY <2>2, <2>3, <2>4, LocalCallTrue
  <2>5. CASE c.op # "link" /\ RemoteCall(u, r) BY <2>3, <2>5, RemoteCallTrue
  <2> QED BY <1>2, <2>1, <2>4, <2>5 DEF r
<1>4. ASSUME NEW u \in Users, Responds(u) PROVE IsTrue(v)
  <2>1. AcceptFails(u) => IsTrue(v)
    <3>1. AcceptFails(u) =>
            \E x \in Users : call' = [call EXCEPT ![x] = Lost(@.req)] \/ UNCHANGED call
      BY DEF AcceptFails
    <3>2. AcceptFails(u) => call'[v] = call[v] \/ call'[v] = Lost(call[v].req)
      BY <3>1 DEF IInv, Functions
    <3>3. Lost(call[v].req).how = "lost" BY DEF Lost, Answered, In
    <3> QED BY <3>2, <3>3, NoAnswer
  <2>2. CountsEntries(u) \/ Accepts(u) \/ Closes(u) => IsTrue(v)
    BY NoAnswer DEF CountsEntries, Accepts, Closes
  <2> QED BY <1>2, <1>4, <2>1, <2>2, HandlesTrue, ReadsTrue DEF Responds, MisreadsEntries
<1>5. ASSUME NEW u \in Users, Releases(u) \/ Starts(u) \/ Returns(u) PROVE IsTrue(v)
  <2>1. call' = call \/ call' = [call EXCEPT ![u] = None]
    BY <1>5 DEF Releases, Starts, Returns
  <2>2. call'[v] \in {call[v], None} BY <2>1 DEF IInv, Functions
  <2> QED BY <2>2, NoAnswer
<1> QED
  BY <1>1, <1>2, <1>3, <1>4, <1>5, AsksAgainTrue, ServerStepTrue
  DEF Next, CallGoesOn, Aborts, IsKilled

-----------------------------------------------------------------------------
(* Third, what becomes of a call that is accepted *)

IsHeardOut(o, u) ==
    HeardBy(u, o) /\ up'[o] /\ up'[u] /\ serving' => HeardBy(u, o)' \/ Replied(u)

LEMMA StillHeard ==
    ASSUME NEW o \in Users, NEW u \in Users,
           <<u, "call">> \in accepted[o] => <<u, "call">> \in accepted'[o], look'[o] = look[o]
    PROVE  IsHeardOut(o, u)
    BY DEF IsHeardOut, HeardBy

LEMMA EndsHeard ==
    ASSUME IInv, NEW x \in Users, Ends(x), NEW o \in Users, NEW u \in Users
    PROVE  IsHeardOut(o, u)
<1>1. PICK gone \in SUBSET Dealing(x), stays \in {FALSE, Remains(x)} : Left(x, gone, stays)
  BY EndsIs DEF IInv
<1> SUFFICES ASSUME HeardBy(u, o), up'[o], up'[u] PROVE HeardBy(u, o)' BY DEF IsHeardOut
<1>2. o # x /\ u # x BY <1>1 DEF Left
<1>3. CASE <<u, "call">> \in accepted[o]
  <2>1. <<u, "call">> \in accepted'[o] BY <1>1, <1>2, <1>3 DEF Left, Abandoned
  <2> QED BY <2>1 DEF HeardBy
<1>4. CASE look[o] # None /\ look[o].live /\ look[o].who = u
  <2>1. look'[o] = look[o] BY <1>1, <1>2, <1>4, Zenon DEF Left
  <2> QED BY <1>4, <2>1 DEF HeardBy
<1> QED BY <1>3, <1>4 DEF HeardBy

LEMMA AcceptsHeard ==
    ASSUME IInv, NEW x \in Users, Accepts(x), NEW o \in Users, NEW u \in Users
    PROVE  IsHeardOut(o, u)
<1>1. look' = look /\ \E c : accepted' = [accepted EXCEPT ![x] = @ \cup {c}] BY DEF Accepts
<1>2. accepted[o] \subseteq accepted'[o] BY <1>1 DEF IInv, Functions
<1> QED BY <1>1, <1>2, StillHeard

(* A request that is performed, or refused, is answered. *)
LEMMA HandlesHeard ==
    ASSUME IInv, Hearing, NEW x \in Users, HandlesRequest(x), NEW o \in Users, NEW u \in Users
    PROVE  IsHeardOut(o, u)
<1>1. PICK w \in Users \ {x} :
        \/ /\ Serves(x, <<w, "call">>)
           /\ call' = [call EXCEPT ![w] = Response(w, Handled(x, Sent(w)))]
        \/ Serves(x, <<w, "late">>)
  BY HandlesIs
<1>2. look' = look BY HandlesIs
<1>3. CASE /\ Serves(x, <<w, "call">>)
           /\ call' = [call EXCEPT ![w] = Response(w, Handled(x, Sent(w)))]
  <2>1. CASE u = w
    <3> DEFINE t == Handled(x, Sent(w))
    <3>1. OnItsWay(w) BY <1>3, ServedIs
    <3>2. call'[w] = Response(w, t) BY <1>3 DEF IInv, Functions
    <3> HIDE DEF t
    <3>3. \/ call'[w] = Refusal(call[w].req) \/ call'[w] = Asking(call[w].req, "opened")
          \/ call'[w] = Answered(call[w].req, "ok", Value(call[w].req, t))
      BY <3>1, <3>2, ResponseIs DEF OnItsWay, Way
    <3>4. Replied(w) BY <3>3 DEF Replied, Refusal, Asking, Answered, In
    <3> QED BY <2>1, <3>4 DEF IsHeardOut
  <2>2. CASE u # w
    <3>1. <<u, "call">> # <<w, "call">> BY <2>2
    <3>2. <<u, "call">> \in accepted[o] => <<u, "call">> \in accepted'[o]
      BY <1>3, <3>1 DEF Serves, IInv, Functions
    <3> QED BY <1>2, <3>2, StillHeard
  <2> QED BY <2>1, <2>2
<1>4. CASE Serves(x, <<w, "late">>)
  <2>1. <<u, "call">> # <<w, "late">> OBVIOUS
  <2>2. <<u, "call">> \in accepted[o] => <<u, "call">> \in accepted'[o]
    BY <1>4, <2>1 DEF Serves, IInv, Functions
  <2> QED BY <1>2, <2>2, StillHeard
<1> QED BY <1>1, <1>3, <1>4

(* A listing goes on from what is accepted. *)
LEMMA CountsHeard ==
    ASSUME IInv, NEW x \in Users, CountsEntries(x), NEW o \in Users, NEW u \in Users
    PROVE  IsHeardOut(o, u)
<1>1. PICK w \in Users \ {x}, k \in {"call", "late"} :
        /\ Serves(x, <<w, k>>)
        /\ look' = [look EXCEPT ![x] = [who |-> w, live |-> k = "call", names |-> Named(disk[x])]]
  BY DEF CountsEntries
<1>2. look[x] = None BY DEF CountsEntries, Idle
<1>3. /\ accepted'[x] = accepted[x] \ {<<w, k>>}
      /\ look'[x] = [who |-> w, live |-> k = "call", names |-> Named(disk[x])]
      /\ \A v \in Users \ {x} : accepted'[v] = accepted[v] /\ look'[v] = look[v]
  BY <1>1 DEF Serves, IInv, Functions
<1>4. CASE o # x BY <1>3, <1>4, StillHeard
<1>5. CASE o = x
  <2>1. CASE <<u, "call">> = <<w, k>>
    <3>1. u = w /\ k = "call" BY <2>1
    <3>2. look'[o] = [who |-> u, live |-> TRUE, names |-> Named(disk[x])] BY <1>3, <1>5, <3>1
    <3>3. look'[o].who = u /\ look'[o].live = TRUE BY <3>2
    <3>4. look'[o] \in Listing BY <3>2 DEF Listing, Named
    <3>5. look'[o] # None BY <3>4, NoneAssumption
    <3> QED BY <3>3, <3>5 DEF IsHeardOut, HeardBy
  <2>2. CASE <<u, "call">> # <<w, k>>
    <3>1. HeardBy(u, o) => <<u, "call">> \in accepted'[o] BY <1>2, <1>3, <1>5, <2>2 DEF HeardBy
    <3> QED BY <3>1 DEF IsHeardOut, HeardBy
  <2> QED BY <2>1, <2>2
<1> QED BY <1>4, <1>5

LEMMA ReadsHeard ==
    ASSUME IInv, Typing, NEW x \in Users, ReadsEntries(x), NEW o \in Users, NEW u \in Users
    PROVE  IsHeardOut(o, u)
<1>1. accepted' = accepted /\ look' = [look EXCEPT ![x] = None] /\ look[x] # None
  BY DEF ReadsEntries
<1>2. PICK names : call' = IF look[x].live
                           THEN [call EXCEPT ![look[x].who] = Answered(@.req, "ok", names)]
                           ELSE call
  BY DEF ReadsEntries
<1>3. CASE o = x /\ look[o].live /\ look[o].who = u
  <2>1. call'[u] = Answered(call[u].req, "ok", names) BY <1>2, <1>3 DEF IInv, Functions
  <2>2. call'[u].how = "ok" BY <2>1 DEF Answered, In
  <2> QED BY <2>2 DEF IsHeardOut, Replied
<1>4. CASE o # x
  <2>1. look'[o] = look[o] BY <1>1, <1>4 DEF IInv, Functions
  <2> QED BY <1>1, <2>1, StillHeard
<1>5. CASE ~ (look[o].live /\ look[o].who = u)
  BY <1>1, <1>5 DEF IsHeardOut, HeardBy
<1> QED BY <1>3, <1>4, <1>5

LEMMA NextHeard ==
    ASSUME Invariant, [Next]_vars, NEW o \in Users, NEW u \in Users
    PROVE  IsHeardOut(o, u)
<1>i. IInv /\ Typing /\ Hearing BY DEF Invariant
<1>1. CASE UNCHANGED vars BY <1>1, StillHeard DEF vars, clientVars, responderVars
<1>2. ASSUME NEW x \in Users, Ends(x) PROVE IsHeardOut(o, u) BY <1>2, <1>i, EndsHeard
<1>3. ASSUME NEW x \in Users, Calls(x) \/ Releases(x) PROVE IsHeardOut(o, u)
  <2>1. Ends(x) \/ (accepted' = accepted /\ look' = look)
    BY <1>3 DEF Calls, LocalCall, RemoteCall, Releases, responderVars
  <2> QED BY <1>2, <2>1, StillHeard
<1>4. ASSUME NEW x \in Users, Responds(x) PROVE IsHeardOut(o, u)
  <2>1. AcceptFails(x) \/ Closes(x) => IsHeardOut(o, u)
    BY StillHeard DEF AcceptFails, Deafened, Closes
  <2> QED
    BY <1>2, <1>4, <1>i, <2>1, AcceptsHeard, HandlesHeard, CountsHeard, ReadsHeard
    DEF Responds, MisreadsEntries
<1>5. ASSUME NEW x \in Users, CallGoesOn(x) \/ IsKilled(x) \/ Starts(x) PROVE IsHeardOut(o, u)
  <2>1. Ends(x) \/ (accepted' = accepted /\ look' = look)
    BY <1>5 DEF CallGoesOn, AsksAgain, Aborts, Returns, IsKilled, Starts, responderVars
  <2> QED BY <1>2, <2>1, StillHeard
<1>6. CASE ServerStep
  <2>1. accepted' = accepted /\ look' = look
    BY <1>6 DEF ServerStep, ServerStarts, ServerAnswers, LateIsLost, clientVars, responderVars
  <2> QED BY <2>1, StillHeard
<1>7. CASE ServerEnds BY <1>7 DEF ServerEnds, IsHeardOut
<1> QED BY <1>1, <1>3, <1>4, <1>5, <1>6, <1>7 DEF Next

-----------------------------------------------------------------------------
(* Whatever programs, responders and the server do, and whoever of them dies   *)
(* meanwhile: on a disk is what has a name or is open and nothing else, calls   *)
(* and listings are of processes that run, what an owner has accepted is a      *)
(* request to him and has its connection, the caller a listing is for waits    *)
(* at that owner, and no client has more descriptors than there are           *)
(* (client-rsrc.c, client-handler.c, middfs-conn.c).                          *)
THEOREM TypeCorrect == Spec => []TypeOK
<1>1. Invariant => TypeOK BY TypingTypes DEF Invariant
<1> QED BY Invariance, <1>1, PTL

(* handle_lstn_event gives the listening socket up when accept fails, and      *)
(* leaves the other sockets alone: a request that was accepted before, with    *)
(* however many others, is performed or refused by its owner and answered,      *)
(* unless a process ends (middfs-conn.c:208-225, client-handler.c).             *)
THEOREM HeardAreAnswered == Spec => HeardOut
<1>1. Invariant /\ [Next]_vars =>
        [\A o, u \in Users :
           HeardBy(u, o) /\ up'[o] /\ up'[u] /\ serving' => HeardBy(u, o)' \/ Replied(u)]_vars
  BY NextHeard DEF IsHeardOut
<1> QED BY Invariance, <1>1, PTL DEF Spec, HeardOut

(* handle_request_readdir reads a directory twice: in between nothing but a    *)
(* call of the owner's own program, which runs in another thread, changes it. *)
THEOREM ListedAlone == Spec => ListingAlone
<1>1. Invariant /\ [Next]_vars =>
        [\A o \in Users :
           look[o] # None /\ look'[o] # None /\ Seen(disk'[o]) # Seen(disk[o]) => OwnCall(o)]_vars
  BY NextStep DEF Invariant, Changes, Idle
<1> QED BY Invariance, <1>1, PTL DEF Spec, ListingAlone

(* handle_request performs a request once: a directory changes by a call of    *)
(* its owner or with the end of one request, whoever has died or was restarted *)
(* since it was sent.                                                       *)
THEOREM PerformedOnce == Spec => Once
<1>1. Invariant /\ [Next]_vars =>
        [\A o \in Users : Seen(disk'[o]) # Seen(disk[o]) =>
           OwnCall(o) \/ \E u \in Users \ {o} : IsPerformed(u, o)]_vars
  BY NextStep DEF Invariant, Changes
<1> QED BY Invariance, <1>1, PTL DEF Spec, Once

(* A call that succeeds has done, or returns, what is so at that moment: of     *)
(* the user's own files and, through the server and the owner's responder, of   *)
(* any other's; and one that is refused has changed nothing.  But no program     *)
(* may rename from one other user's directory to that of yet another, for       *)
(* client_rsrc_rename sends this to the first, who takes both names for his.    *)
THEOREM TrueAnswers == ASSUME StaysThere PROVE Spec => SaysTrue
<1>1. Invariant /\ [Next]_vars =>
        [\A u \in Users :
           /\ Succeeds(u) /\ call'[u].req.owner \in Users =>
                Says(u, call'[u].req, call'[u].value)
           /\ Gets(u, "no") => disk' = disk]_vars
  BY NextTrue DEF IsTrue, Invariant
<1> QED BY Invariance, <1>1, PTL DEF Spec, SaysTrue

=============================================================================

---------------------------- MODULE FilesCorrect ----------------------------
(* What users may expect of the files of module Files. *)
EXTENDS Files

Handle ==
    [owner : Users \cup {Root}, name : Names \cup {None}, file : Files \cup {None}, rw : BOOLEAN]

(* The types of the variables.  What has a name or is open is on the disk and *)
(* nothing else is; a name or an open file refers to what is there; what is   *)
(* accepted or listed has a connection, and is a request to that owner; no    *)
(* client has more descriptors than there are.                              *)
Referred(u) == {disk[u].names[n] : n \in Named(disk[u])} \cup HeldBy(handle[u])
TypeOK ==
    /\ disk \in [Users -> Disk]
    /\ \A u \in Users : {f \in Files : disk[u].nodes[f] # None} = Referred(u)
    /\ \A u \in Users : handle[u] # None => handle[u] \in Handle /\ up[u]
    /\ \A u \in Users : handle[u] # None => (handle[u].owner = u <=> IsHeld(u))
    /\ \A u \in Users : call[u] # None =>
         /\ up[u] /\ call[u].stage \in Way \cup {"opened", "answered"}
         /\ call[u].how = "none" <=> call[u].stage # "answered"
    /\ \A o \in Users :
         /\ accepted[o] \subseteq Connection
         /\ Unanswered(o) <= conns[o]
         /\ \A v \in Users :
              /\ <<v, "call">> \in accepted[o] => v \in AtOwner(o) /\ ~ Listed(v)
              /\ <<v, "late">> \in accepted[o] => IsLate(o, v)
    /\ \A o \in Users : look[o] # None =>
         /\ up[o] /\ streams[o] > 0
         /\ look[o].live => OnItsWay(look[o].who) /\ call[look[o].who].req.owner = o
    /\ \A u \in Users : UsedFds(u) <= MaxFds /\ (listens[u] => up[u])

(* A call whose connection the owner has accepted is performed and answered,   *)
(* be he deaf by then or out of descriptors, and nobody answers in his place:  *)
(* he has it until he refuses it or does it, unless his process, the caller's  *)
(* or the server ends.                                                      *)
HeardBy(u, o) ==
    \/ <<u, "call">> \in accepted[o]
    \/ look[o] # None /\ look[o].live /\ look[o].who = u
Replied(u) == call'[u].stage = "opened" \/ call'[u].how \in {"ok", "no"}
HeardOut ==
    [][\A o, u \in Users :
         HeardBy(u, o) /\ up'[o] /\ up'[u] /\ serving' => HeardBy(u, o)' \/ Replied(u)]_vars

(* What others see of a directory *)
Seen(d) == [n \in Named(d) |-> NodeAt(d, n)]

(* While a listing is taken, between its two passes, only the owner's own     *)
(* program changes his directory.                                           *)
OwnCall(o) ==
    calls' = calls + 1 /\ call[o] = None /\ \A u \in Users \ {o} : call'[u] = call[u]
ListingAlone ==
    [][\A o \in Users :
         look[o] # None /\ look'[o] # None /\ Seen(disk'[o]) # Seen(disk[o]) => OwnCall(o)]_vars

(* A directory changes only by a call of its owner, or by one request of      *)
(* another to him that waits for its answer, and is answered by that, or that  *)
(* a caller has left behind, and is then no more.                           *)
IsPerformed(u, o) ==
    \/ u \in AtOwner(o) /\ call'[u].stage = "answered"
    \/ IsLate(o, u) /\ late'[u] = None
Once ==
    [][\A o \in Users : Seen(disk'[o]) # Seen(disk[o]) =>
         OwnCall(o) \/ \E u \in Users \ {o} : IsPerformed(u, o)]_vars

(* What a call that succeeds says is so at a moment of the call: what it       *)
(* returns is in the file, or the directory, that it names or has open, and    *)
(* what it was to change is changed there.  A listing has every name, unless  *)
(* the directory was changed between its passes.  A call that is refused has   *)
(* changed nothing.                                                         *)
Gets(u, how) ==
    /\ call'[u] # None /\ call'[u].how = how
    /\ call[u] = None \/ OnItsWay(u)
Succeeds(u) == Gets(u, "ok")
Meant(u, r, d) == IF r.via /\ r.owner = u THEN handle[u].file ELSE Reached(d, r.name)
Renamed(r) ==
    LET from == disk[r.owner]
        to == disk'[r.arg.owner]
    IN  /\ r.arg.name \in Named(to) /\ NodeAt(to, r.arg.name) = NodeAt(from, r.name)
        /\ r.arg # [owner |-> r.owner, name |-> r.name] => r.name \notin Named(disk'[r.owner])
Says(u, r, value) ==
    LET d == disk[r.owner]
        e == disk'[r.owner]
        f == Meant(u, r, d)
    IN
    CASE r.op = "open" -> Reached(e, r.name) # None
      [] r.op = "read" -> value = d.nodes[f].data
      [] r.op = "write" -> e = [d EXCEPT !.nodes[f].data = r.arg]
      [] r.op = "truncate" -> e = [d EXCEPT !.nodes[f].data = Empty]
      [] r.op = "getattr" -> value = IF r.owner = u THEN NodeAt(d, r.name) ELSE d.nodes[f]
      [] r.op = "readdir" ->
           /\ value \subseteq Named(d)
           /\ value # Named(d) =>
                \E o \in Users : look[o] # None /\ look[o].who = u /\ look[o].names # Named(d)
      [] r.op \in {"unlink", "rmdir"} -> r.name \in Named(d) /\ r.name \notin Named(e)
      [] r.op \in {"mkdir", "symlink"} -> r.name \notin Named(d) /\ r.name \in Named(e)
      [] r.op = "rename" -> Renamed(r)
      [] OTHER -> TRUE
SaysTrue ==
    [][\A u \in Users :
         /\ Succeeds(u) /\ call'[u].req.owner \in Users =>
              Says(u, call'[u].req, call'[u].value)
         /\ Gets(u, "no") => disk' = disk]_vars

-----------------------------------------------------------------------------
(* "These should act (mostly) like regular directories" (README.md:133): a     *)
(* rename that succeeds has put the file where it was to go, whosever          *)
(* directories the two names are in.                                        *)
RenameTrue ==
    [][\A u \in Users : Succeeds(u) /\ call'[u].req.op = "rename" => Renamed(call'[u].req)]_vars
=============================================================================

-------------------------------- MODULE Home --------------------------------
(* What the kernel does with the files of one directory, as far as the       *)
(* clients use it (client-rsrc.c, client-handler.c): the calls below are one   *)
(* system call each.  A file is known by its name or, once it is open, by     *)
(* itself, whatever becomes of its name.  Only files can be read-only.        *)
CONSTANTS
    Names,      \* names in the directory
    Files,      \* what names may refer to, as many as the disk has room for
    Data, Empty,    \* contents of a file
    None

Node ==
    [kind : {"file"}, data : Data, ro : BOOLEAN] \cup
    [kind : {"dir"}, data : {None}, ro : {FALSE}] \cup
    [kind : {"link"}, data : Names, ro : {FALSE}]
ASSUME DiskAssumption ==
    /\ Empty \in Data /\ Names # {}
    /\ None \notin Files \cup Names \cup Data \cup Node

Disk == [names : [Names -> Files \cup {None}], nodes : [Files -> Node \cup {None}]]

NewNode(kind, data) == [kind |-> kind, data |-> data, ro |-> FALSE]

Named(d) == {n \in Names : d.names[n] # None}
NodeAt(d, n) == d.nodes[d.names[n]]
Is(d, n, kind) == n \in Named(d) /\ NodeAt(d, n).kind = kind

(* The file that a name means: a symbolic link is followed.                 *)
Followed(d, n) == IF Is(d, n, "link") THEN NodeAt(d, n).data ELSE n
Reached(d, n) ==
    IF Is(d, Followed(d, n), "link") THEN None ELSE d.names[Followed(d, n)]

(* What a call returns and leaves behind. *)
Done(d, v) == [disk |-> d, ok |-> TRUE, value |-> v]
Fails(d) == [disk |-> d, ok |-> FALSE, value |-> None]
DoneIf(p, d, e, v) == IF p THEN Done(e, v) ELSE Fails(d)

Link(d, n, f) == [d EXCEPT !.names[n] = f]
Free(d) == {f \in Files : d.nodes[f] = None}
Make(d, n, node) ==
    IF Free(d) = {} \/ n \in Named(d) THEN Fails(d)
    ELSE LET f == CHOOSE x \in Free(d) : TRUE
         IN  Done([Link(d, n, f) EXCEPT !.nodes[f] = node], f)
IsFile(d, f) == f # None /\ d.nodes[f].kind = "file"
MayWrite(d, f) == IsFile(d, f) /\ ~ d.nodes[f].ro
Store(d, f, x) ==
    [d EXCEPT !.nodes = [g \in Files |-> IF g = f THEN [@[g] EXCEPT !.data = x] ELSE @[g]]]

Open(d, n, flags) ==
    LET f == Reached(d, n) IN
    IF f = None
    THEN IF "create" \in flags THEN Make(d, Followed(d, n), NewNode("file", Empty)) ELSE Fails(d)
    ELSE DoneIf("rw" \in flags => MayWrite(d, f), d,
                IF "trunc" \in flags /\ MayWrite(d, f) THEN Store(d, f, Empty) ELSE d, f)

Pread(d, f) == DoneIf(IsFile(d, f), d, d, d.nodes[f].data)
Pwrite(d, f, x) == DoneIf(IsFile(d, f), d, Store(d, f, x), None)
Truncate(d, f) == DoneIf(MayWrite(d, f), d, Store(d, f, Empty), None)
Chmod(d, f, ro) == DoneIf(IsFile(d, f), d, [d EXCEPT !.nodes[f].ro = ro], None)
Access(d, f, mode) ==
    DoneIf(f # None /\ mode # "invalid" /\ (mode = "w" => ~ d.nodes[f].ro), d, d, None)
Stat(d, f) == DoneIf(f # None, d, d, IF f = None THEN None ELSE d.nodes[f])
Readlink(d, n) == DoneIf(Is(d, n, "link"), d, d, IF n \in Named(d) THEN NodeAt(d, n).data ELSE None)
Unlink(d, n) == DoneIf(n \in Named(d) /\ ~ Is(d, n, "dir"), d, Link(d, n, None), None)
Rmdir(d, n) == DoneIf(Is(d, n, "dir"), d, Link(d, n, None), None)
Rename(d, n, m) ==
    DoneIf(n \in Named(d) /\ (m \in Named(d) => (Is(d, n, "dir") <=> Is(d, m, "dir"))), d,
           IF n = m THEN d ELSE Link(Link(d, n, None), m, d.names[n]), None)

(* A file without a name is gone when it is not open. *)
Reclaim(d, held) ==
    [d EXCEPT !.nodes =
       [f \in Files |-> IF f \in held \/ \E n \in Names : d.names[n] = f THEN @[f] ELSE None]]
=============================================================================

--------------------------- MODULE RegistryProofs ---------------------------
(***************************************************************************)
(* The registry finds and lists what was registered, and requests reach who *)
(* they should, for any processes, names, hosts and configurations.         *)
(***************************************************************************)
EXTENDS RegistryCorrect, TLAPS, FiniteSetTheorems, SequenceTheorems

-----------------------------------------------------------------------------
(* The vector *)

(* Appending an entry and sorting: what was there and the entry, sorted.    *)
LEMMA AddSorts ==
    ASSUME NEW S, NEW s \in Seq(S), NEW e \in S, NEW t \in clients_sort(Append(s, e))
    PROVE  /\ t \in Seq(S) /\ Len(t) = Len(s) + 1
           /\ Sorted(t)
           /\ RangeOf(t) = RangeOf(s) \cup {e}
<1> DEFINE a == Append(s, e)
<1>1. /\ a \in Seq(S) /\ Len(a) = Len(s) + 1 /\ Len(s) \in Nat
      /\ DOMAIN s = 1 .. Len(s)
      /\ \A i \in 1 .. Len(s) : a[i] = s[i]
      /\ a[Len(s) + 1] = e
  BY AppendProperties, LenProperties
<1>2. PICK f \in Orders(Len(a)) : t = [i \in 1 .. Len(a) |-> a[f[i]]]
  BY DEF clients_sort, Reordered
<1>3. f \in [1 .. Len(a) -> 1 .. Len(a)]
      /\ \A i \in 1 .. Len(a) : \E j \in 1 .. Len(a) : f[j] = i
  BY <1>2 DEF Orders
<1>4. \A i \in 1 .. Len(a) : a[i] \in S
  BY <1>1, ElementOfSeq
<1>5. t \in [1 .. Len(a) -> S]
  BY <1>2, <1>3, <1>4
<1>6. t \in Seq(S) /\ Len(t) = Len(a) /\ DOMAIN t = 1 .. Len(a)
  BY <1>1, <1>5, SeqDef, LenProperties
<1>7. RangeOf(t) = {a[i] : i \in 1 .. Len(a)}
  <2>1. \A i \in 1 .. Len(a) : \E j \in 1 .. Len(a) : t[j] = a[i]
    BY <1>2, <1>3
  <2>2. \A j \in 1 .. Len(a) : \E i \in 1 .. Len(a) : t[j] = a[i]
    BY <1>2, <1>3
  <2>3. \A x : x \in RangeOf(t) <=> \E j \in 1 .. Len(a) : x = t[j]
    BY <1>6 DEF RangeOf
  <2> HIDE DEF a
  <2>4. \A x \in RangeOf(t) : \E i \in 1 .. Len(a) : x = a[i]
    BY <2>2, <2>3
  <2>5. \A i \in 1 .. Len(a) : a[i] \in RangeOf(t)
    BY <2>1, <2>3
  <2> QED BY <2>4, <2>5
<1>8. {a[i] : i \in 1 .. Len(a)} = RangeOf(s) \cup {e}
  <2> HIDE DEF a
  <2>1. \A i \in 1 .. Len(a) : a[i] \in RangeOf(s) \cup {e}
    BY <1>1 DEF RangeOf
  <2>2. \A x \in RangeOf(s) \cup {e} : \E i \in 1 .. Len(a) : x = a[i]
    BY <1>1 DEF RangeOf
  <2> QED BY <2>1, <2>2
<1>9. Sorted(t) BY DEF clients_sort
<1> QED BY <1>1, <1>2, <1>6, <1>7, <1>8, <1>9

IsPermuted(t, a, n) == \E f \in Orders(n) : \A i \in 1 .. n : t[i] = a[f[i]]

LEMMA AddPermutes ==
    ASSUME NEW S, NEW s \in Seq(S), NEW e \in S, NEW t \in clients_sort(Append(s, e))
    PROVE  IsPermuted(t, Append(s, e), Len(s) + 1)
<1> DEFINE a == Append(s, e)
<1>1. Len(a) = Len(s) + 1 BY AppendProperties
<1>2. PICK f \in Orders(Len(a)) : t = [i \in 1 .. Len(a) |-> a[f[i]]]
  BY DEF clients_sort, Reordered
<1> HIDE DEF a
<1>4. \A i \in 1 .. Len(a) : t[i] = a[f[i]] BY <1>2
<1>5. IsPermuted(t, a, Len(a)) BY <1>2, <1>4 DEF IsPermuted
<1> QED BY <1>1, <1>5 DEF a

(* In a sorted vector the name is found exactly if it is there.             *)
LEMMA FindTrue ==
    ASSUME NEW c, Sorted(c.vec), NEW name, NEW e \in client_find(name, c)
    PROVE  IF Hits(name, c.vec) = {} THEN e = None ELSE e \in Hits(name, c.vec)
BY DEF client_find

(* Resizing leaves room for one more.                                       *)
LEMMA ResizeRoom ==
    ASSUME NEW c, Len(c.vec) \in Nat, c.len \in Nat, Len(c.vec) <= c.len
    PROVE  clients_resize(c) \in Nat /\ Len(c.vec) + 1 <= clients_resize(c)
BY DEF clients_resize

(* A set of indices of a sequence that is not empty has a last.             *)
LEMMA LastIndex ==
    ASSUME NEW n \in Nat, NEW T \in SUBSET (1 .. n), T # {}
    PROVE  \E i \in T : \A j \in T : j <= i
<1> DEFINE R == OpToRel(<, Nat)
           U == {n - i : i \in T}
<1>0. \A i \in T : i \in Nat /\ n - i \in Nat
  OBVIOUS
<1>1. U \subseteq Nat /\ U # {}
  BY <1>0
<1>2. IsWellFoundedOn(R, Nat)
  BY NatLessThanWellFounded
<1>3. \A x, y \in Nat : x < y => <<x, y>> \in R
  BY DEF OpToRel
<1> HIDE DEF R
<1>4. PICK x \in U : \A y \in U : ~ (<<y, x>> \in R)
  BY <1>1, <1>2, WFMin
<1>5. \A y \in U : x <= y
  <2> HIDE DEF U
  <2> SUFFICES ASSUME NEW y \in U PROVE x <= y
    OBVIOUS
  <2>1. x \in Nat /\ y \in Nat BY <1>1
  <2>2. ~ (y < x) BY <2>1, <1>3, <1>4
  <2> QED BY <2>1, <2>2
<1>6. PICK i \in T : x = n - i
  OBVIOUS
<1>7. \A j \in T : j <= i
  <2> SUFFICES ASSUME NEW j \in T PROVE j <= i
    OBVIOUS
  <2>1. n - i <= n - j BY <1>5, <1>6
  <2> QED BY <2>1, <1>0
<1> QED BY <1>7

(* What a process reads of its configuration is in the file or environment. *)
LEMMA ConfType ==
    ASSUME NEW p \in Procs, NEW k \in Keys
    PROVE  conf_get(p, k) \in Nat \cup {Unset}
<1> DEFINE set == {i \in DOMAIN File[p] : File[p][i].key = k}
           last == CHOOSE i \in set : \A j \in set : j <= i
<1>1. File[p] \in Seq([key : Keys, val : Nat \cup {Unset}])
      /\ Env[p] \in [Keys -> Nat \cup {Unset}]
  BY ConfAssumption
<1>2. CASE set = {}
  BY <1>1, <1>2 DEF conf_get, conf_load
<1>3. CASE set # {}
  <2>0. Len(File[p]) \in Nat /\ set \in SUBSET (1 .. Len(File[p]))
    BY <1>1, LenProperties
  <2>1. \E i \in set : \A j \in set : j <= i
    <3> HIDE DEF set
    <3> QED BY <1>3, <2>0, LastIndex
  <2>2. last \in set
    BY <2>1
  <2>3. File[p][last] \in [key : Keys, val : Nat \cup {Unset}]
    <3> DEFINE f == File[p]
    <3>1. f \in Seq([key : Keys, val : Nat \cup {Unset}]) /\ last \in 1 .. Len(f) BY <1>1, <2>0, <2>2
    <3> HIDE DEF f, last
    <3>2. f[last] \in [key : Keys, val : Nat \cup {Unset}] BY <3>1, ElementOfSeq
    <3> QED BY <3>2 DEF f
  <2>4. conf_get(p, k) = IF set = {} THEN Env[p][k] ELSE File[p][last].val
    BY Zenon DEF conf_get, conf_load
  <2> HIDE DEF set, last
  <2> QED BY <1>3, <2>3, <2>4
<1> QED BY <1>2, <1>3

LEMMA EntryOf ==
    ASSUME NEW e \in Entries
    PROVE  /\ e.proc \in Procs /\ e = client_create(e.proc) /\ e.name \in Nat
           /\ e.name = conf_get(e.proc, "username")
           /\ <<e.host, e.port>> = PlaceOf(e.proc)
           /\ e # None
<1>1. PICK p \in Procs : HasName(p) /\ HasPort(p) /\ e = client_create(p)
  BY DEF Entries
<1>2. e.proc = p /\ e.name = conf_get(p, "username") /\ <<e.host, e.port>> = PlaceOf(p)
  BY <1>1 DEF client_create, PlaceOf
<1>3. conf_get(p, "username") \in Nat
  BY <1>1, ConfType DEF HasName, Keys
<1> QED BY <1>1, <1>2, <1>3, NoneAssumption

(* Entries are told apart by their process. *)
LEMMA EntryFor ==
    ASSUME NEW p \in Procs, HasName(p), HasPort(p)
    PROVE  client_create(p) \in Entries /\ client_create(p).proc = p
BY DEF Entries, client_create

-----------------------------------------------------------------------------
(* The inductive invariant *)

LEMMA InitInv == Init => IInv
<1> SUFFICES ASSUME Init PROVE IInv
  OBVIOUS
<1>1. clients = [vec |-> << >>, len |-> 0] BY DEF Init, Empty
<1>2. << >> \in Seq(Entries) /\ Len(<< >>) = 0 /\ DOMAIN << >> = {} BY EmptySeq
<1>3. TypeOK
  BY <1>1, <1>2, RestartsAssumption DEF Init, TypeOK, Registered, RangeOf, Replies
<1> QED BY <1>1, <1>2, <1>3 DEF Init, IInv, Sorted, Once, Alone, Kept, Begun, RangeOf

(* The steps of a process that are not its responder's leave the vector alone *)
(* and no process more at a place.                                         *)
LEMMA ProcessInv ==
    ASSUME IInv, NEW p \in Procs,
           Connects(p) \/ StartsResponder(p) \/ Listens(p) \/ Mounts(p) \/ Dies(p)
    PROVE  IInv'
<1> USE DEF serverVars
<1>1. UNCHANGED <<clients, restarts>> /\ reply' = Nothing
  BY DEF Connects, StartsResponder, Listens, Mounts, Dies
<1>2. /\ pc' \in [Procs -> {"start", "sent", "mounting", "mounted", "gone"}]
      /\ conn' \in [Procs -> {"none", "packet", "taken", "lost"}]
      /\ resp' \in [Procs -> {"none", "starting", "listening", "deaf"}]
  BY DEF IInv, TypeOK, Connects, StartsResponder, Listens, Mounts, Dies, Exits, Goes
<1>3. \A q \in Procs :
        /\ conn[q] = "taken" <=> conn'[q] = "taken"
        /\ conn'[q] = "packet" => HasName(q) /\ HasPort(q)
        /\ pc'[q] = "start" => conn'[q] = "none"
        /\ pc'[q] \in {"sent", "mounting", "mounted"} => conn'[q] # "none"
  BY DEF IInv, TypeOK, Begun, Connects, StartsResponder, Listens, Mounts, Dies, Exits, Goes
<1>4. TypeOK'
  <2>1. Registered(conn)'
    BY <1>1, <1>3, EntryOf, LenProperties DEF IInv, TypeOK, Registered, RangeOf
  <2> QED BY <1>1, <1>2, <2>1 DEF IInv, TypeOK, Replies, Registered
<1>5. Sorted(clients.vec)' /\ Once'
  BY <1>1 DEF IInv, Once
<1>6. Alone'
  <2>1. CASE Listens(p)
    BY <2>1, <1>2 DEF IInv, TypeOK, Alone, Listens, Listening
  <2>2. CASE ~ Listens(p)
    <3>1. \A q \in Procs : resp'[q] = "listening" => resp[q] = "listening"
      BY <2>2 DEF IInv, TypeOK, Connects, StartsResponder, Mounts, Dies, Exits, Goes
    <3> QED BY <3>1 DEF IInv, Alone
  <2> QED BY <2>1, <2>2
<1>7. Kept' /\ Begun'
  BY <1>1, <1>3 DEF IInv, Kept, Begun
<1> QED BY <1>4, <1>5, <1>6, <1>7 DEF IInv

(* A new entry is of a process that has none yet. *)
LEMMA RegistersInv ==
    ASSUME IInv, NEW p \in Procs, Registers(p)
    PROVE  IInv'
<1> DEFINE e == client_create(p)
           v == clients.vec
<1>1. /\ conn[p] = "packet" /\ HasName(p) /\ HasPort(p)
      /\ reply' = Nothing /\ UNCHANGED <<restarts, pc, resp>>
  BY DEF Registers, IInv, Begun
<1>2. e \in Entries /\ e.proc = p
  BY <1>1, EntryFor
<1>3. clients = [vec |-> v, len |-> clients.len] /\ v \in Seq(Entries)
      /\ Len(v) \in Nat /\ clients.len \in Nat /\ Len(v) <= clients.len
      /\ DOMAIN v = 1 .. Len(v)
  BY LenProperties DEF IInv, TypeOK
<1>4. \A i \in DOMAIN v : v[i].proc # p
  BY <1>1 DEF IInv, TypeOK, Registered, RangeOf
<1>5. CASE conn' = [conn EXCEPT ![p] = "lost"] /\ UNCHANGED clients
  <2>1. conn' \in [Procs -> {"none", "packet", "taken", "lost"}]
        /\ \A q \in Procs : /\ conn'[q] = "taken" <=> conn[q] = "taken"
                            /\ conn'[q] = "none" <=> conn[q] = "none"
                            /\ conn'[q] = "packet" => conn[q] = "packet"
    BY <1>1, <1>5 DEF IInv, TypeOK
  <2>2. TypeOK'
    <3>1. Registered(conn)'
      BY <1>1, <1>5, <1>3, <2>1, EntryOf, ElementOfSeq DEF IInv, TypeOK, Registered, RangeOf
    <3> QED BY <1>1, <1>5, <2>1, <3>1 DEF IInv, TypeOK, Replies, Registered
  <2> QED BY <1>1, <1>5, <2>1, <2>2 DEF IInv, Once, Alone, Kept, Begun
<1>6. CASE conn' = [conn EXCEPT ![p] = "taken"] /\ clients' \in clients_add(e, clients)
  <2>1. PICK t \in clients_sort(Append(v, e)) :
          clients' = [vec |-> t, len |-> clients_resize(clients)]
    BY <1>6 DEF clients_add
  <2>2. /\ t \in Seq(Entries) /\ Len(t) = Len(v) + 1 /\ Sorted(t)
        /\ RangeOf(t) = RangeOf(v) \cup {e}
    BY <2>1, <1>2, <1>3, AddSorts
  <2>3. PICK f \in Orders(Len(v) + 1) :
          \A i \in 1 .. Len(v) + 1 : t[i] = Append(v, e)[f[i]]
    <3>1. IsPermuted(t, Append(v, e), Len(v) + 1)
      BY <1>2, <1>3, AddPermutes
    <3> QED BY <3>1 DEF IsPermuted
  <2>4. /\ conn' \in [Procs -> {"none", "packet", "taken", "lost"}]
        /\ conn'[p] = "taken"
        /\ \A q \in Procs \ {p} : conn'[q] = conn[q]
    BY <1>6 DEF IInv, TypeOK
  <2>5. TypeOK'
    <3>1. clients' \in [vec : Seq(Entries), len : Nat] /\ Len(clients'.vec) <= clients'.len
      BY <2>1, <2>2, <1>3, ResizeRoom
    <3>2. Registered(conn)'
      <4> SUFFICES ASSUME NEW x \in RangeOf(t) PROVE conn'[x.proc] = "taken"
        BY <2>1 DEF Registered
      <4>1. CASE x = e BY <4>1, <1>2, <2>4
      <4>2. CASE x \in RangeOf(v)
        <5>1. x \in Entries BY <4>2, <1>3, ElementOfSeq DEF RangeOf
        <5> QED BY <4>2, <5>1, <2>4, EntryOf DEF IInv, TypeOK, Registered
      <4> QED BY <4>1, <4>2, <2>2
    <3> QED BY <1>1, <3>1, <3>2, <2>4 DEF IInv, TypeOK, Replies, Registered
  <2>6. Once'
    <3> DEFINE a == Append(v, e)
    <3>1. Len(a) = Len(v) + 1 /\ a[Len(v) + 1] = e /\ \A i \in 1 .. Len(v) : a[i] = v[i]
      BY <1>2, <1>3, AppendProperties
    <3>2. \A i, j \in 1 .. Len(v) + 1 : a[i].proc = a[j].proc => i = j
      <4> HIDE DEF a
      <4>1. \A i \in 1 .. Len(v) : a[i].proc # p BY <1>3, <1>4, <3>1
      <4>2. \A i, j \in 1 .. Len(v) : a[i].proc = a[j].proc => i = j
        BY <1>3, <3>1 DEF IInv, Once
      <4>3. \A i \in 1 .. Len(v) + 1 : i \in 1 .. Len(v) \/ i = Len(v) + 1 BY <1>3
      <4> QED BY <4>1, <4>2, <4>3, <3>1, <1>2
    <3>3. f \in [1 .. Len(v) + 1 -> 1 .. Len(v) + 1]
          /\ \A i, j \in 1 .. Len(v) + 1 : f[i] = f[j] => i = j
      BY <2>3 DEF Orders
    <3>4. DOMAIN t = 1 .. Len(v) + 1 BY <2>2, LenProperties
    <3>5. \A i, j \in DOMAIN t : t[i].proc = t[j].proc => i = j
      <4> HIDE DEF e, v
      <4> SUFFICES ASSUME NEW i \in 1 .. Len(v) + 1, NEW j \in 1 .. Len(v) + 1,
                          t[i].proc = t[j].proc
                   PROVE  i = j
        BY <3>4
      <4>1. t[i] = a[f[i]] /\ t[j] = a[f[j]] BY <2>2, <2>3
      <4>2. f[i] \in 1 .. Len(v) + 1 /\ f[j] \in 1 .. Len(v) + 1 BY <3>3
      <4>3. f[i] = f[j] BY <4>1, <4>2, <3>2
      <4> QED BY <4>3, <3>3
    <3> QED BY <3>5, <2>1 DEF Once
  <2>7. Sorted(clients.vec)' BY <2>1, <2>2
  <2>8. Kept' /\ Begun' /\ Alone'
    BY <1>1, <2>1, <2>2, <2>4 DEF IInv, Kept, Begun, Alone, PlaceOf
  <2> QED BY <2>5, <2>6, <2>7, <2>8 DEF IInv
<1> QED BY <1>5, <1>6 DEF Registers

LEMMA RequestsInv ==
    ASSUME IInv, Lists \/ \E n \in Names : Asks(n)
    PROVE  IInv'
<1>1. UNCHANGED <<clients, restarts, pc, conn, resp>>
  BY DEF Lists, Asks, serverVars
<1>2. clients.vec \in Seq(Entries) /\ Sorted(clients.vec) BY DEF IInv, TypeOK
<1>3. \A e \in RangeOf(clients.vec) : e \in Entries
  BY <1>2, LenProperties, ElementOfSeq DEF RangeOf
<1>4. reply' \in Replies
  <2>1. CASE Lists
    <3>1. clients_readdir(clients) \in [1 .. Len(clients.vec) -> Nat]
      BY <1>2, EntryOf, LenProperties, ElementOfSeq DEF clients_readdir
    <3>2. clients_readdir(clients) \in Seq(Nat) BY <1>2, <3>1, SeqDef, LenProperties
    <3> QED BY <2>1, <3>2 DEF Lists, Replies
  <2>2. ASSUME NEW n \in Names, Asks(n) PROVE reply' \in Replies
    <3>1. PICK e \in client_find(n, clients) :
            \E q \in Procs \cup {None} :
              reply' = [kind |-> "found", asked |-> n, found |-> e, by |-> q]
      BY <2>2 DEF Asks, Listening
    <3>2. e \in Entries \cup {None}
      BY <1>2, <1>3, <3>1, FindTrue DEF Hits
    <3> QED BY <3>1, <3>2 DEF Replies, Found
  <2> QED BY <2>1, <2>2
<1> QED BY <1>1, <1>4 DEF IInv, TypeOK, Registered, Once, Alone, Kept, Begun

LEMMA RestartInv == IInv /\ Restart => IInv'
<1> SUFFICES ASSUME IInv, Restart PROVE IInv'
  OBVIOUS
<1>1. clients' = [vec |-> << >>, len |-> 0] /\ restarts' > 0
      /\ restarts' \in 0 .. Restarts
      /\ reply' = Nothing /\ UNCHANGED <<pc, resp>>
  BY RestartsAssumption DEF Restart, Empty, IInv, TypeOK
<1>2. << >> \in Seq(Entries) /\ Len(<< >>) = 0 /\ DOMAIN << >> = {} BY EmptySeq
<1>3. conn' \in [Procs -> {"none", "packet", "taken", "lost"}]
      /\ \A q \in Procs : conn'[q] # "packet" /\ (conn'[q] = "none" <=> conn[q] = "none")
  BY DEF Restart, IInv, TypeOK
<1>4. TypeOK'
  BY <1>1, <1>2, <1>3 DEF IInv, TypeOK, Registered, RangeOf, Replies
<1> QED BY <1>1, <1>2, <1>3, <1>4 DEF IInv, Sorted, Once, Alone, Kept, Begun, RangeOf

LEMMA NextInv == IInv /\ [Next]_vars => IInv'
<1> SUFFICES ASSUME IInv, [Next]_vars PROVE IInv'
  OBVIOUS
<1>1. ASSUME NEW p \in Procs,
             Connects(p) \/ StartsResponder(p) \/ Listens(p) \/ Mounts(p) \/ Dies(p)
      PROVE  IInv'
  BY <1>1, ProcessInv
<1>2. ASSUME NEW p \in Procs, Registers(p) PROVE IInv'
  BY <1>2, RegistersInv
<1>3. CASE Lists \/ \E n \in Names : Asks(n)
  BY <1>3, RequestsInv
<1>4. CASE Restart
  BY <1>4, RestartInv
<1>5. CASE UNCHANGED vars
  BY <1>5 DEF vars, IInv, TypeOK, Registered, Once, Alone, Kept, Begun, Sorted
<1> QED BY <1>1, <1>2, <1>3, <1>4, <1>5 DEF Next

THEOREM Invariance == Spec => []IInv
BY InitInv, NextInv, PTL DEF Spec

-----------------------------------------------------------------------------
(* What the invariant gives *)

(* The entries fit into their memory, and are of processes that registered.  *)
THEOREM TypeCorrect == Spec => []TypeOK
<1>1. IInv => TypeOK BY DEF IInv
<1> QED BY <1>1, Invariance, PTL

(* A mounted client is registered unless its packet was lost or the server    *)
(* restarted (main, lines 180 to 194).                                       *)
THEOREM KnownCorrect == Spec => []Known
<1>1. IInv => Known BY DEF IInv, TypeOK, Known, Kept, Begun
<1> QED BY <1>1, Invariance, PTL

(* What a request gets, from what the registry and the listeners are then.   *)
LEMMA AsksReaches ==
    ASSUME IInv, NEW n \in Names, Asks(n)
    PROVE  NoStranger' /\ Reached'
<1>1. UNCHANGED <<clients, restarts, pc, conn, resp>> BY DEF Asks, serverVars
<1>2. PICK e \in client_find(n, clients) :
        \E q \in IF e = None \/ Listening(<<e.host, e.port>>) = {}
                 THEN {None} ELSE Listening(<<e.host, e.port>>) :
          reply' = [kind |-> "found", asked |-> n, found |-> e, by |-> q]
  BY DEF Asks
<1>3. PICK q \in IF e = None \/ Listening(<<e.host, e.port>>) = {}
                 THEN {None} ELSE Listening(<<e.host, e.port>>) :
          reply' = [kind |-> "found", asked |-> n, found |-> e, by |-> q]
  BY <1>2
<1>4. reply'.asked = n /\ reply'.by = q BY <1>3
<1>5. Sorted(clients.vec) /\ \A x \in RangeOf(clients.vec) : x \in Entries
  BY LenProperties, ElementOfSeq DEF IInv, TypeOK, RangeOf
<1>6. CASE e = None
  <2>1. q = None BY <1>3, <1>6
  <2>2. OfName(n) = {}
    <3>1. Hits(n, clients.vec) = {}
      BY <1>5, <1>2, <1>6, FindTrue, EntryOf DEF Hits
    <3> QED BY <3>1 DEF OfName, Hits
  <2> QED BY <1>1, <1>4, <2>1, <2>2 DEF NoStranger, Reached, OfName
<1>7. CASE e # None
  <2>1. e \in Hits(n, clients.vec) BY <1>5, <1>2, <1>7, FindTrue
  <2>2. e \in Entries /\ e \in RangeOf(clients.vec) /\ e.name = n BY <1>5, <2>1 DEF Hits
  <2>3. /\ e.proc \in Procs /\ conf_get(e.proc, "username") = n
        /\ <<e.host, e.port>> = PlaceOf(e.proc) /\ client_create(e.proc) = e
    BY <2>2, EntryOf
  <2>4. q # None => q \in Procs /\ resp[q] = "listening" /\ PlaceOf(q) = PlaceOf(e.proc)
    BY <1>3, <1>7, <2>3 DEF Listening
  <2>5. resp[e.proc] = "listening" => q = e.proc
    <3> SUFFICES ASSUME resp[e.proc] = "listening" PROVE q = e.proc
      OBVIOUS
    <3>1. e.proc \in Listening(<<e.host, e.port>>) BY <2>3 DEF Listening
    <3>2. q \in Listening(<<e.host, e.port>>) BY <1>3, <1>7, <3>1
    <3>3. q \in Procs /\ resp[q] = "listening" /\ PlaceOf(q) = PlaceOf(e.proc)
      BY <3>2, <2>3 DEF Listening
    <3> QED BY <3>3, <2>3 DEF IInv, Alone
  <2>6. NoStranger'
    <3> SUFFICES ASSUME q # None
                 PROVE  \/ conf_get(q, "username") = n
                        \/ \E p \in Procs :
                             /\ conf_get(p, "username") = n /\ PlaceOf(p) = PlaceOf(q)
                             /\ client_create(p) \in RangeOf(clients.vec)
                             /\ resp[p] # "listening"
      BY <1>1, <1>4 DEF NoStranger
    <3> QED BY <2>2, <2>3, <2>4, <2>5
  <2>7. Reached'
    <3> SUFFICES ASSUME \A x \in OfName(n) : resp[x.proc] = "listening"
                 PROVE  q \in {x.proc : x \in OfName(n)}
      BY <1>1, <1>4 DEF Reached, OfName
    <3>1. e \in OfName(n) BY <2>2 DEF OfName
    <3> QED BY <3>1, <2>5
  <2> QED BY <2>6, <2>7
<1> QED BY <1>6, <1>7

(* In every other step nothing was asked. *)
LEMMA OthersReach ==
    ASSUME IInv, NoStranger, Reached, [Next]_vars, ~ \E n \in Names : Asks(n)
    PROVE  NoStranger' /\ Reached'
<1>1. CASE UNCHANGED vars
  BY <1>1 DEF vars, NoStranger, Reached, Asked, OfName
<1>2. CASE Next
  <2>1. reply'.kind # "found"
    BY <1>2 DEF Next, Connects, StartsResponder, Listens, Mounts, Dies, Registers,
                Lists, Restart, Nothing
  <2> QED BY <2>1 DEF NoStranger, Reached, Asked
<1> QED BY <1>1, <1>2

LEMMA Reaching == Spec => [](NoStranger /\ Reached)
<1>1. Init => NoStranger /\ Reached
  BY DEF Init, Nothing, NoStranger, Reached, Asked
<1>2. IInv /\ NoStranger /\ Reached /\ [Next]_vars => NoStranger' /\ Reached'
  BY AsksReaches, OthersReach
<1> QED BY <1>1, <1>2, Invariance, PTL DEF Spec

(* A request is performed by a process of the name asked for, or by one at    *)
(* the place of such a process that does not listen any more                *)
(* (server/middfs-client.c:133, server-handler.c:163-176).                   *)
THEOREM StrangersAnswerForTheDead == Spec => []NoStranger
BY Reaching, PTL

(* A request reaches a process of the name asked for if all that registered   *)
(* under it listen.                                                         *)
THEOREM RequestsReach == Spec => []Reached
BY Reaching, PTL

-----------------------------------------------------------------------------
(* The vector implements the set of registrations. *)

(* A vector without repetitions is a list of its entries. *)
LEMMA VectorLists ==
    ASSUME NEW s, NEW n \in Nat, s \in [1 .. n -> RangeOf(s)], DOMAIN s = 1 .. n,
           \A i, j \in 1 .. n : s[i].proc = s[j].proc => i = j
    PROVE  Cardinality(RangeOf(s)) = n
<1> DEFINE S == RangeOf(s)
<1>1. \A i, j \in 1 .. n : s[i] = s[j] => i = j
  <2> SUFFICES ASSUME NEW i \in 1 .. n, NEW j \in 1 .. n, s[i] = s[j] PROVE i = j
    OBVIOUS
  <2>1. s[i].proc = s[j].proc OBVIOUS
  <2> QED BY <2>1
<1>2. \A e \in S : \E i \in 1 .. n : s[i] = e BY DEF RangeOf
<1> HIDE DEF S
<1>3. s \in Bijection(1 .. n, S)
  BY <1>1, <1>2 DEF S, Bijection, Injection, Surjection, IsInjective
<1>4. ExistsBijection(1 .. n, S) BY <1>3 DEF ExistsBijection
<1>5. Cardinality(S) = n BY <1>4, FS_CountingElements
<1> QED BY <1>5 DEF S

LEMMA StepsImplement ==
    ASSUME IInv, [Next]_vars
    PROVE  [D!Next]_<<RangeOf(clients.vec), asDirectory>>
<1> USE DEF D!Nothing, Nothing
<1>1. CASE UNCHANGED vars
  BY <1>1 DEF vars, asDirectory
<1>2. ASSUME NEW p \in Procs,
             Connects(p) \/ StartsResponder(p) \/ Listens(p) \/ Mounts(p) \/ Dies(p)
      PROVE  D!Other
  BY <1>2 DEF D!Other, asDirectory, serverVars, Connects, StartsResponder, Listens,
              Mounts, Dies
<1>3. ASSUME NEW p \in Procs, Registers(p)
      PROVE  D!Other \/ (D!Register(client_create(p)) /\ client_create(p) \in Entries)
  <2>1. asDirectory' = Nothing BY <1>3 DEF Registers, asDirectory
  <2>2. CASE UNCHANGED clients BY <2>1, <2>2 DEF D!Other
  <2>3. CASE clients' \in clients_add(client_create(p), clients)
    <3>1. client_create(p) \in Entries
      BY <1>3, EntryFor DEF Registers, IInv, Begun
    <3>2. PICK t \in clients_sort(Append(clients.vec, client_create(p))) :
            clients' = [vec |-> t, len |-> clients_resize(clients)]
      BY <2>3 DEF clients_add
    <3>3. clients.vec \in Seq(Entries) BY DEF IInv, TypeOK
    <3>4. RangeOf(clients'.vec) = RangeOf(clients.vec) \cup {client_create(p)}
      BY <3>1, <3>2, <3>3, AddSorts
    <3> QED BY <2>1, <3>1, <3>4 DEF D!Register
  <2> QED BY <1>3, <2>2, <2>3 DEF Registers
<1>4. ASSUME NEW n \in Names, Asks(n) PROVE D!Find(n)
  <2>1. UNCHANGED clients BY <1>4 DEF Asks, serverVars
  <2>2. PICK e \in client_find(n, clients) :
          \E q : reply' = [kind |-> "found", asked |-> n, found |-> e, by |-> q]
    BY <1>4 DEF Asks
  <2>3. asDirectory' = [kind |-> "found", asked |-> n, found |-> e]
    BY <2>2 DEF asDirectory
  <2>4. IF Hits(n, clients.vec) = {} THEN e = None ELSE e \in Hits(n, clients.vec)
    BY <2>2, FindTrue DEF IInv
  <2>5. D!Named(n) = Hits(n, clients.vec) BY DEF D!Named, Hits
  <2> QED BY <2>1, <2>3, <2>4, <2>5 DEF D!Find
<1>5. ASSUME Lists PROVE D!List
  <2>1. UNCHANGED clients /\ reply' = [kind |-> "list", names |-> clients_readdir(clients)]
    BY <1>5 DEF Lists, serverVars
  <2>2. asDirectory' = [kind |-> "list", names |-> clients_readdir(clients)]
    BY <2>1 DEF asDirectory
  <2> DEFINE v == clients.vec
             n == Len(v)
  <2>3. n \in Nat /\ DOMAIN v = 1 .. n /\ v \in [1 .. n -> RangeOf(v)]
    BY LenProperties DEF IInv, TypeOK, RangeOf
  <2>4. Cardinality(RangeOf(v)) = n
    BY <2>3, VectorLists DEF IInv, Once
  <2>5. v \in D!Listings
    <3>1. \A e \in RangeOf(v) : \E i \in 1 .. n : v[i] = e BY <2>3 DEF RangeOf
    <3>2. D!Cardinality(RangeOf(v)) = Cardinality(RangeOf(v))
      BY DEF D!Cardinality, Cardinality
    <3> QED BY <2>3, <2>4, <3>1, <3>2 DEF D!Listings
  <2>6. clients_readdir(clients) = [i \in DOMAIN v |-> v[i].name] BY DEF clients_readdir
  <2> QED BY <2>1, <2>2, <2>5, <2>6 DEF D!List
<1>6. ASSUME Restart PROVE D!Restart
  <2>1. clients' = [vec |-> << >>, len |-> 0] /\ asDirectory' = Nothing
    BY <1>6 DEF Restart, Empty, asDirectory
  <2> QED BY <2>1 DEF D!Restart, RangeOf
<1> QED BY <1>1, <1>2, <1>3, <1>4, <1>5, <1>6 DEF Next, D!Next

(* Module Directory: names are found exactly if they were registered, and the *)
(* root directory lists one name for each registration.                     *)
THEOREM ImplementsDirectory == Spec => DirectorySpec
<1>1. Init => D!Init
  BY DEF Init, Empty, D!Init, RangeOf, asDirectory, Nothing, D!Nothing
<1> QED BY <1>1, StepsImplement, Invariance, PTL DEF Spec, DirectorySpec, D!Spec
=============================================================================

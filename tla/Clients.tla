------------------------------ MODULE Clients ------------------------------
(* The server's vector of clients (server/middfs-client.c), as operators on  *)
(* its value: the entries, and the length of the memory they are in.         *)
EXTENDS Integers, Sequences

CONSTANT None   \* NULL

RangeOf(s) == {s[i] : i \in DOMAIN s}

Empty == [vec |-> << >>, len |-> 0]

(* client_cmp: names are numbers in the order of strcmp.                     *)
client_cmp(c1, c2) == c1.name - c2.name
Sorted(s) == \A i, j \in DOMAIN s : i < j => client_cmp(s[i], s[j]) <= 0

(* qsort: some order of the same elements; of two that compare equal either  *)
(* may come first.                                                         *)
Orders(n) ==
    {f \in [1 .. n -> 1 .. n] :
       /\ \A i, j \in 1 .. n : f[i] = f[j] => i = j
       /\ \A i \in 1 .. n : \E j \in 1 .. n : f[j] = i}
Reordered(s) == {[i \in 1 .. Len(s) |-> s[f[i]]] : f \in Orders(Len(s))}
clients_sort_Not(s) == {s}
clients_sort(s) == {t \in Reordered(s) : Sorted(t)}

(* bsearch: of equal elements any may be found, and in an array that is not   *)
(* sorted nothing is promised.                                             *)
Hits(username, s) == {e \in RangeOf(s) : e.name = username}
client_find_Any(username, clients) ==
    IF clients.vec = << >> THEN {None} ELSE RangeOf(clients.vec)
client_find(username, clients) ==
    IF Sorted(clients.vec)
      THEN IF Hits(username, clients.vec) = {} THEN {None}
                                               ELSE Hits(username, clients.vec)
      ELSE RangeOf(clients.vec) \cup {None}

(* The new length of a full vector.  It never shrinks, so that clients_remove *)
(* has no caller that reaches it.                                          *)
clients_resize_Late(clients) ==
    IF Len(clients.vec) > clients.len THEN 2 * clients.len ELSE clients.len
clients_resize(clients) ==
    IF Len(clients.vec) = clients.len
      THEN IF clients.len = 0 THEN 1 ELSE 2 * clients.len
      ELSE clients.len

(* The new entry is written behind the last, and the vector sorted again.   *)
clients_add_Over(client, clients) ==
    {[vec |-> t, len |-> 1] :
       t \in clients_sort(Append(SubSeq(clients.vec, 1, Len(clients.vec) - 1), client))}
clients_add(client, clients) ==
    {[vec |-> t, len |-> clients_resize(clients)] :
       t \in clients_sort(Append(clients.vec, client))}

(* The names of the root directory *)
clients_readdir_Short(clients) ==
    [i \in 1 .. Len(clients.vec) - 1 |-> clients.vec[i].name]
clients_readdir(clients) == [i \in DOMAIN clients.vec |-> clients.vec[i].name]
=============================================================================

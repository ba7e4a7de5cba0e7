---------------------------- MODULE ServerProofs ----------------------------
(***************************************************************************)
(* The types of the server's state, for any number of connections, names   *)
(* and descriptors and any size of packets and connections, and what each   *)
(* read and write does to buffers and streams.  Then the inductive        *)
(* invariant IInv, and what follows from it: no assertion of the poll loop *)
(* or of a handler fails, every descriptor is an end of one entry, and the *)
(* ends of an entry are the legs of one request.  Then the inductive       *)
(* invariant Relaying, which says what the connections of a caller have    *)
(* carried while its entry goes from state to state, and what follows from *)
(* it: no chunk goes astray, an answer is sent whole, and the server       *)
(* implements module Relay.                                                *)
(***************************************************************************)
EXTENDS ServerCorrect, TLAPS, SequenceTheorems

-----------------------------------------------------------------------------
(* Types *)

USE DEF NoFd

(* Entries stay entries under the updates that the handlers make. *)
LEMMA DeletedType ==
    ASSUME NEW e \in Entries
    PROVE  /\ Deleted(e) \in Entries
           /\ Deleted(e).type = "NONE"
           /\ Deleted(e).in = NoFd /\ Deleted(e).out = NoFd
<1>1. << >> \in Seq(Packets) BY EmptySeq
<1> QED BY <1>1 DEF Deleted, Entries, Types

LEMMA NewEntryType ==
    ASSUME NEW t \in Types, NEW s \in States, NEW fd \in Fds
    PROVE  NewEntry(t, s, fd) \in Entries
<1>1. << >> \in Seq(Packets) BY EmptySeq
<1> QED BY <1>1 DEF NewEntry, Entries

(* A packet in chunks is a sequence of Parts packets. *)
LEMMA ChunksType ==
    ASSUME NEW p \in Packets
    PROVE  /\ Chunks(p) \in Seq(Packets)
           /\ Len(Chunks(p)) = Parts
           /\ \A n \in 1 .. Parts : Chunks(p)[n] = p
BY SizeAssumption DEF Chunks

LEMMA PacketTypes ==
    ASSUME TypeOK, NEW c \in Conns
    PROVE  /\ Asked(c) \in Packets
           /\ Asked(c).type # "RESPONSE" /\ Asked(c).conn = c
           /\ \A who \in {"server", "owner"} :
                Response(c, who) \in Packets /\ Response(c, who).type = "RESPONSE"
           /\ Rq(c) \in Sockets /\ Pr(c) \in Sockets
<1>1. ask[c].type \in {"CONNECT", "REQUEST"} BY DEF TypeOK, Asks
<1> QED BY <1>1 DEF Asked, Response, Packets, Rq, Pr, Sockets, Legs

(* What a read of k chunks leaves: the buffer and the connection. *)
LEMMA ReadType ==
    ASSUME TypeOK, NEW i, NEW k \in 1 .. Room, ReadOf(i, k)
    PROVE  /\ i \in DOMAIN table /\ table[i] \in Entries /\ table[i].type = "PKT_IN"
           /\ Sock(i) \in Sockets
           /\ Filled(i, k) \in Seq(Packets)
           /\ Len(Filled(i, k)) = Len(table[i].ibuf) + k
           /\ Len(table[i].ibuf) \in Nat
           /\ \A n \in 1 .. Len(Filled(i, k)) :
                Filled(i, k)[n] = IF n <= Len(table[i].ibuf) THEN table[i].ibuf[n]
                                  ELSE up[Sock(i)][n - Len(table[i].ibuf)]
<1>1. i \in DOMAIN table /\ table[i] \in Entries
  BY DEF ReadOf, Reading, Handling, TypeOK
<1>2. table[i].type = "PKT_IN" /\ Sock(i) \in Sockets
  BY DEF ReadOf, Reading
<1> DEFINE b == table[i].ibuf
           u == up[Sock(i)]
           s == SubSeq(u, 1, k)
<1>3. b \in Seq(Packets) /\ u \in Seq(Packets) /\ k <= Len(u) /\ k \in Nat
  <2>1. up \in [Sockets -> Seq(Packets)] BY DEF TypeOK
  <2>2. b \in Seq(Packets) BY <1>1 DEF Entries
  <2>3. u \in Seq(Packets) BY <1>2, <2>1
  <2>4. k <= Len(u) BY DEF ReadOf
  <2> QED BY <2>2, <2>3, <2>4, SizeAssumption
<1>4. s \in Seq(Packets) /\ Len(s) = k /\ \A n \in 1 .. k : s[n] = u[n]
  <2> HIDE DEF u
  <2>1. \A n \in 1 .. k : u[n] \in Packets
    BY <1>3, ElementOfSeq
  <2> QED BY <1>3, <2>1, SubSeqProperties
<1>5. /\ b \o s \in Seq(Packets) /\ Len(b \o s) = Len(b) + k
      /\ \A n \in 1 .. Len(b) + k : (b \o s)[n] = IF n <= Len(b) THEN b[n] ELSE s[n - Len(b)]
  <2> HIDE DEF b, s
  <2> QED BY <1>3, <1>4, ConcatProperties
<1>6. Len(b) \in Nat BY <1>3, LenProperties
<1>7. \A n \in 1 .. Len(b) + k : n > Len(b) => s[n - Len(b)] = u[n - Len(b)]
  <2> HIDE DEF b, s, u
  <2> QED BY <1>3, <1>4, <1>6
<1> QED BY <1>1, <1>2, <1>5, <1>6, <1>7 DEF Filled

LEMMA DrainType ==
    ASSUME TypeOK, NEW s \in Sockets, NEW k \in Nat, k <= Len(up[s]), Drain(s, k)
    PROVE  /\ up' \in [Sockets -> Seq(Packets)]
           /\ \A r \in Sockets \ {s} : up'[r] = up[r]
           /\ Len(up'[s]) = Len(up[s]) - k
           /\ \A n \in 1 .. Len(up'[s]) : up'[s][n] = up[s][n + k]
<1> DEFINE u == up[s]
<1>1. u \in Seq(Packets) /\ Len(u) \in Nat
  <2>1. up \in [Sockets -> Seq(Packets)] BY DEF TypeOK
  <2> QED BY <2>1, LenProperties
<1>2. /\ SubSeq(u, k + 1, Len(u)) \in Seq(Packets)
      /\ Len(SubSeq(u, k + 1, Len(u))) = Len(u) - k
      /\ \A n \in 1 .. Len(u) - k : SubSeq(u, k + 1, Len(u))[n] = u[n + k]
  <2> HIDE DEF u
  <2>1. \A n \in k + 1 .. Len(u) : u[n] \in Packets BY <1>1, ElementOfSeq
  <2> DEFINE r == SubSeq(u, k + 1, Len(u))
  <2>2. k + 1 \in Int /\ Len(u) \in Int BY <1>1
  <2>3. /\ r \in Seq(Packets)
        /\ Len(r) = IF k + 1 <= Len(u) THEN Len(u) - (k + 1) + 1 ELSE 0
        /\ \A n \in 1 .. Len(u) - (k + 1) + 1 : r[n] = u[(k + 1) + n - 1]
    BY <2>1, <2>2, SubSeqProperties
  <2>4. k <= Len(u) BY DEF u
  <2>5. \A n \in 1 .. Len(u) - k : (k + 1) + n - 1 = n + k /\ n \in 1 .. Len(u) - (k + 1) + 1
    BY <1>1
  <2> HIDE DEF r
  <2> QED BY <1>1, <2>3, <2>4, <2>5
<1> QED BY <1>1, <1>2 DEF Drain, TypeOK

(* The entry after a read that completes a packet *)
LEMMA ShiftedType ==
    ASSUME TypeOK, NEW i, NEW k \in 1 .. Room, PacketRead(i, k)
    PROVE  /\ Shifted(i, k) \in Entries
           /\ Shifted(i, k) =
                [table[i] EXCEPT !.ibuf = Shifted(i, k).ibuf, !.heap = "live"]
           /\ Len(Shifted(i, k).ibuf) = Len(table[i].ibuf) + k - Parts
           /\ Packet(i, k) \in Packets
           /\ Packet(i, k) = Filled(i, k)[1]
<1> DEFINE f == Filled(i, k)
<1>1. /\ i \in DOMAIN table /\ table[i] \in Entries
      /\ f \in Seq(Packets) /\ Len(f) = Len(table[i].ibuf) + k
      /\ Len(f) >= Parts /\ Len(f) \in Nat /\ Len(table[i].ibuf) \in Nat
  BY ReadType, LenProperties DEF PacketRead
<1>2. \A n \in Parts + 1 .. Len(f) : f[n] \in Packets
  <2> HIDE DEF f
  <2> QED BY <1>1, SizeAssumption, ElementOfSeq
<1>3. SubSeq(f, Parts + 1, Len(f)) \in Seq(Packets) /\ Len(SubSeq(f, Parts + 1, Len(f))) = Len(f) - Parts
  <2> HIDE DEF f
  <2> QED BY <1>1, <1>2, SizeAssumption, SubSeqProperties
<1>4. f # << >> /\ 1 \in 1 .. Len(f) BY <1>1, SizeAssumption
<1>5. Head(f) \in Packets /\ Head(f) = f[1] 
  <2> HIDE DEF f
  <2> QED BY <1>1, <1>4, HeadTailProperties, ElementOfSeq
<1>6. Packet(i, k) \in Packets /\ Packet(i, k) = f[1] BY <1>5 DEF Packet
<1>7. Shifted(i, k) = [table[i] EXCEPT !.ibuf = SubSeq(f, Parts + 1, Len(f)), !.heap = "live"]
  BY DEF Shifted
<1>8. /\ Shifted(i, k) \in Entries
      /\ Shifted(i, k).ibuf = SubSeq(f, Parts + 1, Len(f))
  <2> HIDE DEF f
  <2> QED BY <1>1, <1>3, <1>7 DEF Entries
<1>9. Len(Shifted(i, k).ibuf) = Len(table[i].ibuf) + k - Parts
  <2> HIDE DEF f
  <2> QED BY <1>1, <1>3, <1>8, SizeAssumption
<1> QED BY <1>6, <1>7, <1>8, <1>9

LEMMA UpdateType ==
    ASSUME TypeOK, NEW i \in DOMAIN table, NEW e \in Entries,
           table' = [table EXCEPT ![i] = e]
    PROVE  /\ table' \in Seq(Entries)
           /\ DOMAIN table' = DOMAIN table
           /\ table'[i] = e
           /\ \A j \in DOMAIN table \ {i} : table'[j] = table[j]
<1>1. table \in Seq(Entries) /\ DOMAIN table = 1 .. Len(table)
  BY LenProperties DEF TypeOK
<1>2. [table EXCEPT ![i] = e] \in Seq(Entries) BY <1>1, ExceptSeq
<1> QED BY <1>1, <1>2

LEMMA ClosingType ==
    ASSUME TypeOK, NEW I \in SUBSET DOMAIN table
    PROVE  Closing(I) \in [Fds -> Sockets \cup {Listener, Free, Leaked}]
BY DEF TypeOK, Closing

LEMMA RemoveType ==
    ASSUME TypeOK, NEW I \in SUBSET DOMAIN table, Remove(I)
    PROVE  /\ table' \in Seq(Entries)
           /\ DOMAIN table' = DOMAIN table
           /\ file' \in [Fds -> Sockets \cup {Listener, Free, Leaked}]
           /\ backlog' \in Seq(Conns)
           /\ \A i \in I : table'[i] = Deleted(table[i])
           /\ \A i \in DOMAIN table \ I : table'[i] = table[i]
<1>1. table \in Seq(Entries) /\ DOMAIN table = 1 .. Len(table) /\ Len(table) \in Nat
  BY LenProperties DEF TypeOK
<1>2. \A i \in DOMAIN table : table[i] \in Entries BY <1>1, ElementOfSeq
<1>3. table' = [i \in DOMAIN table |-> IF i \in I THEN Deleted(table[i]) ELSE table[i]]
  BY DEF Remove
<1>4. table' \in [1 .. Len(table) -> Entries] BY <1>1, <1>2, <1>3, DeletedType
<1>5. table' \in Seq(Entries) BY <1>1, <1>4, SeqDef
<1>6. file' \in [Fds -> Sockets \cup {Listener, Free, Leaked}]
  BY ClosingType DEF Remove
<1>7. backlog' \in Seq(Conns) BY EmptySeq DEF Remove, TypeOK
<1> QED BY <1>3, <1>5, <1>6, <1>7

LEMMA EndsType ==
    ASSUME TypeOK, NEW how \in {"aborted", "killed", "exited", "double free"}, Ends(how)
    PROVE  TypeOK'
<1>1. << >> \in Seq(Conns) BY EmptySeq
<1> QED BY <1>1 DEF TypeOK, Ends, netVars

(* Server steps that leave the other ends alone, but for reading from a     *)
(* connection: the entry i is replaced by e.                                *)
LEMMA HandledType ==
    ASSUME TypeOK, NEW i \in DOMAIN table, NEW e \in Entries,
           table' = [table EXCEPT ![i] = e],
           ready' = ready \ {i},
           wrote' \in BOOLEAN,
           file' \in [Fds -> Sockets \cup {Listener, Free, Leaked}],
           clients' \subseteq Names \cup {Root},
           far' \in [Sockets -> {"none", "open", "fin", "rst", "pipe"}],
           up' \in [Sockets -> Seq(Packets)],
           UNCHANGED <<status, backlog, ask, down, todo, got>>
    PROVE  TypeOK'
<1>1. table' \in Seq(Entries) /\ DOMAIN table' = DOMAIN table BY UpdateType
<1> QED BY <1>1 DEF TypeOK

(* The type of the state after each step of the server *)
LEMMA PollType == ASSUME TypeOK, Poll PROVE TypeOK'
<1>1. CASE Ends("aborted") BY <1>1, EndsType
<1>2. CASE ~ Ends("aborted")
  <2> DEFINE hup == {i \in Polled : HungUp(i)}
  <2>1. /\ Remove(hup)
        /\ ready' = {i \in Polled \ hup : HasEvent(i)}
        /\ UNCHANGED <<wrote, status, clients, netVars>>
    BY <1>2 DEF Poll
  <2>2. hup \in SUBSET DOMAIN table BY DEF Polled
  <2>3. /\ table' \in Seq(Entries) /\ DOMAIN table' = DOMAIN table
        /\ file' \in [Fds -> Sockets \cup {Listener, Free, Leaked}]
        /\ backlog' \in Seq(Conns)
    <3> HIDE DEF hup
    <3> QED BY <2>1, <2>2, RemoveType
  <2>4. ready' \subseteq DOMAIN table BY <2>1 DEF Polled
  <2> HIDE DEF hup
  <2> QED BY <2>1, <2>3, <2>4 DEF TypeOK, netVars
<1> QED BY <1>1, <1>2

LEMMA AcceptType == ASSUME TypeOK, NEW i, Accept(i) PROVE TypeOK'
<1>1. PICK fd \in Fds :
        /\ table' = Append(table, NewEntry("PKT_IN", "REQRD", fd))
        /\ file' = [file EXCEPT ![fd] = Rq(Head(backlog))]
  BY DEF Accept
<1>2. NewEntry("PKT_IN", "REQRD", fd) \in Entries BY NewEntryType DEF Types, States
<1>3. /\ table \in Seq(Entries) /\ DOMAIN table = 1 .. Len(table) /\ Len(table) \in Nat
      /\ backlog \in Seq(Conns) /\ backlog # << >>
  BY LenProperties DEF TypeOK, Accept
<1>4. table' \in Seq(Entries) /\ Len(table') = Len(table) + 1
  BY <1>1, <1>2, <1>3, AppendProperties
<1>5. DOMAIN table' = 1 .. Len(table') BY <1>4, LenProperties
<1>6. ready' \subseteq DOMAIN table'
  <2>1. DOMAIN table \subseteq DOMAIN table' BY <1>3, <1>4, <1>5
  <2> QED BY <2>1 DEF TypeOK, Accept
<1>7. Head(backlog) \in Conns /\ backlog' \in Seq(Conns)
  BY <1>3, HeadTailProperties DEF Accept
<1>8. file' \in [Fds -> Sockets \cup {Listener, Free, Leaked}]
  BY <1>1, <1>7 DEF TypeOK, Rq, Sockets, Legs
<1> QED BY <1>4, <1>6, <1>7, <1>8 DEF TypeOK, Accept, netVars

(* AcceptFails, RdEnd and WrReset delete the entry and nothing else. *)
LEMMA DropType ==
    ASSUME TypeOK, NEW i, Handling(i), Remove({i}), ready' = ready \ {i},
           UNCHANGED <<wrote, status, clients, netVars>>
    PROVE  TypeOK'
<1>1. {i} \in SUBSET DOMAIN table BY DEF Handling, TypeOK
<1> QED BY <1>1, RemoveType DEF TypeOK, netVars

LEMMA ReadStepType ==
    ASSUME TypeOK, NEW i, NEW k \in 1 .. Room, Read(i, k)
    PROVE  TypeOK'
<1>1. /\ i \in DOMAIN table /\ table[i] \in Entries
      /\ Sock(i) \in Sockets /\ ReadOf(i, k) /\ k <= Len(up[Sock(i)])
      /\ Filled(i, k) \in Seq(Packets)
  <2>1. ReadOf(i, k)
    BY DEF Read, RdPartial, RdConnect, RdAnswer, RdForward, RdRefused,
           RdResponse, ForwardRead, PacketRead
  <2> QED BY <2>1, ReadType DEF ReadOf
<1>2. ASSUME Drain(Sock(i), k) PROVE up' \in [Sockets -> Seq(Packets)]
  BY <1>1, <1>2, DrainType
<1>3. Closing({i}) \in [Fds -> Sockets \cup {Listener, Free, Leaked}]
  BY <1>1, ClosingType
<1>4. ASSUME PacketRead(i, k) PROVE Shifted(i, k) \in Entries /\ Packet(i, k) \in Packets
  BY <1>4, ShiftedType
<1>5. CASE RdPartial(i, k)
  <2> DEFINE e == [table[i] EXCEPT !.ibuf = Filled(i, k), !.heap = "live"]
  <2>1. e \in Entries BY <1>1 DEF Entries
  <2>2. table' = [table EXCEPT ![i] = e] BY <1>5 DEF RdPartial
  <2> HIDE DEF e
  <2> QED BY <1>1, <1>2, <1>5, <2>1, <2>2, HandledType DEF RdPartial, TypeOK
<1>6. CASE RdConnect(i, k)
  <2>1. Deleted(Shifted(i, k)) \in Entries BY <1>4, <1>6, DeletedType DEF RdConnect
  <2>2. clients' \subseteq Names \cup {Root}
    <3>1. Packet(i, k).conn \in Conns BY <1>4, <1>6 DEF RdConnect, Packets
    <3> QED BY <1>6, <3>1 DEF RdConnect, TypeOK, Asks
  <2> QED BY <1>1, <1>2, <1>3, <1>6, <2>1, <2>2, HandledType DEF RdConnect, TypeOK
<1>7. ASSUME PacketRead(i, k), Packet(i, k).type = "REQUEST"
      PROVE  \A who \in {"server", "owner"} :
               /\ table[i].obuf \o Chunks(Response(Packet(i, k).conn, who)) \in Seq(Packets)
               /\ table[i].obuf \o Chunks(Packet(i, k)) \in Seq(Packets)
  <2>1. Packet(i, k).conn \in Conns BY <1>4, <1>7 DEF Packets
  <2>2. table[i].obuf \in Seq(Packets) BY <1>1 DEF Entries
  <2> QED BY <1>4, <1>7, <2>1, <2>2, PacketTypes, ChunksType, ConcatProperties
<1>8. CASE RdAnswer(i, k)
  <2> DEFINE c == Packet(i, k).conn
             e == [Shifted(i, k) EXCEPT
                     !.state = "RSPWR", !.out = table[i].in, !.in = NoFd,
                     !.obuf = table[i].obuf \o Chunks(Response(c, "server"))]
  <2>1. PacketRead(i, k) /\ Packet(i, k).type = "REQUEST" BY <1>8 DEF RdAnswer
  <2>2. table[i].obuf \o Chunks(Response(c, "server")) \in Seq(Packets)
    BY <1>7, <2>1
  <2>3. e \in Entries BY <1>1, <1>4, <2>1, <2>2 DEF Entries, States
  <2>4. table' = [table EXCEPT ![i] = e] BY <1>8 DEF RdAnswer
  <2> HIDE DEF e, c
  <2> QED BY <1>1, <1>2, <1>8, <2>3, <2>4, HandledType DEF RdAnswer, TypeOK
<1>9. CASE RdForward(i, k)
  <2>1. PacketRead(i, k) /\ Packet(i, k).type = "REQUEST"
    BY <1>9 DEF RdForward, ForwardRead
  <2>2. PICK fd \in Fds :
          /\ table' = [table EXCEPT ![i] =
                         [Shifted(i, k) EXCEPT
                            !.state = "REQFWD", !.out = fd,
                            !.obuf = table[i].obuf \o Chunks(Packet(i, k))]]
          /\ file' = [file EXCEPT ![fd] = Pr(Packet(i, k).conn)]
    BY <1>9 DEF RdForward
  <2> DEFINE e == [Shifted(i, k) EXCEPT
                     !.state = "REQFWD", !.out = fd,
                     !.obuf = table[i].obuf \o Chunks(Packet(i, k))]
  <2>3. table[i].obuf \o Chunks(Packet(i, k)) \in Seq(Packets) BY <1>7, <2>1
  <2>4. e \in Entries BY <1>4, <2>1, <2>3 DEF Entries, States
  <2>5. Packet(i, k).conn \in Conns BY <1>4, <2>1 DEF Packets
  <2>6. file' \in [Fds -> Sockets \cup {Listener, Free, Leaked}]
    BY <2>2, <2>5 DEF TypeOK, Pr, Sockets, Legs
  <2>7. far' \in [Sockets -> {"none", "open", "fin", "rst", "pipe"}]
    BY <1>9 DEF RdForward, TypeOK
  <2> HIDE DEF e
  <2> QED BY <1>1, <1>2, <1>9, <2>2, <2>4, <2>6, <2>7, HandledType DEF RdForward, TypeOK, e
<1>10. CASE RdRefused(i, k)
  <2> DEFINE d == [Shifted(i, k) EXCEPT !.state = "REQFWD"]
  <2>1. PacketRead(i, k) BY <1>10 DEF RdRefused, ForwardRead
  <2>2. d \in Entries BY <1>4, <2>1 DEF Entries, States
  <2>3. Deleted(d) \in Entries BY <2>2, DeletedType
  <2>4. file' \in [Fds -> Sockets \cup {Listener, Free, Leaked}]
    BY <1>3, <1>10 DEF RdRefused
  <2>5. table' = [table EXCEPT ![i] = Deleted(d)] BY <1>10 DEF RdRefused
  <2> HIDE DEF d
  <2> QED BY <1>1, <1>2, <1>10, <2>3, <2>4, <2>5, HandledType DEF RdRefused, TypeOK
<1>11. CASE RdResponse(i, k)
  <2>1. PacketRead(i, k) BY <1>11 DEF RdResponse
  <2>2. CASE table[i].state # "RSPFWD" BY <1>11, <2>2, EndsType DEF RdResponse
  <2>3. CASE table[i].state = "RSPFWD"
    <3> DEFINE e == [Shifted(i, k) EXCEPT
                       !.state = "RSPWR", !.obuf = table[i].obuf \o Chunks(Packet(i, k))]
    <3>1. table[i].obuf \o Chunks(Packet(i, k)) \in Seq(Packets)
      BY <1>1, <1>4, <2>1, ChunksType, ConcatProperties DEF Entries
    <3>2. e \in Entries BY <1>4, <2>1, <3>1 DEF Entries, States
    <3>3. table' = [table EXCEPT ![i] = e] BY <1>11, <2>3 DEF RdResponse
    <3> HIDE DEF e
    <3> QED BY <1>1, <1>2, <1>11, <2>3, <3>2, <3>3, HandledType DEF RdResponse, TypeOK
  <2> QED BY <2>2, <2>3
<1> QED BY <1>5, <1>6, <1>8, <1>9, <1>10, <1>11 DEF Read

LEMMA WriteStepType ==
    ASSUME TypeOK, NEW i,
           \/ WrChunk(i) \/ WrShort(i) \/ WrReset(i) \/ WrPipe(i)
           \/ WrRequestFin(i) \/ WrResponseFin(i)
    PROVE  TypeOK'
<1>1. i \in DOMAIN table /\ table[i] \in Entries /\ Sock(i) \in Sockets /\ Handling(i)
  <2>1. Writing(i)
    BY DEF WrChunk, WrShort, WrReset, WrPipe, WrRequestFin, WrResponseFin, Written
  <2>2. Handling(i) /\ Sock(i) \in Sockets BY <2>1 DEF Writing
  <2>3. i \in DOMAIN table /\ table \in Seq(Entries) BY <2>2 DEF Handling, TypeOK
  <2> QED BY <2>2, <2>3
<1>2. CASE WrChunk(i)
  <2> DEFINE b == table[i].obuf
             e == [table[i] EXCEPT !.obuf = Tail(b)]
             s == Sock(i)
  <2>1. b \in Seq(Packets) /\ b # << >> BY <1>1, <1>2 DEF Entries, WrChunk
  <2>2. Tail(b) \in Seq(Packets) /\ Head(b) \in Packets
    <3> HIDE DEF b
    <3> QED BY <2>1, HeadTailProperties
  <2>3. e \in Entries BY <1>1, <2>2 DEF Entries
  <2>4. table' = [table EXCEPT ![i] = e] BY <1>2 DEF WrChunk
  <2>5. table' \in Seq(Entries) /\ DOMAIN table' = DOMAIN table
    <3> HIDE DEF e
    <3> QED BY <1>1, <2>3, <2>4, UpdateType
  <2>6. down \in [Sockets -> Seq(Packets)] BY DEF TypeOK
  <2>7. Append(down[s], Head(b)) \in Seq(Packets)
    <3>1. down[s] \in Seq(Packets) BY <1>1, <2>6
    <3> HIDE DEF b, s
    <3> QED BY <2>2, <3>1, AppendProperties
  <2>8. down' \in [Sockets -> Seq(Packets)]
    BY <1>1, <1>2, <2>6, <2>7 DEF WrChunk
  <2> HIDE DEF e, b, s
  <2>9. wrote' \in BOOLEAN BY <1>2, Zenon DEF WrChunk
  <2>10. ready' \subseteq DOMAIN table BY <1>2 DEF WrChunk, TypeOK
  <2> QED BY <1>2, <2>5, <2>8, <2>9, <2>10 DEF WrChunk, TypeOK
<1>3. CASE WrShort(i) BY <1>3 DEF WrShort, TypeOK, netVars
<1>4. CASE WrReset(i) BY <1>1, <1>4, DropType DEF WrReset
<1>5. CASE WrPipe(i) BY <1>5, EndsType DEF WrPipe
<1>6. CASE WrRequestFin(i)
  <2> DEFINE e == [table[i] EXCEPT !.state = "RSPFWD",
                                   !.in = table[i].out, !.out = table[i].in]
  <2>1. e \in Entries BY <1>1 DEF Entries, States
  <2>2. table' = [table EXCEPT ![i] = e] BY <1>6 DEF WrRequestFin
  <2> HIDE DEF e
  <2> QED BY <1>1, <1>6, <2>1, <2>2, HandledType DEF WrRequestFin, TypeOK, netVars
<1>7. CASE WrResponseFin(i)
  <2> DEFINE d == [table[i] EXCEPT !.state = "CLOSED"]
  <2>1. d \in Entries BY <1>1 DEF Entries, States
  <2>2. Deleted(d) \in Entries BY <2>1, DeletedType
  <2>3. table' = [table EXCEPT ![i] = Deleted(d)] BY <1>7 DEF WrResponseFin
  <2>4. Closing({i}) \in [Fds -> Sockets \cup {Listener, Free, Leaked}]
    BY <1>1, ClosingType
  <2> HIDE DEF d
  <2> QED BY <1>1, <1>7, <2>2, <2>3, <2>4, HandledType DEF WrResponseFin, TypeOK, netVars
<1> QED BY <1>2, <1>3, <1>4, <1>5, <1>6, <1>7

LEMMA EnvironmentType ==
    ASSUME TypeOK,
           \/ \E c \in Conns : Dial(c)
           \/ \E s \in Sockets : FarStep(s)
    PROVE  TypeOK'
<1>1. ASSUME NEW c \in Conns, Dial(c) PROVE TypeOK'
  <2>1. backlog' \in Seq(Conns) BY <1>1, AppendProperties DEF Dial, TypeOK
  <2>2. todo' \in [Sockets -> 0 .. Parts]
    <3>1. todo \in [Sockets -> 0 .. Parts] BY DEF TypeOK
    <3>2. Parts \in 0 .. Parts BY SizeAssumption
    <3> QED BY <1>1, <3>1, <3>2 DEF Dial
  <2>3. far' \in [Sockets -> {"none", "open", "fin", "rst", "pipe"}]
    BY <1>1 DEF Dial, TypeOK
  <2> QED BY <1>1, <2>1, <2>2, <2>3 DEF Dial, TypeOK, serverVars
<1>2. ASSUME NEW s \in Sockets, FarSend(s) PROVE TypeOK'
  <2>1. Outgoing(s) \in Packets
    BY PacketTypes DEF Outgoing, Sockets
  <2>2. up' \in [Sockets -> Seq(Packets)]
    <3>1. up[s] \in Seq(Packets) BY <1>2 DEF TypeOK
    <3>2. Append(up[s], Outgoing(s)) \in Seq(Packets) BY <2>1, <3>1, AppendProperties
    <3> QED BY <1>2, <3>2 DEF FarSend, TypeOK
  <2>3. todo' \in [Sockets -> 0 .. Parts]
    <3>1. todo \in [Sockets -> 0 .. Parts] BY DEF TypeOK
    <3>2. todo[s] - 1 \in 0 .. Parts BY <1>2, <3>1, SizeAssumption DEF FarSend
    <3>3. todo' = [todo EXCEPT ![s] = todo[s] - 1] BY <1>2 DEF FarSend
    <3> QED BY <3>1, <3>2, <3>3
  <2> QED BY <1>2, <2>2, <2>3 DEF FarSend, TypeOK, serverVars
<1>3. ASSUME NEW s \in Sockets, FarRecv(s) PROVE TypeOK'
  <2>1. down[s] \in Seq(Packets) /\ down[s] # << >> /\ got[s] \in Seq(Packets)
    BY <1>3 DEF FarRecv, TypeOK
  <2>2. Head(down[s]) \in Packets /\ Tail(down[s]) \in Seq(Packets)
    BY <2>1, HeadTailProperties
  <2>3. Append(got[s], Head(down[s])) \in Seq(Packets)
    BY <2>1, <2>2, AppendProperties
  <2>4. down' \in [Sockets -> Seq(Packets)] /\ got' \in [Sockets -> Seq(Packets)]
    BY <1>3, <2>2, <2>3 DEF FarRecv, TypeOK
  <2>5. todo' \in [Sockets -> 0 .. Parts]
    <3>1. todo \in [Sockets -> 0 .. Parts] BY DEF TypeOK
    <3>2. Parts \in 0 .. Parts BY SizeAssumption
    <3>3. todo' = [todo EXCEPT ![s] = Parts] \/ todo' = todo BY <1>3 DEF FarRecv
    <3> QED BY <3>1, <3>2, <3>3
  <2> QED BY <1>3, <2>4, <2>5 DEF FarRecv, TypeOK, serverVars
<1>4. ASSUME NEW s \in Sockets, FarClose(s) PROVE TypeOK'
  BY <1>4 DEF FarClose, TypeOK, serverVars
<1>5. ASSUME NEW s \in Sockets, FarDies(s) \/ FarDeclines(s) \/ Bounce(s) PROVE TypeOK'
  <2>1. << >> \in Seq(Packets) BY EmptySeq
  <2>2. /\ far' \in [Sockets -> {"none", "open", "fin", "rst", "pipe"}]
        /\ down' \in [Sockets -> Seq(Packets)]
    BY <1>5, <2>1 DEF FarDies, FarDeclines, Bounce, TypeOK
  <2>4. todo' \in [Sockets -> 0 .. Parts]
    <3>1. todo \in [Sockets -> 0 .. Parts] BY DEF TypeOK
    <3>2. 0 \in 0 .. Parts BY SizeAssumption
    <3>3. todo' = [todo EXCEPT ![s] = 0] \/ todo' = todo
      BY <1>5 DEF FarDies, FarDeclines, Bounce
    <3> QED BY <3>1, <3>2, <3>3
  <2>3. UNCHANGED <<serverVars, backlog, ask, up, got>>
    BY <1>5 DEF FarDies, FarDeclines, Bounce
  <2> QED BY <2>2, <2>3, <2>4 DEF TypeOK, serverVars
<1> QED BY <1>1, <1>2, <1>3, <1>4, <1>5 DEF FarStep

LEMMA InitType == Init => TypeOK
<1> SUFFICES ASSUME Init PROVE TypeOK OBVIOUS
<1>1. PICK fd \in Fds :
        /\ table = <<NewEntry("LSTN", "LSTN", fd)>>
        /\ file = [g \in Fds |-> IF g = fd THEN Listener ELSE Free]
  BY DEF Init
<1>2. NewEntry("LSTN", "LSTN", fd) \in Entries BY NewEntryType DEF Types, States
<1>3. table \in Seq(Entries) BY <1>1, <1>2
<1>4. << >> \in Seq(Conns) /\ << >> \in Seq(Packets) BY EmptySeq
<1>5. file \in [Fds -> Sockets \cup {Listener, Free, Leaked}] BY <1>1
<1>6. ask \in [Conns -> Asks] BY ScriptsAssumption DEF Init
<1>7. /\ todo \in [Sockets -> 0 .. Parts]
      /\ far \in [Sockets -> {"none", "open", "fin", "rst", "pipe"}]
  BY SizeAssumption DEF Init
<1>8. /\ up \in [Sockets -> Seq(Packets)] /\ down \in [Sockets -> Seq(Packets)]
      /\ got \in [Sockets -> Seq(Packets)]
  BY <1>4 DEF Init
<1> QED BY <1>3, <1>4, <1>5, <1>6, <1>7, <1>8 DEF Init, TypeOK

LEMMA NextType == TypeOK /\ [Next]_vars => TypeOK'
<1> SUFFICES ASSUME TypeOK, [Next]_vars PROVE TypeOK' OBVIOUS
<1>1. CASE Poll BY <1>1, PollType
<1>2. CASE PollFails BY <1>2, EndsType DEF PollFails
<1>3. ASSUME NEW i \in Slots, Handle(i) PROVE TypeOK'
  <2>1. CASE Accept(i) BY <2>1, AcceptType
  <2>2. CASE AcceptFails(i) BY <2>2, DropType DEF AcceptFails
  <2>3. CASE RdEnd(i) BY <2>3, DropType DEF RdEnd, Reading
  <2>4. CASE \E k \in 1 .. Room : Read(i, k) BY <2>4, ReadStepType
  <2>5. CASE \/ WrChunk(i) \/ WrShort(i) \/ WrReset(i) \/ WrPipe(i)
             \/ WrRequestFin(i) \/ WrResponseFin(i)
    BY <2>5, WriteStepType
  <2> QED BY <1>3, <2>1, <2>2, <2>3, <2>4, <2>5 DEF Handle
<1>4. CASE (\E c \in Conns : Dial(c)) \/ (\E s \in Sockets : FarStep(s))
  BY <1>4, EnvironmentType
<1>5. CASE UNCHANGED vars
  BY <1>5 DEF vars, serverVars, netVars, TypeOK
<1> QED BY <1>1, <1>2, <1>3, <1>4, <1>5 DEF Next, ServerStep, Quiet

(* The types of the state, the bounds of the pending events among them,     *)
(* hold in every state of the server (middfs-sock.h:12-57).                 *)
THEOREM TypeCorrect == Spec => []TypeOK
<1>1. Init => TypeOK BY InitType
<1>2. TypeOK /\ [Next]_vars => TypeOK' BY NextType
<1> QED BY <1>1, <1>2, PTL DEF Spec

-----------------------------------------------------------------------------
(* Sockets, ends and entries *)

LEMMA SocketsDiffer ==
    ASSUME NEW c \in Conns, NEW d \in Conns
    PROVE  /\ Rq(c) \in Sockets /\ Pr(c) \in Sockets
           /\ Rq(c) # Pr(d)
           /\ Rq(c) = Rq(d) => c = d
           /\ Pr(c) = Pr(d) => c = d
           /\ Rq(c) \notin {Listener, Free, Leaked}
           /\ Pr(c) \notin {Listener, Free, Leaked}
<1>1. Rq(c) \in Sockets /\ Pr(c) \in Sockets BY DEF Rq, Pr, Sockets, Legs
<1> QED BY <1>1, FileAssumption DEF Rq, Pr

(* Whatever an entry that is in order refers to is open. *)
LEMMA EndsOpen ==
    ASSUME NEW e, NEW f, NEW u, NEW t, EntryOK(e, f, u, t), NEW fd \in Refs(e)
    PROVE  fd \in Fds /\ f[fd] \notin {Free, Leaked}
<1>1. CASE e.type = "NONE" BY <1>1 DEF EntryOK, Refs
<1>2. CASE e.type = "LSTN" BY <1>2, FileAssumption DEF EntryOK, Refs, At
<1>3. CASE e.type = "PKT_IN"
  <2>1. PICK c \in Conns : Paired(e, c, f) BY <1>3 DEF EntryOK
  <2> QED BY <2>1, SocketsDiffer DEF Paired, Refs, At
<1> QED BY <1>1, <1>2, <1>3 DEF EntryOK

(* The connection of c may yet deliver more than it could before. *)
Grows(c) == Len(up[Rq(c)]) + todo[Rq(c)] < Len(up'[Rq(c)]) + todo'[Rq(c)]

(* What is left to read on a connection is a number. *)
LEMMA LeftNat ==
    ASSUME TypeOK, NEW s \in Sockets
    PROVE  Len(up[s]) \in Nat /\ todo[s] \in Nat /\ up[s] \in Seq(Packets)
<1>1. up[s] \in Seq(Packets) /\ todo[s] \in 0 .. Parts BY DEF TypeOK
<1> QED BY <1>1, SizeAssumption, LenProperties

(* An entry that a step leaves alone stays in order if its descriptors keep *)
(* what they refer to and the connection it reads does not grow.            *)
LEMMA EntryKept ==
    ASSUME TypeOK, TypeOK', NEW e \in Entries, EntryOK(e, file, up, todo),
           \A fd \in Refs(e) : file'[fd] = file[fd],
           \A c \in Conns : Grows(c) => \A fd \in Fds : file[fd] # Rq(c)
    PROVE  EntryOK(e, file', up', todo')
<1>1. CASE e.type = "NONE" BY <1>1 DEF EntryOK
<1>2. CASE e.type = "LSTN"
  <2>1. At(file, e.in, Listener) /\ e.in \in Refs(e)
    BY <1>2, FdsAssumption DEF EntryOK, Refs, At
  <2> QED BY <1>2, <2>1 DEF EntryOK, At
<1>3. CASE e.type = "PKT_IN"
  <2>1. PICK c \in Conns : Paired(e, c, file) /\ ReadOK(e, c, up, todo)
    BY <1>3 DEF EntryOK
  <2>2. \A fd \in {e.in, e.out} : fd \in Fds => file'[fd] = file[fd]
    BY FdsAssumption DEF Refs
  <2>3. Paired(e, c, file')
    BY <2>1, <2>2 DEF Paired, At
  <2>4. ReadOK(e, c, up', todo')
    <3>1. CASE e.state = "REQRD"
      <4>1. ~ Grows(c) BY <2>1, <3>1 DEF Paired, At
      <4>2. Rq(c) \in Sockets BY SocketsDiffer
      <4>3. /\ Len(up[Rq(c)]) \in Nat /\ todo[Rq(c)] \in Nat
            /\ Len(up'[Rq(c)]) \in Nat /\ todo'[Rq(c)] \in Nat
        <5>1. Len(up[Rq(c)]) \in Nat /\ todo[Rq(c)] \in Nat BY <4>2, LeftNat
        <5>2. up'[Rq(c)] \in Seq(Packets) /\ todo'[Rq(c)] \in 0 .. Parts
          BY <4>2 DEF TypeOK
        <5> QED BY <5>1, <5>2, SizeAssumption, LenProperties
      <4>4. Len(e.ibuf) \in Nat BY LenProperties DEF Entries
      <4>5. /\ ReqChunks(e.ibuf, c)
            /\ Len(e.ibuf) + Len(up[Rq(c)]) + todo[Rq(c)] <= Parts
        BY <2>1, <3>1 DEF ReadOK
      <4>6. Len(e.ibuf) + Len(up'[Rq(c)]) + todo'[Rq(c)] <= Parts
        <5> DEFINE a == Len(e.ibuf)
                   u == Len(up[Rq(c)])
                   v == Len(up'[Rq(c)])
                   t == todo[Rq(c)]
                   w == todo'[Rq(c)]
        <5>1. ~ (u + t < v + w) BY <4>1 DEF Grows
        <5>2. a \in Nat /\ u \in Nat /\ v \in Nat /\ t \in Nat /\ w \in Nat
          BY <4>3, <4>4
        <5>3. a + u + t <= Parts BY <4>5
        <5> HIDE DEF a, u, v, t, w
        <5>4. a + v + w <= Parts BY <5>1, <5>2, <5>3, SizeAssumption
        <5> QED BY <5>4 DEF a, v, w
      <4> QED BY <3>1, <4>5, <4>6 DEF ReadOK
    <3>2. CASE e.state # "REQRD" BY <2>1, <3>2 DEF ReadOK
    <3> QED BY <3>1, <3>2
  <2> QED BY <1>3, <2>3, <2>4 DEF EntryOK
<1> QED BY <1>1, <1>2, <1>3 DEF EntryOK

-----------------------------------------------------------------------------
(* The invariant of a server that runs, and its parts *)

Running(tb, f, u, t) == TableOK(tb, f, u, t) /\ RefsOnce(tb) /\ FilesOwned(tb, f)

LEMMA TableEntries ==
    ASSUME TypeOK, NEW i \in DOMAIN table
    PROVE  table[i] \in Entries
<1>1. table \in Seq(Entries) BY DEF TypeOK
<1> QED BY <1>1

(* The other ends act: the table and the descriptors stay. *)
LEMMA EnvironmentRunning ==
    ASSUME TypeOK, TypeOK', Running(table, file, up, todo),
           UNCHANGED <<table, file>>,
           \A c \in Conns : Grows(c) => \A fd \in Fds : file[fd] # Rq(c)
    PROVE  Running(table', file', up', todo')
<1>1. \A i \in DOMAIN table : EntryOK(table[i], file', up', todo')
  BY EntryKept, TableEntries DEF Running, TableOK
<1> QED BY <1>1 DEF Running, TableOK

(* A handler changes one entry and no descriptor: RdPartial, RdAnswer,      *)
(* RdResponse, WrChunk, WrRequestFin.                                       *)
LEMMA RewireRunning ==
    ASSUME TypeOK, TypeOK', Running(table, file, up, todo),
           NEW i \in DOMAIN table, NEW e \in Entries,
           table' = [table EXCEPT ![i] = e], file' = file,
           Refs(e) = Refs(table[i]),
           EntryOK(e, file, up', todo'),
           \A c \in Conns : ~ Grows(c)
    PROVE  Running(table', file', up', todo')
<1>1. /\ DOMAIN table' = DOMAIN table /\ table'[i] = e
      /\ \A j \in DOMAIN table \ {i} : table'[j] = table[j]
  BY UpdateType
<1>2. \A j \in DOMAIN table : EntryOK(table'[j], file', up', todo')
  BY <1>1, EntryKept, TableEntries DEF Running, TableOK
<1>3. \A j \in DOMAIN table : Refs(table'[j]) = Refs(table[j])
  BY <1>1
<1> QED BY <1>1, <1>2, <1>3 DEF Running, TableOK, RefsOnce, FilesOwned

(* Entries are deleted and their descriptors closed; one that was free may  *)
(* be leaked.                                                               *)
LEMMA DropRunning ==
    ASSUME TypeOK, TypeOK', Running(table, file, up, todo),
           NEW I \in SUBSET DOMAIN table,
           DOMAIN table' = DOMAIN table,
           \A i \in I : /\ table'[i].type = "NONE"
                        /\ table'[i].in = NoFd /\ table'[i].out = NoFd,
           \A i \in DOMAIN table \ I : table'[i] = table[i],
           \A fd \in Fds : \/ file'[fd] = Closing(I)[fd]
                           \/ file[fd] = Free /\ file'[fd] = Leaked,
           \A c \in Conns : ~ Grows(c)
    PROVE  Running(table', file', up', todo')
<1>1. \A i \in DOMAIN table : EntryOK(table[i], file, up, todo)
  BY DEF Running, TableOK
<1>2. ASSUME NEW i \in DOMAIN table \ I, NEW fd \in Refs(table[i])
      PROVE  file'[fd] = file[fd]
  <2>1. fd \in Fds /\ file[fd] # Free BY <1>1, EndsOpen
  <2>2. \A j \in I : fd \notin Refs(table[j])
    BY <1>2 DEF Running, RefsOnce
  <2>3. fd # NoFd BY <1>2 DEF Refs
  <2>4. ~ \E j \in I : fd \in {table[j].in, table[j].out} BY <2>2, <2>3 DEF Refs
  <2> QED BY <2>1, <2>4 DEF Closing
<1>3. \A i \in DOMAIN table \ I : EntryOK(table'[i], file', up', todo')
  BY <1>1, <1>2, EntryKept, TableEntries
<1>4. \A i \in I : EntryOK(table'[i], file', up', todo') BY DEF EntryOK
<1>5. \A i \in DOMAIN table' : Refs(table'[i]) = IF i \in I THEN {} ELSE Refs(table[i])
  BY DEF Refs
<1>6. RefsOnce(table') BY <1>5 DEF Running, RefsOnce
<1>7. FilesOwned(table', file')
  <2> SUFFICES ASSUME NEW fd \in Fds, file'[fd] \notin {Free, Leaked}
               PROVE  \E i \in DOMAIN table' : fd \in Refs(table'[i])
    BY DEF FilesOwned
  <2>1. file'[fd] = file[fd] /\ ~ \E i \in I : fd \in {table[i].in, table[i].out}
    BY DEF Closing
  <2>2. PICK i \in DOMAIN table : fd \in Refs(table[i])
    BY <2>1 DEF Running, FilesOwned
  <2>3. i \notin I BY <2>1, <2>2 DEF Refs
  <2> QED BY <1>5, <2>2, <2>3
<1> QED BY <1>3, <1>4, <1>6, <1>7 DEF Running, TableOK
-----------------------------------------------------------------------------
(* Descriptors, waiting connections and streams *)

(* Descriptors are closed or leaked, waiting connections dropped. *)
LEMMA FilesKept ==
    ASSUME FilesOnce(file), BacklogOK(backlog, file, far),
           \A fd \in Fds : file'[fd] = file[fd] \/ file'[fd] \in {Free, Leaked},
           backlog' = backlog \/ backlog' = << >>,
           \A c \in Conns : far'[Rq(c)] = "none" => far[Rq(c)] = "none",
           TypeOK
    PROVE  FilesOnce(file') /\ BacklogOK(backlog', file', far')
<1>1. FilesOnce(file') BY DEF FilesOnce
<1>2. \A c \in Conns : Rq(c) \notin {Free, Leaked} BY SocketsDiffer
<1>3. \A n \in 1 .. Len(backlog) : backlog[n] \in Conns
  <2>1. backlog \in Seq(Conns) BY DEF TypeOK
  <2> QED BY <2>1, ElementOfSeq
<1>4. CASE backlog' = backlog BY <1>1, <1>2, <1>3, <1>4 DEF BacklogOK
<1>5. CASE backlog' = << >>
  <2>1. Len(backlog') = 0 BY <1>5
  <2>2. 1 .. Len(backlog') = {} BY <2>1
  <2> QED BY <1>1, <1>2, <2>2 DEF BacklogOK
<1> QED BY <1>1, <1>4, <1>5

(* Only the ends of a connection add to it. *)
LEMMA StreamsKept ==
    ASSUME TypeOK, StreamsOK(up, todo, far), up' = up, todo' = todo,
           \A c \in Conns : far'[Rq(c)] = "none" => far[Rq(c)] = "none"
    PROVE  /\ StreamsOK(up', todo', far')
           /\ \A c \in Conns : ~ Grows(c)
<1>1. StreamsOK(up', todo', far') BY DEF StreamsOK
<1>2. ASSUME NEW c \in Conns PROVE ~ Grows(c)
  <2>1. Rq(c) \in Sockets BY SocketsDiffer
  <2>2. Len(up[Rq(c)]) \in Nat /\ todo[Rq(c)] \in Nat BY <2>1, LeftNat
  <2> DEFINE a == Len(up[Rq(c)]) + todo[Rq(c)]
  <2>3. a \in Nat BY <2>2
  <2>4. Grows(c) => a < a BY DEF Grows
  <2> HIDE DEF a
  <2> QED BY <2>3, <2>4
<1> QED BY <1>1, <1>2

LEMMA StreamsDrained ==
    ASSUME TypeOK, StreamsOK(up, todo, far),
           NEW s \in Sockets, NEW k \in Nat, k <= Len(up[s]), Drain(s, k), todo' = todo,
           \A c \in Conns : far'[Rq(c)] = "none" => far[Rq(c)] = "none"
    PROVE  /\ StreamsOK(up', todo', far')
           /\ \A c \in Conns : ~ Grows(c)
<1>1. /\ \A r \in Sockets \ {s} : up'[r] = up[r]
      /\ Len(up'[s]) = Len(up[s]) - k
      /\ \A n \in 1 .. Len(up'[s]) : up'[s][n] = up[s][n + k]
  BY DrainType
<1>2. ASSUME NEW r \in Sockets
      PROVE  /\ Len(up'[r]) \in Nat /\ Len(up'[r]) <= Len(up[r])
             /\ \A n \in 1 .. Len(up'[r]) :
                  \E m \in 1 .. Len(up[r]) : up'[r][n] = up[r][m]
  <2>1. Len(up[r]) \in Nat BY LeftNat
  <2>2. CASE r # s
    <3>1. up'[r] = up[r] BY <1>1, <2>2
    <3> QED BY <2>1, <3>1
  <2>3. CASE r = s
    <3> DEFINE a == Len(up[s])
               b == Len(up'[s])
    <3>1. a \in Nat /\ b = a - k /\ k <= a BY <1>1, <2>1, <2>3
    <3> HIDE DEF a, b
    <3>2. b \in Nat /\ b <= a /\ \A n \in 1 .. b : n + k \in 1 .. a BY <3>1
    <3> QED BY <1>1, <2>3, <3>2 DEF a, b
  <2> QED BY <2>2, <2>3
<1>3. ASSUME NEW c \in Conns
      PROVE  /\ ReqChunks(up'[Rq(c)], c) /\ RspChunks(up'[Pr(c)])
             /\ Len(up'[Rq(c)]) + todo'[Rq(c)] <= Parts
             /\ far'[Rq(c)] = "none" => Len(up'[Rq(c)]) = 0
             /\ ~ Grows(c)
  <2>1. Rq(c) \in Sockets /\ Pr(c) \in Sockets BY SocketsDiffer
  <2>2. ReqChunks(up[Rq(c)], c) /\ RspChunks(up[Pr(c)])
    BY DEF StreamsOK
  <2>3. ReqChunks(up'[Rq(c)], c) BY <1>2, <2>1, <2>2 DEF ReqChunks
  <2>4. RspChunks(up'[Pr(c)])
    <3> DEFINE r == Pr(c)
    <3> HIDE DEF r
    <3>1. r \in Sockets /\ RspChunks(up[r]) BY <2>1, <2>2 DEF r
    <3>2. RspChunks(up'[r]) BY <1>2, <3>1 DEF RspChunks
    <3> QED BY <3>2 DEF r
  <2> DEFINE a == Len(up[Rq(c)])
             b == Len(up'[Rq(c)])
             t == todo[Rq(c)]
  <2>5. a \in Nat /\ t \in Nat /\ b \in Nat /\ b <= a
    BY <1>2, <2>1, LeftNat
  <2>6. a + t <= Parts /\ (far[Rq(c)] = "none" => a = 0) BY DEF StreamsOK
  <2>7. Grows(c) => a + t < b + t BY DEF Grows
  <2> HIDE DEF a, b, t
  <2>8. b + t <= Parts /\ ~ (a + t < b + t) /\ (a = 0 => b = 0)
    BY <2>5, <2>6, SizeAssumption
  <2> QED BY <2>3, <2>4, <2>6, <2>7, <2>8 DEF b, t
<1> QED BY <1>3 DEF StreamsOK

(* What a read leaves in the buffer is of the kind the state waits for. *)
LEMMA ReadKind ==
    ASSUME TypeOK, TableOK(table, file, up, todo), StreamsOK(up, todo, far),
           NEW i, NEW k \in 1 .. Room, ReadOf(i, k)
    PROVE  \E c \in Conns :
             /\ Paired(table[i], c, file)
             /\ \/ /\ table[i].state = "REQRD" /\ Sock(i) = Rq(c)
                   /\ ReqChunks(Filled(i, k), c)
                   /\ Len(Filled(i, k)) + (Len(up[Rq(c)]) - k) + todo[Rq(c)] <= Parts
                \/ /\ table[i].state = "RSPFWD" /\ Sock(i) = Pr(c)
                   /\ RspChunks(Filled(i, k))
<1>1. /\ i \in DOMAIN table /\ table[i] \in Entries /\ table[i].type = "PKT_IN"
      /\ Sock(i) \in Sockets
      /\ Len(Filled(i, k)) = Len(table[i].ibuf) + k
      /\ Len(table[i].ibuf) \in Nat
      /\ \A n \in 1 .. Len(Filled(i, k)) :
           Filled(i, k)[n] = IF n <= Len(table[i].ibuf) THEN table[i].ibuf[n]
                             ELSE up[Sock(i)][n - Len(table[i].ibuf)]
  BY ReadType
<1>2. table[i].state \in {"REQRD", "RSPFWD"} /\ k <= Len(up[Sock(i)])
  BY DEF ReadOf, Reading
<1>3. PICK c \in Conns : Paired(table[i], c, file) /\ ReadOK(table[i], c, up, todo)
  BY <1>1 DEF TableOK, EntryOK
<1>4. \A n \in 1 .. Len(Filled(i, k)) :
        \/ n \in 1 .. Len(table[i].ibuf) /\ Filled(i, k)[n] = table[i].ibuf[n]
        \/ \E m \in 1 .. Len(up[Sock(i)]) : Filled(i, k)[n] = up[Sock(i)][m]
  <2> DEFINE a == Len(table[i].ibuf)
             b == Len(up[Sock(i)])
  <2>1. a \in Nat /\ b \in Nat /\ k <= b /\ k \in Nat
    BY <1>1, <1>2, LeftNat, SizeAssumption
  <2> HIDE DEF a, b
  <2>2. \A n \in 1 .. a + k : n \in 1 .. a \/ (~ (n <= a) /\ n - a \in 1 .. b)
    BY <2>1
  <2>3. /\ Len(Filled(i, k)) = a + k
        /\ \A n \in 1 .. a + k :
             Filled(i, k)[n] = IF n <= a THEN table[i].ibuf[n] ELSE up[Sock(i)][n - a]
    BY <1>1 DEF a
  <2>4. ASSUME NEW n \in 1 .. a + k
        PROVE  \/ n \in 1 .. a /\ Filled(i, k)[n] = table[i].ibuf[n]
               \/ \E m \in 1 .. b : Filled(i, k)[n] = up[Sock(i)][m]
    <3>1. CASE n \in 1 .. a
      <4>1. n <= a BY <2>1, <3>1
      <4> QED BY <2>3, <3>1, <4>1
    <3>2. CASE ~ (n <= a) /\ n - a \in 1 .. b BY <2>3, <3>2
    <3> QED BY <2>2, <3>1, <3>2
  <2> QED BY <2>3, <2>4 DEF a, b
<1>5. CASE table[i].state = "REQRD"
  <2>1. Sock(i) = Rq(c) BY <1>3, <1>5 DEF Paired, At, Sock, PolledFd, ReadStates
  <2>2. /\ ReqChunks(table[i].ibuf, c)
        /\ Len(table[i].ibuf) + Len(up[Rq(c)]) + todo[Rq(c)] <= Parts
    BY <1>3, <1>5 DEF ReadOK
  <2>3. ReqChunks(up[Rq(c)], c) BY DEF StreamsOK
  <2>4. ReqChunks(Filled(i, k), c) BY <1>4, <2>1, <2>2, <2>3 DEF ReqChunks
  <2> DEFINE a == Len(table[i].ibuf)
             b == Len(up[Rq(c)])
             t == todo[Rq(c)]
  <2>5. a \in Nat /\ b \in Nat /\ t \in Nat
    BY <1>1, <2>1, LeftNat
  <2>6. a + b + t <= Parts BY <2>2
  <2> HIDE DEF a, b, t
  <2>7. (a + k) + (b - k) + t <= Parts BY <2>5, <2>6, SizeAssumption
  <2>8. Len(Filled(i, k)) = a + k BY <1>1 DEF a
  <2> QED BY <1>3, <1>5, <2>1, <2>4, <2>7, <2>8 DEF b, t
<1>6. CASE table[i].state = "RSPFWD"
  <2>1. Sock(i) = Pr(c) BY <1>3, <1>6 DEF Paired, At, Sock, PolledFd, ReadStates
  <2>2. RspChunks(table[i].ibuf) BY <1>3, <1>6 DEF ReadOK
  <2>3. RspChunks(up[Pr(c)]) BY DEF StreamsOK
  <2> QED BY <1>3, <1>4, <1>6, <2>1, <2>2, <2>3 DEF RspChunks
<1> QED BY <1>2, <1>5, <1>6

(* A packet read by an entry is the request of its own caller, and the      *)
(* caller sent nothing after it; or it is an answer.                        *)
LEMMA PacketKind ==
    ASSUME TypeOK, TableOK(table, file, up, todo), StreamsOK(up, todo, far),
           NEW i, NEW k \in 1 .. Room, PacketRead(i, k)
    PROVE  \E c \in Conns :
             /\ Paired(table[i], c, file)
             /\ \/ /\ table[i].state = "REQRD"
                   /\ Packet(i, k).type # "RESPONSE" /\ Packet(i, k).conn = c
                   /\ Shifted(i, k).ibuf = << >>
                \/ /\ table[i].state = "RSPFWD" /\ Packet(i, k).type = "RESPONSE"
<1>0. ReadOf(i, k) BY DEF PacketRead
<1>1. PICK c \in Conns :
        /\ Paired(table[i], c, file)
        /\ \/ /\ table[i].state = "REQRD" /\ Sock(i) = Rq(c)
              /\ ReqChunks(Filled(i, k), c)
              /\ Len(Filled(i, k)) + (Len(up[Rq(c)]) - k) + todo[Rq(c)] <= Parts
           \/ /\ table[i].state = "RSPFWD" /\ Sock(i) = Pr(c)
              /\ RspChunks(Filled(i, k))
  BY <1>0, ReadKind
<1>2. /\ Shifted(i, k) \in Entries
      /\ Len(Shifted(i, k).ibuf) = Len(table[i].ibuf) + k - Parts
      /\ Packet(i, k) = Filled(i, k)[1]
  BY ShiftedType
<1>3. /\ Len(Filled(i, k)) = Len(table[i].ibuf) + k /\ Len(table[i].ibuf) \in Nat
      /\ Len(Filled(i, k)) >= Parts
  BY <1>0, ReadType DEF PacketRead
<1>4. 1 \in 1 .. Len(Filled(i, k)) BY <1>3, SizeAssumption
<1>5. CASE table[i].state = "REQRD"
  <2>1. /\ Sock(i) = Rq(c) /\ ReqChunks(Filled(i, k), c)
        /\ Len(Filled(i, k)) + (Len(up[Rq(c)]) - k) + todo[Rq(c)] <= Parts
    BY <1>1, <1>5
  <2>2. Packet(i, k).type # "RESPONSE" /\ Packet(i, k).conn = c
    BY <1>2, <1>4, <2>1 DEF ReqChunks
  <2>3. Len(up[Rq(c)]) \in Nat /\ todo[Rq(c)] \in Nat /\ k <= Len(up[Rq(c)])
    BY <1>0, <2>1, SocketsDiffer, LeftNat DEF ReadOf
  <2>4. Len(Shifted(i, k).ibuf) = 0
    <3> DEFINE a == Len(table[i].ibuf)
               b == Len(up[Rq(c)])
               t == todo[Rq(c)]
               r == Len(Shifted(i, k).ibuf)
    <3>1. /\ a \in Nat /\ b \in Nat /\ t \in Nat /\ k <= b
          /\ (a + k) + (b - k) + t <= Parts /\ a + k >= Parts
      BY <1>3, <2>1, <2>3
    <3>2. r = a + k - Parts BY <1>2
    <3> HIDE DEF a, b, t, r
    <3>3. r = 0 BY <3>1, <3>2, SizeAssumption
    <3> QED BY <3>3 DEF r
  <2>5. Shifted(i, k).ibuf \in Seq(Packets) BY <1>2 DEF Entries
  <2> QED BY <1>1, <1>5, <2>2, <2>4, <2>5, EmptySeq
<1>6. CASE table[i].state = "RSPFWD"
  <2>1. RspChunks(Filled(i, k)) BY <1>1, <1>6
  <2> QED BY <1>1, <1>2, <1>4, <1>6, <2>1 DEF RspChunks
<1> QED BY <1>1, <1>5, <1>6

-----------------------------------------------------------------------------
(* New descriptors *)

LEMMA NewDescriptor ==
    ASSUME Running(table, file, up, todo), NEW fd \in Fds, file[fd] = Free,
           NEW s, file' = [file EXCEPT ![fd] = s]
    PROVE  \A j \in DOMAIN table :
             /\ fd \notin Refs(table[j])
             /\ \A g \in Refs(table[j]) : file'[g] = file[g]
<1> SUFFICES ASSUME NEW j \in DOMAIN table
             PROVE  /\ fd \notin Refs(table[j])
                    /\ \A g \in Refs(table[j]) : file'[g] = file[g]
  OBVIOUS
<1>1. EntryOK(table[j], file, up, todo) BY DEF Running, TableOK
<1>2. \A g \in Refs(table[j]) : g \in Fds /\ file[g] # Free BY <1>1, EndsOpen
<1> QED BY <1>2

LEMMA NewFile ==
    ASSUME TypeOK, FilesOnce(file), NEW fd \in Fds, NEW s \in Sockets,
           \A g \in Fds : file[g] # s, file' = [file EXCEPT ![fd] = s]
    PROVE  FilesOnce(file')
<1>1. file'[fd] = s /\ \A g \in Fds \ {fd} : file'[g] = file[g] BY DEF TypeOK
<1> QED BY <1>1 DEF FilesOnce

(* While an entry reads the request of c nobody has opened its peer leg. *)
LEMMA NoPeerYet ==
    ASSUME Running(table, file, up, todo), FilesOnce(file),
           NEW i \in DOMAIN table, NEW c \in Conns,
           table[i].state = "REQRD", Paired(table[i], c, file)
    PROVE  \A g \in Fds : file[g] # Pr(c)
<1> SUFFICES ASSUME NEW g \in Fds, file[g] = Pr(c) PROVE FALSE OBVIOUS
<1>1. PICK j \in DOMAIN table : g \in Refs(table[j])
  BY SocketsDiffer DEF Running, FilesOwned
<1>2. EntryOK(table[j], file, up, todo) BY DEF Running, TableOK
<1>3. table[j].type = "PKT_IN"
  BY <1>1, <1>2, SocketsDiffer, FileAssumption DEF EntryOK, Refs, At
<1>4. PICK d \in Conns : Paired(table[j], d, file) BY <1>2, <1>3 DEF EntryOK
<1>5. table[j].state # "REQRD" /\ d = c
  BY <1>1, <1>4, SocketsDiffer DEF Paired, Refs, At
<1>6. PICK h \in Fds : h \in Refs(table[j]) /\ file[h] = Rq(c)
  <2>1. \E h \in {table[j].in, table[j].out} : At(file, h, Rq(c))
    BY <1>4, <1>5 DEF Paired
  <2> QED BY <2>1, FdsAssumption DEF Refs, At
<1>7. table[i].in \in Fds /\ table[i].in \in Refs(table[i]) /\ file[table[i].in] = Rq(c)
  BY SocketsDiffer, FdsAssumption DEF Paired, Refs, At
<1>8. h = table[i].in BY <1>6, <1>7, SocketsDiffer DEF FilesOnce
<1> QED BY <1>5, <1>6, <1>7, <1>8 DEF Running, RefsOnce

-----------------------------------------------------------------------------
(* Every step preserves the invariant. *)

LEMMA EndsInv ==
    ASSUME IInv, TypeOK', NEW how \in {"killed", "exited", "double free"}, Ends(how)
    PROVE  IInv'
<1>1. TypeOK /\ FilesOnce(file) /\ BacklogOK(backlog, file, far) /\ StreamsOK(up, todo, far)
  BY DEF IInv
<1>2. /\ \A fd \in Fds : file'[fd] = Free
      /\ backlog' = << >> /\ status' = how
      /\ up' = up /\ todo' = todo /\ far' = far
  BY DEF Ends, netVars
<1>3. FilesOnce(file') /\ BacklogOK(backlog', file', far') BY <1>1, <1>2, FilesKept
<1>4. StreamsOK(up', todo', far') BY <1>1, <1>2, StreamsKept
<1> QED BY <1>2, <1>3, <1>4 DEF IInv, NoAbort, Running

(* Poll, AcceptFails, RdEnd, WrReset *)
LEMMA RemoveInv ==
    ASSUME IInv, TypeOK', status = "run", NEW I \in SUBSET DOMAIN table, Remove(I),
           UNCHANGED <<status, netVars>>
    PROVE  IInv'
<1>1. /\ TypeOK /\ Running(table, file, up, todo) /\ FilesOnce(file)
      /\ BacklogOK(backlog, file, far) /\ StreamsOK(up, todo, far) /\ NoAbort
  BY DEF IInv, Running
<1>2. up' = up /\ todo' = todo /\ far' = far BY DEF netVars
<1>3. file' = Closing(I) /\ (backlog' = backlog \/ backlog' = << >>) BY DEF Remove
<1>4. \A fd \in Fds : file'[fd] = file[fd] \/ file'[fd] \in {Free, Leaked}
  BY <1>3 DEF Closing
<1>5. FilesOnce(file') /\ BacklogOK(backlog', file', far')
  BY <1>1, <1>2, <1>3, <1>4, FilesKept
<1>6. StreamsOK(up', todo', far') /\ \A c \in Conns : ~ Grows(c)
  BY <1>1, <1>2, StreamsKept
<1>7. /\ DOMAIN table' = DOMAIN table
      /\ \A i \in I : table'[i] = Deleted(table[i])
      /\ \A i \in DOMAIN table \ I : table'[i] = table[i]
  BY <1>1, RemoveType
<1>8. \A i \in I : /\ table'[i].type = "NONE"
                   /\ table'[i].in = NoFd /\ table'[i].out = NoFd
  BY <1>1, <1>7, TableEntries, DeletedType
<1>9. Running(table', file', up', todo')
  BY <1>1, <1>3, <1>6, <1>7, <1>8, DropRunning
<1> QED BY <1>1, <1>5, <1>6, <1>9 DEF IInv, NoAbort, Running

LEMMA PollInv == ASSUME IInv, TypeOK', Poll PROVE IInv'
<1>1. status = "run" /\ TypeOK /\ TableOK(table, file, up, todo)
  BY DEF Poll, Idle, IInv
<1>2. ASSUME NEW i \in Polled PROVE ~ BadDescriptor(i)
  <2>1. /\ i \in DOMAIN table /\ table[i].type # "NONE"
        /\ table[i].state \in ReadStates \cup WriteStates
    BY DEF Polled, IsPolled
  <2>2. EntryOK(table[i], file, up, todo) BY <1>1, <2>1 DEF TableOK
  <2>3. PolledFd(table[i]) \in Refs(table[i])
    <3>1. CASE table[i].type = "LSTN"
      BY <2>2, <3>1, FdsAssumption DEF EntryOK, PolledFd, ReadStates, Refs, At
    <3>2. CASE table[i].type = "PKT_IN"
      <4>1. PICK c \in Conns : Paired(table[i], c, file) BY <2>2, <3>2 DEF EntryOK
      <4> QED BY <2>1, <4>1, FdsAssumption DEF Paired, PolledFd, ReadStates, Refs, At
    <3> QED BY <2>1, <2>2, <3>1, <3>2 DEF EntryOK
  <2>4. PolledFd(table[i]) \in Fds /\ Sock(i) \notin {Free, Leaked}
    BY <2>2, <2>3, EndsOpen DEF Sock
  <2> QED BY <2>3, <2>4 DEF BadDescriptor, Refs
<1> DEFINE hup == {i \in Polled : HungUp(i)}
<1>3. Remove(hup) /\ UNCHANGED <<status, netVars>> BY <1>2 DEF Poll
<1>4. hup \in SUBSET DOMAIN table BY DEF Polled
<1> HIDE DEF hup
<1> QED BY <1>1, <1>3, <1>4, RemoveInv

LEMMA AcceptInv == ASSUME IInv, TypeOK', NEW i, Accept(i) PROVE IInv'
<1>1. /\ TypeOK /\ Running(table, file, up, todo) /\ FilesOnce(file) /\ NoAbort
      /\ BacklogOK(backlog, file, far) /\ StreamsOK(up, todo, far) /\ status = "run"
  BY DEF IInv, Running, Accept, Handling
<1>2. up' = up /\ todo' = todo /\ far' = far /\ status' = status BY DEF Accept, netVars
<1> DEFINE b == backlog
           c == Head(backlog)
<1>3. PICK fd \in Fds :
        /\ file[fd] = Free
        /\ table' = Append(table, NewEntry("PKT_IN", "REQRD", fd))
        /\ file' = [file EXCEPT ![fd] = Rq(c)]
  BY DEF Accept, LowestFree
<1>4. /\ b \in Seq(Conns) /\ b # << >> /\ Len(b) \in Nat /\ Len(b) >= 1
      /\ c \in Conns /\ c = b[1]
      /\ backlog' = Tail(b) /\ Len(backlog') = Len(b) - 1
      /\ \A n \in 1 .. Len(b) - 1 : backlog'[n] = b[n + 1]
  <2>1. b \in Seq(Conns) /\ b # << >> /\ backlog' = Tail(b) BY <1>1 DEF TypeOK, Accept
  <2> HIDE DEF b
  <2>2. Len(b) \in Nat /\ Len(b) >= 1 BY <2>1, LenProperties, EmptySeq
  <2>3. Head(b) \in Conns /\ Head(b) = b[1] BY <2>1, <2>2, HeadTailProperties, ElementOfSeq
  <2>4. Len(Tail(b)) = Len(b) - 1 /\ \A n \in 1 .. Len(Tail(b)) : Tail(b)[n] = b[n + 1]
    BY <2>1, HeadTailProperties
  <2> QED BY <2>1, <2>2, <2>3, <2>4 DEF b
<1> HIDE DEF b, c
<1>5. /\ \A m, n \in 1 .. Len(b) : b[m] = b[n] => m = n
      /\ \A n \in 1 .. Len(b) :
           far[Rq(b[n])] # "none" /\ \A g \in Fds : file[g] # Rq(b[n])
      /\ \A g \in Fds, d \in Conns : file[g] = Rq(d) => far[Rq(d)] # "none"
  BY <1>1 DEF BacklogOK, b
<1>6. 1 \in 1 .. Len(b) BY <1>4
<1>7. \A g \in Fds : file[g] # Rq(c) BY <1>4, <1>5, <1>6
<1>8. file'[fd] = Rq(c) /\ \A g \in Fds \ {fd} : file'[g] = file[g]
  BY <1>1, <1>3 DEF TypeOK
<1>9. FilesOnce(file') BY <1>1, <1>3, <1>4, <1>7, SocketsDiffer, NewFile
<1>10. BacklogOK(backlog', file', far')
  <2>1. \A n \in 1 .. Len(backlog') :
          n + 1 \in 1 .. Len(b) /\ n + 1 # 1 /\ backlog'[n] = b[n + 1]
    BY <1>4
  <2>2. \A n \in 1 .. Len(b) : b[n] \in Conns BY <1>4, ElementOfSeq
  <2>3. \A m, n \in 1 .. Len(backlog') : backlog'[m] = backlog'[n] => m = n
    <3> SUFFICES ASSUME NEW m \in 1 .. Len(backlog'), NEW n \in 1 .. Len(backlog'),
                        backlog'[m] = backlog'[n]
                 PROVE  m = n
      OBVIOUS
    <3>1. m + 1 = n + 1 BY <1>5, <2>1
    <3> QED BY <3>1
  <2>4. ASSUME NEW n \in 1 .. Len(backlog')
        PROVE  far'[Rq(backlog'[n])] # "none" /\ \A g \in Fds : file'[g] # Rq(backlog'[n])
    <3>1. backlog'[n] = b[n + 1] /\ b[n + 1] # c /\ b[n + 1] \in Conns
      BY <1>4, <1>5, <1>6, <2>1, <2>2
    <3>2. Rq(b[n + 1]) # Rq(c) BY <1>4, <3>1, SocketsDiffer
    <3> QED BY <1>2, <1>5, <1>8, <2>1, <3>1, <3>2
  <2>5. \A g \in Fds, d \in Conns : file'[g] = Rq(d) => far'[Rq(d)] # "none"
    BY <1>2, <1>4, <1>5, <1>6, <1>8
  <2> QED BY <2>3, <2>4, <2>5 DEF BacklogOK
<1>11. StreamsOK(up', todo', far') /\ \A d \in Conns : ~ Grows(d)
  BY <1>1, <1>2, StreamsKept
<1>12. Running(table', file', up', todo')
  <2> DEFINE e == NewEntry("PKT_IN", "REQRD", fd)
             n == Len(table) + 1
  <2>1. table \in Seq(Entries) /\ DOMAIN table = 1 .. Len(table) /\ Len(table) \in Nat
    BY <1>1, LenProperties DEF TypeOK
  <2>2. e \in Entries BY NewEntryType DEF Types, States
  <2>3. /\ DOMAIN table' = DOMAIN table \cup {n} /\ n \notin DOMAIN table
        /\ table'[n] = e /\ \A j \in DOMAIN table : table'[j] = table[j]
    <3> HIDE DEF e
    <3>1. /\ Len(table') = Len(table) + 1 /\ table' \in Seq(Entries)
          /\ \A j \in 1 .. Len(table) : table'[j] = table[j]
          /\ table'[Len(table) + 1] = e
      BY <1>3, <2>1, <2>2, AppendProperties DEF e
    <3>2. DOMAIN table' = 1 .. Len(table) + 1 BY <3>1, LenProperties
    <3> QED BY <2>1, <3>1, <3>2
  <2>4. e.type = "PKT_IN" /\ e.state = "REQRD" /\ e.in = fd /\ e.out = NoFd /\ e.ibuf = << >>
    BY DEF NewEntry
  <2>5. \A j \in DOMAIN table :
          fd \notin Refs(table[j]) /\ \A g \in Refs(table[j]) : file'[g] = file[g]
    BY <1>1, <1>3, NewDescriptor
  <2> HIDE DEF e, n
  <2>6. \A j \in DOMAIN table : EntryOK(table'[j], file', up', todo')
    BY <1>1, <1>11, <2>3, <2>5, EntryKept, TableEntries DEF Running, TableOK
  <2>7. EntryOK(e, file', up', todo')
    <3>1. Paired(e, c, file') BY <1>8, <2>4 DEF Paired, At
    <3>2. ReadOK(e, c, up', todo')
      <4>1. Len(e.ibuf) = 0 /\ ReqChunks(e.ibuf, c) BY <2>4 DEF ReqChunks
      <4>2. Len(up[Rq(c)]) + todo[Rq(c)] <= Parts BY <1>1, <1>4 DEF StreamsOK
      <4>3. Len(up[Rq(c)]) \in Nat /\ todo[Rq(c)] \in Nat
        BY <1>1, <1>4, SocketsDiffer, LeftNat
      <4> QED BY <1>2, <2>4, <4>1, <4>2, <4>3 DEF ReadOK
    <3> QED BY <1>4, <2>4, <3>1, <3>2 DEF EntryOK
  <2>8. Refs(e) = {fd} BY <2>4, FdsAssumption DEF Refs
  <2>9. RefsOnce(table') BY <1>1, <2>3, <2>5, <2>8 DEF Running, RefsOnce
  <2>10. FilesOwned(table', file') BY <1>1, <1>8, <2>3, <2>8 DEF Running, FilesOwned
  <2> QED BY <2>3, <2>6, <2>7, <2>9, <2>10 DEF Running, TableOK
<1> QED BY <1>1, <1>2, <1>9, <1>10, <1>11, <1>12 DEF IInv, NoAbort, Running

(* A handler changes the entry i to e and no descriptor. *)
LEMMA RewireInv ==
    ASSUME IInv, TypeOK', status = "run", NEW i \in DOMAIN table, NEW e \in Entries,
           table' = [table EXCEPT ![i] = e],
           UNCHANGED <<status, file, backlog, far>>,
           Refs(e) = Refs(table[i]),
           EntryOK(e, file, up', todo'),
           StreamsOK(up', todo', far'),
           \A c \in Conns : ~ Grows(c)
    PROVE  IInv'
<1>1. TypeOK /\ Running(table, file, up, todo) BY DEF IInv, Running
<1>2. Running(table', file', up', todo') BY <1>1, RewireRunning
<1> QED BY <1>2 DEF IInv, NoAbort, Running

(* A handler deletes the entry i, after reading or writing; a descriptor    *)
(* that was free may leak.                                                  *)
LEMMA DropInv ==
    ASSUME IInv, TypeOK', status = "run", NEW i \in DOMAIN table, NEW e \in Entries,
           table' = [table EXCEPT ![i] = Deleted(e)],
           \A fd \in Fds : \/ file'[fd] = Closing({i})[fd]
                           \/ file[fd] = Free /\ file'[fd] = Leaked,
           UNCHANGED <<status, backlog, far>>,
           StreamsOK(up', todo', far'),
           \A c \in Conns : ~ Grows(c)
    PROVE  IInv'
<1>1. /\ TypeOK /\ Running(table, file, up, todo) /\ FilesOnce(file)
      /\ BacklogOK(backlog, file, far)
  BY DEF IInv, Running
<1>2. /\ Deleted(e) \in Entries /\ Deleted(e).type = "NONE"
      /\ Deleted(e).in = NoFd /\ Deleted(e).out = NoFd
  BY DeletedType
<1>3. /\ DOMAIN table' = DOMAIN table /\ table'[i] = Deleted(e)
      /\ \A j \in DOMAIN table \ {i} : table'[j] = table[j]
  BY <1>1, <1>2, UpdateType
<1>4. \A fd \in Fds : file'[fd] = file[fd] \/ file'[fd] \in {Free, Leaked}
  BY DEF Closing
<1>5. FilesOnce(file') /\ BacklogOK(backlog', file', far') BY <1>1, <1>4, FilesKept
<1>6. Running(table', file', up', todo')
  <2> DEFINE I == {i}
  <2>1. /\ I \in SUBSET DOMAIN table
        /\ \A j \in I : /\ table'[j].type = "NONE"
                        /\ table'[j].in = NoFd /\ table'[j].out = NoFd
        /\ \A j \in DOMAIN table \ I : table'[j] = table[j]
        /\ \A fd \in Fds : \/ file'[fd] = Closing(I)[fd]
                           \/ file[fd] = Free /\ file'[fd] = Leaked
    BY <1>2, <1>3
  <2> HIDE DEF I
  <2> QED BY <1>1, <1>3, <2>1, DropRunning
<1> QED BY <1>5, <1>6 DEF IInv, NoAbort, Running

LEMMA ReadInv ==
    ASSUME IInv, TypeOK', NEW i, NEW k \in 1 .. Room, Read(i, k)
    PROVE  IInv'
<1>1. /\ TypeOK /\ TableOK(table, file, up, todo) /\ StreamsOK(up, todo, far)
      /\ Running(table, file, up, todo) /\ FilesOnce(file)
      /\ BacklogOK(backlog, file, far) /\ status = "run"
      /\ ReadOf(i, k)
  <2>1. ReadOf(i, k)
    BY DEF Read, RdPartial, RdConnect, RdAnswer, RdForward, RdRefused,
           RdResponse, ForwardRead, PacketRead
  <2>2. status = "run" BY <2>1 DEF ReadOf, Reading, Handling
  <2> QED BY <2>1, <2>2 DEF IInv, Running
<1>2. /\ i \in DOMAIN table /\ table[i] \in Entries /\ table[i].type = "PKT_IN"
      /\ Sock(i) \in Sockets /\ k \in Nat /\ k <= Len(up[Sock(i)])
  BY <1>1, ReadType, SizeAssumption DEF ReadOf
<1>3. ASSUME Drain(Sock(i), k), todo' = todo,
             \A c \in Conns : far'[Rq(c)] = "none" => far[Rq(c)] = "none"
      PROVE  StreamsOK(up', todo', far') /\ \A c \in Conns : ~ Grows(c)
  BY <1>1, <1>2, <1>3, StreamsDrained
<1>4. ASSUME PacketRead(i, k)
      PROVE  /\ Shifted(i, k) \in Entries
             /\ Shifted(i, k).in = table[i].in /\ Shifted(i, k).out = table[i].out
             /\ Shifted(i, k).type = "PKT_IN" /\ Shifted(i, k).state = table[i].state
  <2> DEFINE b == Shifted(i, k).ibuf
  <2>1. Shifted(i, k) = [table[i] EXCEPT !.ibuf = b, !.heap = "live"]
    BY <1>1, <1>4, ShiftedType
  <2> HIDE DEF b
  <2>2. Shifted(i, k) \in Entries BY <1>1, <1>4, ShiftedType
  <2> QED BY <1>2, <2>1, <2>2 DEF Entries
<1>5. CASE RdPartial(i, k)
  <2> DEFINE e == [table[i] EXCEPT !.ibuf = Filled(i, k), !.heap = "live"]
  <2>1. Filled(i, k) \in Seq(Packets) BY <1>1, ReadType
  <2>2. /\ e \in Entries /\ e.in = table[i].in /\ e.out = table[i].out
        /\ e.type = table[i].type /\ e.state = table[i].state /\ e.ibuf = Filled(i, k)
    BY <1>2, <2>1 DEF Entries
  <2>3. table' = [table EXCEPT ![i] = e] BY <1>5 DEF RdPartial
  <2>4. /\ Drain(Sock(i), k) /\ todo' = todo /\ far' = far
        /\ status' = status /\ file' = file /\ backlog' = backlog
    BY <1>5 DEF RdPartial
  <2>5. StreamsOK(up', todo', far') /\ \A c \in Conns : ~ Grows(c)
    BY <1>3, <2>4
  <2> HIDE DEF e
  <2>6. EntryOK(e, file, up', todo')
    <3>1. PICK c \in Conns :
            /\ Paired(table[i], c, file)
            /\ \/ /\ table[i].state = "REQRD" /\ Sock(i) = Rq(c)
                  /\ ReqChunks(Filled(i, k), c)
                  /\ Len(Filled(i, k)) + (Len(up[Rq(c)]) - k) + todo[Rq(c)] <= Parts
               \/ /\ table[i].state = "RSPFWD" /\ Sock(i) = Pr(c)
                  /\ RspChunks(Filled(i, k))
      BY <1>1, ReadKind
    <3>2. Paired(e, c, file) BY <2>2, <3>1 DEF Paired
    <3>3. Len(up'[Sock(i)]) = Len(up[Sock(i)]) - k
      BY <1>1, <1>2, <2>4, DrainType
    <3>4. ReadOK(e, c, up', todo') BY <2>2, <2>4, <3>1, <3>3 DEF ReadOK
    <3> QED BY <1>2, <2>2, <3>2, <3>4 DEF EntryOK
  <2>7. Refs(e) = Refs(table[i]) BY <2>2 DEF Refs
  <2> QED BY <1>1, <1>2, <2>2, <2>3, <2>4, <2>5, <2>6, <2>7, RewireInv
<1>6. CASE RdConnect(i, k)
  <2>1. PacketRead(i, k) BY <1>6 DEF RdConnect
  <2>2. /\ table' = [table EXCEPT ![i] = Deleted(Shifted(i, k))]
        /\ file' = Closing({i}) /\ Drain(Sock(i), k) /\ todo' = todo
        /\ UNCHANGED <<status, backlog, far>>
    BY <1>6 DEF RdConnect
  <2>3. StreamsOK(up', todo', far') /\ \A c \in Conns : ~ Grows(c)
    BY <1>3, <2>2
  <2> QED BY <1>1, <1>2, <1>4, <2>1, <2>2, <2>3, DropInv
<1>7. CASE RdAnswer(i, k)
  <2> DEFINE d == Packet(i, k).conn
             e == [Shifted(i, k) EXCEPT
                     !.state = "RSPWR", !.out = table[i].in, !.in = NoFd,
                     !.obuf = table[i].obuf \o Chunks(Response(d, "server"))]
  <2>1. PacketRead(i, k) /\ Packet(i, k).type = "REQUEST" BY <1>7 DEF RdAnswer
  <2>2. /\ table' = [table EXCEPT ![i] = e]
        /\ Drain(Sock(i), k) /\ todo' = todo
        /\ UNCHANGED <<status, file, backlog, far>>
    BY <1>7 DEF RdAnswer
  <2>3. table'[i] = e /\ e \in Entries
    <3>1. table' \in Seq(Entries) BY DEF TypeOK
    <3>2. table \in Seq(Entries) BY <1>1 DEF TypeOK
    <3>3. DOMAIN table' = DOMAIN table /\ table'[i] = e BY <1>2, <2>2, <3>2
    <3> QED BY <1>2, <3>1, <3>3
  <2>4. /\ e.type = "PKT_IN" /\ e.state = "RSPWR"
        /\ e.in = NoFd /\ e.out = table[i].in
    BY <1>4, <2>1 DEF Entries
  <2>5. PICK c \in Conns : Paired(table[i], c, file) /\ table[i].state = "REQRD"
    BY <1>1, <2>1, PacketKind
  <2>6. Paired(e, c, file) BY <2>4, <2>5 DEF Paired
  <2>7. ReadOK(e, c, up', todo') BY <2>4 DEF ReadOK
  <2> HIDE DEF e
  <2>8. EntryOK(e, file, up', todo') BY <2>4, <2>6, <2>7 DEF EntryOK
  <2>9. Refs(e) = Refs(table[i]) BY <2>4, <2>5 DEF Paired, Refs
  <2>10. StreamsOK(up', todo', far') /\ \A b \in Conns : ~ Grows(b)
    BY <1>3, <2>2
  <2> QED BY <1>1, <1>2, <2>2, <2>3, <2>8, <2>9, <2>10, RewireInv
<1>8. CASE RdForward(i, k)
  <2> DEFINE c == Packet(i, k).conn
  <2>1. PacketRead(i, k) /\ Packet(i, k).type = "REQUEST"
    BY <1>8 DEF RdForward, ForwardRead
  <2>2. PICK fd \in Fds :
          /\ file[fd] = Free
          /\ table' = [table EXCEPT ![i] =
                         [Shifted(i, k) EXCEPT
                            !.state = "REQFWD", !.out = fd,
                            !.obuf = table[i].obuf \o Chunks(Packet(i, k))]]
          /\ file' = [file EXCEPT ![fd] = Pr(c)]
    BY <1>8 DEF RdForward, LowestFree
  <2>3. /\ Drain(Sock(i), k) /\ todo' = todo /\ far' = [far EXCEPT ![Pr(c)] = "open"]
        /\ UNCHANGED <<status, backlog>>
    BY <1>8 DEF RdForward
  <2> DEFINE e == [Shifted(i, k) EXCEPT
                     !.state = "REQFWD", !.out = fd,
                     !.obuf = table[i].obuf \o Chunks(Packet(i, k))]
  <2>4. /\ DOMAIN table' = DOMAIN table /\ table'[i] = e /\ e \in Entries
        /\ \A j \in DOMAIN table \ {i} : table'[j] = table[j]
    <3>1. table' \in Seq(Entries) BY DEF TypeOK
    <3>2. table \in Seq(Entries) BY <1>1 DEF TypeOK
    <3>3. /\ DOMAIN table' = DOMAIN table /\ table'[i] = e
          /\ \A j \in DOMAIN table \ {i} : table'[j] = table[j]
      BY <1>2, <2>2, <3>2
    <3> QED BY <1>2, <3>1, <3>3
  <2>5. PICK d \in Conns : /\ Paired(table[i], d, file) /\ table[i].state = "REQRD"
                           /\ c = d /\ Shifted(i, k).ibuf = << >>
    BY <1>1, <2>1, PacketKind
  <2>6. /\ e.type = "PKT_IN" /\ e.state = "REQFWD" /\ e.in = table[i].in /\ e.out = fd
        /\ e.ibuf = << >>
    BY <1>4, <2>1, <2>5 DEF Entries
  <2> HIDE DEF e, c
  <2>7. c \in Conns BY <2>5
  <2>8. \A g \in Fds : file[g] # Pr(c) BY <1>1, <1>2, <2>5, NoPeerYet
  <2>9. file'[fd] = Pr(c) /\ \A g \in Fds \ {fd} : file'[g] = file[g]
    BY <1>1, <2>2 DEF TypeOK
  <2>10. FilesOnce(file') BY <1>1, <2>2, <2>7, <2>8, SocketsDiffer, NewFile
  <2>11. \A b \in Conns : far'[Rq(b)] = far[Rq(b)]
    BY <1>1, <2>3, <2>7, SocketsDiffer DEF TypeOK
  <2>12. BacklogOK(backlog', file', far')
    <3>1. \A n \in 1 .. Len(backlog) : backlog[n] \in Conns
      <4>1. backlog \in Seq(Conns) BY <1>1 DEF TypeOK
      <4> QED BY <4>1, ElementOfSeq
    <3>2. \A b \in Conns : Rq(b) # Pr(c) BY <2>7, SocketsDiffer
    <3>3. \A g \in Fds, b \in Conns : file'[g] = Rq(b) => file[g] = Rq(b)
      BY <2>9, <3>2
    <3> QED BY <1>1, <2>3, <2>11, <3>1, <3>3 DEF BacklogOK
  <2>13. StreamsOK(up', todo', far') /\ \A b \in Conns : ~ Grows(b)
    BY <1>3, <2>3, <2>11
  <2>14. \A j \in DOMAIN table :
           fd \notin Refs(table[j]) /\ \A g \in Refs(table[j]) : file'[g] = file[g]
    BY <1>1, <2>2, NewDescriptor
  <2>15. \A j \in DOMAIN table \ {i} : EntryOK(table'[j], file', up', todo')
    BY <1>1, <2>4, <2>13, <2>14, EntryKept, TableEntries DEF TableOK
  <2>16. At(file, table[i].in, Rq(c)) /\ table[i].out = NoFd BY <2>5 DEF Paired
  <2>17. Refs(table[i]) = {table[i].in} /\ Refs(e) = {table[i].in, fd}
    BY <2>6, <2>16, FdsAssumption DEF Refs, At
  <2>18. EntryOK(e, file', up', todo')
    <3>1. file'[table[i].in] = file[table[i].in] BY <1>2, <2>14, <2>17
    <3>2. At(file', table[i].in, Rq(c)) BY <2>16, <3>1 DEF At
    <3>3. Paired(e, c, file') BY <2>6, <2>9, <3>2 DEF Paired, At
    <3>4. ReadOK(e, c, up', todo') BY <2>6 DEF ReadOK
    <3> QED BY <2>6, <2>7, <3>3, <3>4 DEF EntryOK
  <2>19. RefsOnce(table')
    BY <1>1, <1>2, <2>4, <2>14, <2>17 DEF Running, RefsOnce
  <2>20. FilesOwned(table', file')
    BY <1>1, <1>2, <2>4, <2>9, <2>17 DEF Running, FilesOwned
  <2>21. TableOK(table', file', up', todo') BY <2>4, <2>15, <2>18 DEF TableOK
  <2> QED BY <2>3, <2>10, <2>12, <2>13, <2>19, <2>20, <2>21 DEF IInv, NoAbort
<1>9. CASE RdRefused(i, k)
  <2>1. PacketRead(i, k) BY <1>9 DEF RdRefused, ForwardRead
  <2> DEFINE e == [Shifted(i, k) EXCEPT !.state = "REQFWD"]
  <2>2. e \in Entries BY <1>4, <2>1 DEF Entries, States
  <2>3. /\ table' = [table EXCEPT ![i] = Deleted(e)]
        /\ Drain(Sock(i), k) /\ todo' = todo
        /\ UNCHANGED <<status, backlog, far>>
    BY <1>9 DEF RdRefused
  <2>4. \A fd \in Fds : \/ file'[fd] = Closing({i})[fd]
                        \/ file[fd] = Free /\ file'[fd] = Leaked
    <3>1. CASE file' = Closing({i}) BY <3>1
    <3>2. ASSUME NEW fd \in Fds, LowestFree(fd), file' = [Closing({i}) EXCEPT ![fd] = Leaked]
          PROVE  \A g \in Fds : \/ file'[g] = Closing({i})[g]
                                \/ file[g] = Free /\ file'[g] = Leaked
      BY <3>2 DEF LowestFree, Closing
    <3> QED BY <1>9, <3>1, <3>2 DEF RdRefused
  <2>5. StreamsOK(up', todo', far') /\ \A c \in Conns : ~ Grows(c)
    BY <1>3, <2>3
  <2> HIDE DEF e
  <2> QED BY <1>1, <1>2, <2>2, <2>3, <2>4, <2>5, DropInv
<1>10. CASE RdResponse(i, k)
  <2>1. PacketRead(i, k) /\ Packet(i, k).type = "RESPONSE" BY <1>10 DEF RdResponse
  <2>2. PICK c \in Conns : Paired(table[i], c, file) /\ table[i].state = "RSPFWD"
    BY <1>1, <2>1, PacketKind
  <2> DEFINE e == [Shifted(i, k) EXCEPT
                     !.state = "RSPWR", !.obuf = table[i].obuf \o Chunks(Packet(i, k))]
  <2>3. /\ table' = [table EXCEPT ![i] = e]
        /\ Drain(Sock(i), k) /\ todo' = todo
        /\ UNCHANGED <<status, file, backlog, far>>
    BY <1>10, <2>2 DEF RdResponse
  <2>4. table'[i] = e /\ e \in Entries
    <3>1. table' \in Seq(Entries) BY DEF TypeOK
    <3>2. table \in Seq(Entries) BY <1>1 DEF TypeOK
    <3>3. DOMAIN table' = DOMAIN table /\ table'[i] = e BY <1>2, <2>3, <3>2
    <3> QED BY <1>2, <3>1, <3>3
  <2>5. /\ e.type = "PKT_IN" /\ e.state = "RSPWR"
        /\ e.in = table[i].in /\ e.out = table[i].out
    BY <1>4, <2>1 DEF Entries
  <2>6. Paired(e, c, file) BY <2>2, <2>5 DEF Paired
  <2>7. ReadOK(e, c, up', todo') BY <2>5 DEF ReadOK
  <2> HIDE DEF e
  <2>8. EntryOK(e, file, up', todo') BY <2>5, <2>6, <2>7 DEF EntryOK
  <2>9. Refs(e) = Refs(table[i]) BY <2>5 DEF Refs
  <2>10. StreamsOK(up', todo', far') /\ \A b \in Conns : ~ Grows(b)
    BY <1>3, <2>3
  <2> QED BY <1>1, <1>2, <2>3, <2>4, <2>8, <2>9, <2>10, RewireInv
<1> QED BY <1>5, <1>6, <1>7, <1>8, <1>9, <1>10 DEF Read

LEMMA WriteInv ==
    ASSUME IInv, TypeOK', NEW i,
           \/ WrChunk(i) \/ WrShort(i) \/ WrReset(i) \/ WrPipe(i)
           \/ WrRequestFin(i) \/ WrResponseFin(i)
    PROVE  IInv'
<1>1. /\ TypeOK /\ Running(table, file, up, todo) /\ status = "run"
      /\ StreamsOK(up, todo, far)
      /\ i \in DOMAIN table /\ table[i] \in Entries /\ table[i].type = "PKT_IN"
  <2>1. Writing(i)
    BY DEF WrChunk, WrShort, WrReset, WrPipe, WrRequestFin, WrResponseFin, Written
  <2>2. i \in DOMAIN table /\ table[i].type = "PKT_IN" /\ status = "run"
    BY <2>1 DEF Writing, Handling, IInv, TypeOK
  <2> QED BY <2>2, TableEntries DEF IInv, Running
<1>2. PICK c \in Conns : Paired(table[i], c, file) /\ ReadOK(table[i], c, up, todo)
  BY <1>1 DEF Running, TableOK, EntryOK
<1>3. ASSUME up' = up, todo' = todo, far' = far
      PROVE  StreamsOK(up', todo', far') /\ \A d \in Conns : ~ Grows(d)
  BY <1>1, <1>3, StreamsKept
<1>4. CASE WrChunk(i)
  <2> DEFINE e == [table[i] EXCEPT !.obuf = Tail(table[i].obuf)]
  <2>1. /\ table' = [table EXCEPT ![i] = e]
        /\ UNCHANGED <<status, file, backlog, far>> /\ up' = up /\ todo' = todo
    BY <1>4 DEF WrChunk
  <2>2. table'[i] = e /\ e \in Entries
    <3>1. table' \in Seq(Entries) /\ table \in Seq(Entries) BY <1>1 DEF TypeOK
    <3>2. DOMAIN table' = DOMAIN table /\ table'[i] = e BY <1>1, <2>1, <3>1
    <3>3. i \in DOMAIN table' BY <1>1, <3>2
    <3>4. table'[i] \in Entries BY <3>1, <3>3
    <3> QED BY <3>2, <3>4
  <2>3. /\ e.type = table[i].type /\ e.state = table[i].state /\ e.in = table[i].in
        /\ e.out = table[i].out /\ e.ibuf = table[i].ibuf
    BY <1>1 DEF Entries
  <2> HIDE DEF e
  <2>4. Paired(e, c, file) /\ ReadOK(e, c, up', todo')
    BY <1>2, <2>1, <2>3 DEF Paired, ReadOK
  <2>5. EntryOK(e, file, up', todo') BY <1>1, <2>3, <2>4 DEF EntryOK
  <2>6. Refs(e) = Refs(table[i]) BY <2>3 DEF Refs
  <2> QED BY <1>1, <1>3, <2>1, <2>2, <2>5, <2>6, RewireInv
<1>5. CASE WrShort(i)
  BY <1>5 DEF WrShort, netVars, IInv, NoAbort
<1>6. CASE WrReset(i)
  <2>1. {i} \in SUBSET DOMAIN table BY <1>1
  <2> QED BY <1>1, <1>6, <2>1, RemoveInv DEF WrReset
<1>7. CASE WrPipe(i) BY <1>7, EndsInv DEF WrPipe
<1>8. CASE WrRequestFin(i)
  <2> DEFINE e == [table[i] EXCEPT !.state = "RSPFWD",
                                   !.in = table[i].out, !.out = table[i].in]
  <2>1. /\ table' = [table EXCEPT ![i] = e]
        /\ UNCHANGED <<status, file, backlog, far>> /\ up' = up /\ todo' = todo
        /\ table[i].state = "REQFWD"
    BY <1>8 DEF WrRequestFin, netVars
  <2>2. table'[i] = e /\ e \in Entries
    <3>1. table' \in Seq(Entries) /\ table \in Seq(Entries) BY <1>1 DEF TypeOK
    <3>2. DOMAIN table' = DOMAIN table /\ table'[i] = e BY <1>1, <2>1, <3>1
    <3> QED BY <1>1, <3>1, <3>2
  <2>3. /\ e.type = table[i].type /\ e.state = "RSPFWD" /\ e.in = table[i].out
        /\ e.out = table[i].in /\ e.ibuf = table[i].ibuf
    BY <1>1 DEF Entries
  <2> HIDE DEF e
  <2>4. Paired(e, c, file) BY <1>2, <2>1, <2>3 DEF Paired
  <2>5. ReadOK(e, c, up', todo')
    <3>1. e.ibuf = << >> BY <1>2, <2>1, <2>3 DEF ReadOK
    <3> QED BY <2>3, <3>1 DEF ReadOK, RspChunks
  <2>6. EntryOK(e, file, up', todo') BY <1>1, <2>3, <2>4, <2>5 DEF EntryOK
  <2>7. Refs(e) = Refs(table[i]) BY <2>3 DEF Refs
  <2> QED BY <1>1, <1>3, <2>1, <2>2, <2>6, <2>7, RewireInv
<1>9. CASE WrResponseFin(i)
  <2> DEFINE e == [table[i] EXCEPT !.state = "CLOSED"]
  <2>1. e \in Entries BY <1>1 DEF Entries, States
  <2>2. /\ table' = [table EXCEPT ![i] = Deleted(e)]
        /\ file' = Closing({i}) /\ up' = up /\ todo' = todo
        /\ UNCHANGED <<status, backlog, far>>
    BY <1>9 DEF WrResponseFin, netVars
  <2> HIDE DEF e
  <2> QED BY <1>1, <1>3, <2>1, <2>2, DropInv
<1> QED BY <1>4, <1>5, <1>6, <1>7, <1>8, <1>9

(* The other ends of the connections, and whoever dials *)
LEMMA EnvironmentInv ==
    ASSUME IInv, TypeOK', UNCHANGED <<table, status, file>>,
           BacklogOK(backlog', file, far'), StreamsOK(up', todo', far'),
           \A c \in Conns : Grows(c) => \A fd \in Fds : file[fd] # Rq(c)
    PROVE  IInv'
<1>1. status = "run" => Running(table', file', up', todo')
  <2> SUFFICES ASSUME status = "run" PROVE Running(table', file', up', todo')
    OBVIOUS
  <2>1. TypeOK /\ Running(table, file, up, todo) BY DEF IInv, Running
  <2> QED BY <2>1, EnvironmentRunning
<1> QED BY <1>1 DEF IInv, NoAbort, Running

LEMMA DialInv == ASSUME IInv, TypeOK', NEW c \in Conns, Dial(c) PROVE IInv'
<1>1. TypeOK /\ FilesOnce(file) /\ BacklogOK(backlog, file, far) /\ StreamsOK(up, todo, far)
  BY DEF IInv
<1>2. /\ far[Rq(c)] = "none" /\ far' = [far EXCEPT ![Rq(c)] = "open"]
      /\ todo' = [todo EXCEPT ![Rq(c)] = Parts] /\ up' = up
      /\ backlog' = Append(backlog, c) /\ UNCHANGED <<table, status, file>>
  BY DEF Dial, serverVars
<1>3. Rq(c) \in Sockets /\ \A d \in Conns : Rq(d) \in Sockets /\ (Rq(d) = Rq(c) => d = c)
  BY SocketsDiffer
<1>4. /\ far'[Rq(c)] = "open" /\ todo'[Rq(c)] = Parts
      /\ \A d \in Conns \ {c} : far'[Rq(d)] = far[Rq(d)] /\ todo'[Rq(d)] = todo[Rq(d)]
  BY <1>1, <1>2, <1>3 DEF TypeOK
<1>5. \A fd \in Fds : file[fd] # Rq(c) BY <1>1, <1>2 DEF BacklogOK
<1>6. BacklogOK(backlog', file, far')
  <2> DEFINE b == backlog
  <2>1. b \in Seq(Conns) BY <1>1 DEF TypeOK
  <2>2. Len(b) \in Nat /\ \A n \in 1 .. Len(b) : b[n] \in Conns
    BY <2>1, LenProperties, ElementOfSeq
  <2>3. /\ Len(backlog') = Len(b) + 1 /\ backlog'[Len(b) + 1] = c
        /\ \A n \in 1 .. Len(b) : backlog'[n] = b[n]
    BY <1>2, <2>1, AppendProperties
  <2>4. /\ \A m, n \in 1 .. Len(b) : b[m] = b[n] => m = n
        /\ \A n \in 1 .. Len(b) :
             far[Rq(b[n])] # "none" /\ \A g \in Fds : file[g] # Rq(b[n])
        /\ \A g \in Fds, d \in Conns : file[g] = Rq(d) => far[Rq(d)] # "none"
    BY <1>1 DEF BacklogOK, b
  <2> HIDE DEF b
  <2>5. \A n \in 1 .. Len(backlog') : n \in 1 .. Len(b) \/ n = Len(b) + 1
    BY <2>2, <2>3
  <2>6. \A n \in 1 .. Len(b) : b[n] # c BY <1>2, <2>2, <2>4
  <2>7. \A m, n \in 1 .. Len(backlog') : backlog'[m] = backlog'[n] => m = n
    BY <2>3, <2>4, <2>5, <2>6
  <2>8. \A n \in 1 .. Len(backlog') :
          far'[Rq(backlog'[n])] # "none" /\ \A g \in Fds : file[g] # Rq(backlog'[n])
    BY <1>4, <1>5, <2>2, <2>3, <2>4, <2>5, <2>6
  <2>9. \A g \in Fds, d \in Conns : file[g] = Rq(d) => far'[Rq(d)] # "none"
    BY <1>4, <2>4
  <2> QED BY <2>7, <2>8, <2>9 DEF BacklogOK
<1>7. StreamsOK(up', todo', far')
  <2>1. Len(up[Rq(c)]) = 0 BY <1>1, <1>2 DEF StreamsOK
  <2>2. Len(up'[Rq(c)]) + todo'[Rq(c)] <= Parts BY <1>2, <1>4, <2>1, SizeAssumption
  <2> QED BY <1>1, <1>2, <1>4, <2>1, <2>2 DEF StreamsOK
<1>8. ASSUME NEW d \in Conns, Grows(d) PROVE d = c
  <2>1. Len(up[Rq(d)]) \in Nat /\ todo[Rq(d)] \in Nat BY <1>1, <1>3, LeftNat
  <2> DEFINE a == Len(up[Rq(d)]) + todo[Rq(d)]
  <2>2. a \in Nat BY <2>1
  <2>3. d # c => a < a BY <1>2, <1>4, <1>8 DEF Grows
  <2> HIDE DEF a
  <2> QED BY <2>2, <2>3
<1> QED BY <1>2, <1>5, <1>6, <1>7, <1>8, EnvironmentInv

LEMMA FarSendInv == ASSUME IInv, TypeOK', NEW s \in Sockets, FarSend(s) PROVE IInv'
<1>1. TypeOK /\ BacklogOK(backlog, file, far) /\ StreamsOK(up, todo, far)
  BY DEF IInv
<1>2. /\ far[s] = "open" /\ todo[s] > 0
      /\ up' = [up EXCEPT ![s] = Append(up[s], Outgoing(s))]
      /\ todo' = [todo EXCEPT ![s] = todo[s] - 1]
      /\ UNCHANGED <<table, status, file, backlog, far>>
  BY DEF FarSend, serverVars
<1>3. /\ up'[s] = Append(up[s], Outgoing(s)) /\ todo'[s] = todo[s] - 1
      /\ \A r \in Sockets \ {s} : up'[r] = up[r] /\ todo'[r] = todo[r]
  BY <1>1, <1>2 DEF TypeOK
<1>4. Outgoing(s) \in Packets BY <1>1, PacketTypes DEF Outgoing, Sockets
<1>5. /\ Len(up'[s]) = Len(up[s]) + 1 /\ up'[s][Len(up[s]) + 1] = Outgoing(s)
      /\ \A n \in 1 .. Len(up[s]) : up'[s][n] = up[s][n]
      /\ Len(up[s]) \in Nat /\ todo[s] \in Nat
  <2>1. up[s] \in Seq(Packets) /\ Len(up[s]) \in Nat /\ todo[s] \in Nat BY <1>1, LeftNat
  <2> QED BY <1>3, <1>4, <2>1, AppendProperties
<1>6. \A n \in 1 .. Len(up'[s]) : n \in 1 .. Len(up[s]) \/ n = Len(up[s]) + 1
  BY <1>5
<1>7. ASSUME NEW c \in Conns
      PROVE  /\ ReqChunks(up'[Rq(c)], c) /\ RspChunks(up'[Pr(c)])
             /\ Len(up'[Rq(c)]) + todo'[Rq(c)] <= Parts
             /\ far'[Rq(c)] = "none" => Len(up'[Rq(c)]) = 0
             /\ ~ Grows(c)
  <2>1. Rq(c) \in Sockets /\ Pr(c) \in Sockets /\ Rq(c) # Pr(c) BY SocketsDiffer
  <2>2. /\ ReqChunks(up[Rq(c)], c) /\ RspChunks(up[Pr(c)])
        /\ Len(up[Rq(c)]) + todo[Rq(c)] <= Parts
        /\ far[Rq(c)] = "none" => Len(up[Rq(c)]) = 0
    BY <1>1 DEF StreamsOK
  <2>3. ReqChunks(up'[Rq(c)], c)
    <3>1. CASE s = Rq(c)
      <4>1. Outgoing(s) = Asked(c) BY <3>1 DEF Outgoing, Rq
      <4>2. Outgoing(s).type # "RESPONSE" /\ Outgoing(s).conn = c
        BY <1>1, <4>1, PacketTypes
      <4> QED BY <1>5, <1>6, <2>2, <3>1, <4>2 DEF ReqChunks
    <3>2. CASE s # Rq(c) BY <1>3, <2>1, <2>2, <3>2
    <3> QED BY <3>1, <3>2
  <2>4. RspChunks(up'[Pr(c)])
    <3>1. CASE s = Pr(c)
      <4>1. Outgoing(s) = Response(c, "owner") BY <3>1 DEF Outgoing, Pr
      <4>2. Outgoing(s).type = "RESPONSE" BY <1>1, <4>1, PacketTypes
      <4> QED BY <1>5, <1>6, <2>2, <3>1, <4>2 DEF RspChunks
    <3>2. CASE s # Pr(c) BY <1>3, <2>1, <2>2, <3>2
    <3> QED BY <3>1, <3>2
  <2>5. Len(up'[Rq(c)]) + todo'[Rq(c)] = Len(up[Rq(c)]) + todo[Rq(c)]
    <3>1. CASE s = Rq(c)
      <4> DEFINE a == Len(up[s])
                 t == todo[s]
      <4>1. a \in Nat /\ t \in Nat /\ Len(up'[s]) = a + 1 /\ todo'[s] = t - 1
        BY <1>3, <1>5
      <4> HIDE DEF a, t
      <4>2. (a + 1) + (t - 1) = a + t BY <4>1
      <4> QED BY <3>1, <4>1, <4>2 DEF a, t
    <3>2. CASE s # Rq(c) BY <1>3, <2>1, <3>2
    <3> QED BY <3>1, <3>2
  <2>6. far'[Rq(c)] = "none" => Len(up'[Rq(c)]) = 0
    BY <1>2, <1>3, <2>1, <2>2
  <2>7. ~ Grows(c)
    <3> DEFINE a == Len(up[Rq(c)]) + todo[Rq(c)]
    <3>1. a \in Nat BY <1>1, <2>1, LeftNat
    <3>2. Grows(c) => a < a BY <2>5 DEF Grows
    <3> HIDE DEF a
    <3> QED BY <3>1, <3>2
  <2> QED BY <2>2, <2>3, <2>4, <2>5, <2>6, <2>7
<1>8. StreamsOK(up', todo', far') BY <1>7 DEF StreamsOK
<1> QED BY <1>1, <1>2, <1>7, <1>8, EnvironmentInv

(* FarRecv, FarClose, FarDies, FarDeclines and Bounce send nothing, and no  *)
(* connection is new again.                                                *)
LEMMA FarInv ==
    ASSUME IInv, TypeOK', NEW s \in Sockets,
           FarRecv(s) \/ FarClose(s) \/ FarDies(s) \/ FarDeclines(s) \/ Bounce(s)
    PROVE  IInv'
<1>1. TypeOK /\ BacklogOK(backlog, file, far) /\ StreamsOK(up, todo, far)
  BY DEF IInv
<1>2. UNCHANGED <<table, status, file, backlog, up>>
  BY DEF FarRecv, FarClose, FarDies, FarDeclines, Bounce, serverVars
<1>3. \A c \in Conns : far'[Rq(c)] = "none" <=> far[Rq(c)] = "none"
  BY <1>1, SocketsDiffer DEF FarRecv, FarClose, FarDies, FarDeclines, Bounce, TypeOK
<1>4. ASSUME NEW c \in Conns PROVE todo'[Rq(c)] = todo[Rq(c)] \/ todo'[Rq(c)] = 0
  <2>1. CASE FarRecv(s)
    <3>1. s[1] = "pr" => s # Rq(c) BY DEF Rq
    <3> QED BY <1>1, <2>1, <3>1, SocketsDiffer DEF FarRecv, TypeOK
  <2>2. CASE FarClose(s) BY <2>2 DEF FarClose
  <2>3. CASE FarDies(s) \/ FarDeclines(s) \/ Bounce(s)
    BY <1>1, <2>3, SocketsDiffer DEF FarDies, FarDeclines, Bounce, TypeOK
  <2> QED BY <2>1, <2>2, <2>3
<1>5. ASSUME NEW c \in Conns
      PROVE  Len(up[Rq(c)]) + todo'[Rq(c)] <= Parts /\ ~ Grows(c)
  <2> DEFINE a == Len(up[Rq(c)])
             t == todo[Rq(c)]
             w == todo'[Rq(c)]
  <2>1. a \in Nat /\ t \in Nat BY <1>1, SocketsDiffer, LeftNat
  <2>2. a + t <= Parts BY <1>1 DEF StreamsOK
  <2>3. w = t \/ w = 0 BY <1>4
  <2>4. Grows(c) => a + t < a + w BY <1>2 DEF Grows
  <2> HIDE DEF a, t, w
  <2>5. a + w <= Parts /\ ~ (a + t < a + w) BY <2>1, <2>2, <2>3, SizeAssumption
  <2> QED BY <2>4, <2>5 DEF a, w
<1>6. StreamsOK(up', todo', far') BY <1>1, <1>2, <1>3, <1>5 DEF StreamsOK
<1>7. BacklogOK(backlog', file, far')
  <2>1. backlog \in Seq(Conns) BY <1>1 DEF TypeOK
  <2>2. \A n \in 1 .. Len(backlog) : backlog[n] \in Conns BY <2>1, ElementOfSeq
  <2> QED BY <1>1, <1>2, <1>3, <2>2 DEF BacklogOK
<1> QED BY <1>2, <1>5, <1>6, <1>7, EnvironmentInv

LEMMA InitInv == Init => IInv
<1> SUFFICES ASSUME Init PROVE IInv OBVIOUS
<1>1. PICK fd \in Fds :
        /\ table = <<NewEntry("LSTN", "LSTN", fd)>>
        /\ file = [g \in Fds |-> IF g = fd THEN Listener ELSE Free]
  BY DEF Init
<1>2. DOMAIN table = {1} /\ table[1] = NewEntry("LSTN", "LSTN", fd) BY <1>1
<1>3. /\ table[1].type = "LSTN" /\ table[1].state = "LSTN"
      /\ table[1].in = fd /\ table[1].out = NoFd
  BY <1>2 DEF NewEntry
<1>4. Refs(table[1]) = {fd} BY <1>3, FdsAssumption DEF Refs
<1>5. Running(table, file, up, todo)
  BY <1>1, <1>2, <1>3, <1>4 DEF Running, TableOK, EntryOK, At, RefsOnce, FilesOwned
<1>6. FilesOnce(file) BY <1>1 DEF FilesOnce
<1>7. \A c \in Conns : \A g \in Fds : file[g] # Rq(c) BY <1>1, SocketsDiffer
<1>8. BacklogOK(backlog, file, far)
  <2>1. backlog = << >> /\ 1 .. Len(backlog) = {} BY DEF Init
  <2> QED BY <1>7, <2>1 DEF BacklogOK
<1>9. StreamsOK(up, todo, far)
  <2>1. \A s \in Sockets : up[s] = << >> /\ todo[s] = 0 BY DEF Init
  <2>2. \A c \in Conns : ReqChunks(<< >>, c) /\ RspChunks(<< >>)
    BY DEF ReqChunks, RspChunks
  <2>3. Len(<< >>) + 0 <= Parts BY SizeAssumption
  <2> QED BY <2>1, <2>2, <2>3, SocketsDiffer DEF StreamsOK
<1>10. NoAbort BY DEF Init, NoAbort
<1> QED BY <1>5, <1>6, <1>8, <1>9, <1>10, InitType DEF IInv, Running

LEMMA NextInv == IInv /\ [Next]_vars => IInv'
<1> SUFFICES ASSUME IInv, [Next]_vars PROVE IInv' OBVIOUS
<1>1. TypeOK /\ TypeOK' BY NextType DEF IInv
<1>2. CASE Poll BY <1>1, <1>2, PollInv
<1>3. CASE PollFails BY <1>1, <1>3, EndsInv DEF PollFails
<1>4. ASSUME NEW i \in Slots, Handle(i) PROVE IInv'
  <2>1. CASE Accept(i) BY <1>1, <2>1, AcceptInv
  <2>2. CASE AcceptFails(i) \/ RdEnd(i)
    <3>1. Handling(i) /\ Remove({i}) /\ UNCHANGED <<status, netVars>>
      BY <2>2 DEF AcceptFails, RdEnd, Reading
    <3>2. {i} \in SUBSET DOMAIN table /\ status = "run"
      BY <1>1, <3>1 DEF Handling, TypeOK
    <3> QED BY <1>1, <3>1, <3>2, RemoveInv
  <2>3. CASE \E k \in 1 .. Room : Read(i, k) BY <1>1, <2>3, ReadInv
  <2>4. CASE \/ WrChunk(i) \/ WrShort(i) \/ WrReset(i) \/ WrPipe(i)
             \/ WrRequestFin(i) \/ WrResponseFin(i)
    BY <1>1, <2>4, WriteInv
  <2> QED BY <1>4, <2>1, <2>2, <2>3, <2>4 DEF Handle
<1>5. ASSUME NEW c \in Conns, Dial(c) PROVE IInv' BY <1>1, <1>5, DialInv
<1>6. ASSUME NEW s \in Sockets, FarStep(s) PROVE IInv'
  BY <1>1, <1>6, FarSendInv, FarInv DEF FarStep
<1>7. CASE UNCHANGED vars
  BY <1>7 DEF vars, serverVars, netVars, IInv, TypeOK, NoAbort
<1> QED BY <1>2, <1>3, <1>4, <1>5, <1>6, <1>7 DEF Next, ServerStep, Quiet

-----------------------------------------------------------------------------
(* IInv is inductive. *)
LEMMA Inductive == Spec => []IInv
BY InitInv, NextInv, PTL DEF Spec

(* No assertion of the poll loop or of a handler fails: middfs-sock.c:366,  *)
(* middfs-conn.c:261 and :307, middfs-server-handler.c:203.                 *)
THEOREM NoAbortCorrect == Spec => []NoAbort
<1>1. IInv => NoAbort BY DEF IInv
<1> QED BY <1>1, Inductive, PTL

(* Every open descriptor of the server, but a leaked one, is an end of one  *)
(* entry of the table, and every end of an entry is open: descriptors are   *)
(* closed, swapped and given out again in middfs-sock.c:316, :388 and       *)
(* middfs-server-handler.c:147, :180, :193.                                 *)
THEOREM OwnershipCorrect == Spec => []DescriptorsOwned
<1>1. IInv => DescriptorsOwned
  <2> SUFFICES ASSUME IInv, status = "run" PROVE DescriptorsOwned
    BY DEF DescriptorsOwned
  <2>1. Running(table, file, up, todo) BY DEF IInv, Running
  <2>2. ASSUME NEW i \in DOMAIN table
        PROVE  /\ \A fd \in Refs(table[i]) : file[fd] \notin {Free, Leaked}
               /\ table[i].in = table[i].out => table[i].in = NoFd
    <3>1. EntryOK(table[i], file, up, todo) BY <2>1 DEF Running, TableOK
    <3>2. \A fd \in Refs(table[i]) : file[fd] \notin {Free, Leaked} BY <3>1, EndsOpen
    <3>3. CASE table[i].type = "PKT_IN"
      <4>1. PICK c \in Conns : Paired(table[i], c, file) BY <3>1, <3>3 DEF EntryOK
      <4> QED BY <3>2, <4>1, SocketsDiffer DEF Paired, At
    <3>4. CASE table[i].type # "PKT_IN"
      <4>1. table[i].out = NoFd BY <3>1, <3>4 DEF EntryOK
      <4> QED BY <3>2, <4>1
    <3> QED BY <3>2, <3>3, <3>4
  <2> QED BY <2>1, <2>2 DEF Running, DescriptorsOwned
<1> QED BY <1>1, Inductive, PTL

(* The two ends of an entry are the legs of one request, in the polarity of *)
(* its state (middfs-server-handler.c:147, :168, :180, :193).               *)
THEOREM PairingCorrect == Spec => []LegsPaired
<1>1. IInv => LegsPaired
  <2> SUFFICES ASSUME IInv, status = "run", NEW i \in DOMAIN table,
                      table[i].type = "PKT_IN"
               PROVE  \E c \in Conns : Paired(table[i], c, file)
    BY DEF LegsPaired
  <2>1. EntryOK(table[i], file, up, todo) BY DEF IInv, TableOK
  <2> QED BY <2>1 DEF EntryOK
<1> QED BY <1>1, Inductive, PTL

-----------------------------------------------------------------------------
(* What the connections of a caller carry: the inductive invariant Relaying *)
USE DEF NoFd

-----------------------------------------------------------------------------
(* Sequences of equal chunks *)

LEMMA AllAreTail ==
    ASSUME NEW s \in Seq(Packets), s # << >>, NEW p, AllAre(s, p)
    PROVE  /\ Head(s) = p /\ AllAre(Tail(s), p)
           /\ Tail(s) \in Seq(Packets) /\ Len(Tail(s)) = Len(s) - 1
           /\ Len(s) \in Nat \ {0}
<1>1. Len(s) \in Nat \ {0} BY LenProperties, EmptySeq
<1>2. /\ Head(s) = s[1] /\ Tail(s) \in Seq(Packets)
      /\ Len(Tail(s)) = Len(s) - 1
      /\ \A n \in 1 .. Len(Tail(s)) : Tail(s)[n] = s[n + 1]
  BY HeadTailProperties
<1>3. \A n \in 1 .. Len(Tail(s)) : n + 1 \in 1 .. Len(s) BY <1>1, <1>2
<1>4. 1 \in 1 .. Len(s) BY <1>1
<1> QED BY <1>1, <1>2, <1>3, <1>4 DEF AllAre

LEMMA AllAreAppend ==
    ASSUME NEW s \in Seq(Packets), NEW p \in Packets, AllAre(s, p)
    PROVE  /\ AllAre(Append(s, p), p) /\ Len(Append(s, p)) = Len(s) + 1
           /\ Append(s, p) \in Seq(Packets) /\ Append(s, p) # << >>
<1>1. /\ Append(s, p) \in Seq(Packets) /\ Len(Append(s, p)) = Len(s) + 1
      /\ Append(s, p)[Len(s) + 1] = p
      /\ \A n \in 1 .. Len(s) : Append(s, p)[n] = s[n]
  BY AppendProperties
<1>2. Len(s) \in Nat BY LenProperties
<1>3. \A n \in 1 .. Len(s) + 1 : n \in 1 .. Len(s) \/ n = Len(s) + 1 BY <1>2
<1>4. Append(s, p) # << >>
  <2>1. Len(Append(s, p)) # 0 BY <1>1, <1>2
  <2> QED BY <2>1, EmptySeq
<1> QED BY <1>1, <1>3, <1>4 DEF AllAre

LEMMA AllAreNone == \A p : AllAre(<< >>, p)
BY DEF AllAre

(* A buffer into which a packet was written *)
LEMMA AllAreChunks ==
    ASSUME NEW p \in Packets
    PROVE  AllAre(<< >> \o Chunks(p), p) /\ Len(<< >> \o Chunks(p)) = Parts
<1>1. /\ Chunks(p) \in Seq(Packets) /\ Len(Chunks(p)) = Parts
      /\ \A n \in 1 .. Parts : Chunks(p)[n] = p
  BY ChunksType
<1>2. << >> \o Chunks(p) = Chunks(p) BY <1>1, ConcatEmptySeq
<1> QED BY <1>1, <1>2 DEF AllAre

(* A whole packet is a packet's worth of its chunks. *)
LEMMA AllAreWhole ==
    ASSUME NEW s \in Seq(Packets), NEW p \in Packets, AllAre(s, p)
    PROVE  s = Chunks(p) <=> Len(s) = Parts
<1>1. /\ Chunks(p) \in Seq(Packets) /\ Len(Chunks(p)) = Parts
      /\ \A n \in 1 .. Parts : Chunks(p)[n] = p
  BY ChunksType
<1> QED BY <1>1, SeqEqual DEF AllAre

-----------------------------------------------------------------------------
(* Entries and connections *)

(* An entry belongs to one connection, and a connection to one entry. *)
LEMMA PairedOnce ==
    ASSUME NEW e, NEW f, NEW c \in Conns, NEW d \in Conns,
           Paired(e, c, f), Paired(e, d, f)
    PROVE  c = d
BY SocketsDiffer DEF Paired, At

LEMMA CallerHeld ==
    ASSUME NEW e, NEW f, NEW c \in Conns, Paired(e, c, f)
    PROVE  \E fd \in Fds : fd \in Refs(e) /\ f[fd] = Rq(c)
<1>1. \E fd \in {e.in, e.out} : At(f, fd, Rq(c)) BY DEF Paired
<1> QED BY <1>1, FdsAssumption DEF At, Refs

LEMMA EntryOnce ==
    ASSUME RefsOnce(table), FilesOnce(file), NEW c \in Conns,
           NEW i \in DOMAIN table, NEW j \in DOMAIN table,
           Paired(table[i], c, file), Paired(table[j], c, file)
    PROVE  i = j
<1>1. PICK fd \in Fds : fd \in Refs(table[i]) /\ file[fd] = Rq(c) BY CallerHeld
<1>2. PICK g \in Fds : g \in Refs(table[j]) /\ file[g] = Rq(c) BY CallerHeld
<1>3. fd = g BY <1>1, <1>2, SocketsDiffer DEF FilesOnce
<1> QED BY <1>1, <1>2, <1>3 DEF RefsOnce

(* A step leaves the two connections of c as they are. *)
Kept(s) ==
    /\ far'[s] = far[s] /\ up'[s] = up[s] /\ down'[s] = down[s]
    /\ todo'[s] = todo[s] /\ got'[s] = got[s]
LegsKept(c) == Kept(Rq(c)) /\ Kept(Pr(c))

LEMMA LegsOKKept ==
    ASSUME NEW c \in Conns, LegsKept(c), ask' = ask, clients \subseteq clients',
           LegsOK(c)
    PROVE  LegsOK(c)'
<1>1. /\ Fresh(c)' <=> Fresh(c)
      /\ Answerer(c)' = Answerer(c)
      /\ Performed(c)' <=> Performed(c)
      /\ Sent(Rq(c))' = Sent(Rq(c)) /\ Sent(Pr(c))' = Sent(Pr(c))
      /\ Asked(c)' = Asked(c)
  BY DEF LegsKept, Kept, Fresh, Answerer, Performed, Sent, Asked
<1> QED BY <1>1 DEF LegsOK, LegsKept, Kept, AllAre, Response

LEMMA HoldsOKKept ==
    ASSUME NEW c \in Conns, NEW i, LegsKept(c), ask' = ask, table'[i] = table[i],
           HoldsOK(table[i], c)
    PROVE  HoldsOK(table[i], c)'
<1>1. /\ Fresh(c)' <=> Fresh(c)
      /\ Answerer(c)' = Answerer(c)
      /\ Performed(c)' <=> Performed(c)
      /\ Sent(Rq(c))' = Sent(Rq(c)) /\ Sent(Pr(c))' = Sent(Pr(c))
      /\ Asked(c)' = Asked(c)
  BY DEF LegsKept, Kept, Fresh, Answerer, Performed, Sent, Asked
<1> QED BY <1>1 DEF HoldsOK, LegsKept, Kept, AllAre, Response

LEMMA NoneWait == backlog' = << >> => 1 .. Len(backlog') = {}
OBVIOUS

(* A caller whose connection waits for accept has no entry yet. *)
LEMMA WaitingHasNoEntry ==
    ASSUME BacklogOK(backlog, file, far), NEW c \in Conns, NEW e,
           Paired(e, c, file), NEW n \in 1 .. Len(backlog)
    PROVE  backlog[n] # c
<1>1. PICK fd \in Fds : file[fd] = Rq(c) BY CallerHeld
<1>2. file[fd] # Rq(backlog[n]) BY DEF BacklogOK
<1> QED BY <1>1, <1>2

LEMMA OthersApart ==
    ASSUME NEW c \in Conns, NEW d \in Conns \ {c}, NEW s \in {Rq(c), Pr(c)}
    PROVE  Rq(d) # s /\ Pr(d) # s /\ Rq(d) \in Sockets /\ Pr(d) \in Sockets
BY SocketsDiffer

LEMMA InvParts ==
    ASSUME IInv
    PROVE  /\ TypeOK /\ FilesOnce(file) /\ BacklogOK(backlog, file, far)
           /\ StreamsOK(up, todo, far)
           /\ status = "run" => Running(table, file, up, todo)
BY DEF IInv, Running

-----------------------------------------------------------------------------
(* What a step has to leave as it is *)

(* An entry keeps its descriptors, and what they refer to. *)
EntryUntouched(j) ==
    /\ table'[j] = table[j]
    /\ \A fd \in Refs(table[j]) : file'[fd] = file[fd]

Untouched(I) ==
    /\ DOMAIN table' = DOMAIN table
    /\ \A j \in DOMAIN table \ I : EntryUntouched(j)

LEMMA UntouchedPaired ==
    ASSUME IInv, status = "run",
           NEW j \in DOMAIN table, EntryUntouched(j), NEW d \in Conns,
           table'[j].type = "PKT_IN", Paired(table'[j], d, file')
    PROVE  table[j].type = "PKT_IN" /\ Paired(table[j], d, file)
<1>1. table'[j] = table[j] /\ \A fd \in Refs(table[j]) : file'[fd] = file[fd]
  BY DEF EntryUntouched
<1>2. EntryOK(table[j], file, up, todo) BY InvParts DEF Running, TableOK
<1>3. PICK c \in Conns : Paired(table[j], c, file) BY <1>1, <1>2 DEF EntryOK
<1>4. \A fd \in {table[j].in, table[j].out} : fd \in Fds => file'[fd] = file[fd]
  BY <1>1, FdsAssumption DEF Refs
<1>5. Paired(table[j], c, file') BY <1>3, <1>4 DEF Paired, At
<1>6. c = d BY <1>1, <1>5, PairedOnce
<1> QED BY <1>1, <1>3, <1>6

(* A handler acts for the entry i of caller c. *)
LEMMA HandlerRelays ==
    ASSUME IInv, Relaying, status = "run",
           NEW i \in DOMAIN table, NEW c \in Conns,
           table[i].type = "PKT_IN", Paired(table[i], c, file),
           Untouched({i}), \A d \in Conns \ {c} : LegsKept(d),
           ask' = ask, clients \subseteq clients', backlog' = backlog,
           LegsOK(c)',
           table'[i].type = "PKT_IN" =>
             Paired(table'[i], c, file') /\ HoldsOK(table[i], c)'
    PROVE  Relaying'
<1>1. \A d \in Conns : LegsOK(d)' BY LegsOKKept DEF Relaying
<1>2. ASSUME NEW n \in 1 .. Len(backlog) PROVE Fresh(backlog[n])'
  <2>1. Fresh(backlog[n]) BY DEF Relaying
  <2>2. backlog \in Seq(Conns) BY InvParts DEF TypeOK
  <2>3. backlog[n] \in Conns \ {c}
    BY <2>2, ElementOfSeq, InvParts, WaitingHasNoEntry
  <2> QED BY <2>1, <2>3 DEF Fresh, LegsKept, Kept
<1>3. ASSUME NEW j \in DOMAIN table', NEW d \in Conns,
             table'[j].type = "PKT_IN", Paired(table'[j], d, file')
      PROVE  HoldsOK(table[j], d)'
  <2>1. j \in DOMAIN table BY <1>3 DEF Untouched, EntryUntouched
  <2>2. CASE j = i BY <1>3, <2>2, PairedOnce
  <2>3. CASE j # i
    <3>1. table[j].type = "PKT_IN" /\ Paired(table[j], d, file)
      BY <1>3, <2>1, <2>3, UntouchedPaired DEF Untouched
    <3>2. d # c BY <2>1, <2>3, <3>1, InvParts, EntryOnce DEF Running
    <3>3. HoldsOK(table[j], d) BY <2>1, <3>1 DEF Relaying
    <3>4. table'[j] = table[j] BY <2>1, <2>3 DEF Untouched, EntryUntouched
    <3> QED BY <3>2, <3>3, <3>4, HoldsOKKept
  <2> QED BY <2>2, <2>3
<1> QED BY <1>1, <1>2, <1>3 DEF Relaying

(* Entries are deleted, and the connections stay as they are. *)
LEMMA RemovalRelays ==
    ASSUME IInv, Relaying, status = "run", NEW I,
           Untouched(I), \A i \in I : table'[i].type = "NONE",
           UNCHANGED <<clients, netVars>>, backlog' = backlog \/ backlog' = << >>
    PROVE  Relaying'
<1>1. ask' = ask /\ \A d \in Conns : LegsKept(d) BY DEF netVars, LegsKept, Kept
<1>2. \A d \in Conns : LegsOK(d)' BY <1>1, LegsOKKept DEF Relaying
<1>3. ASSUME NEW n \in 1 .. Len(backlog') PROVE Fresh(backlog[n])'
  <2>1. backlog' = backlog BY <1>3, NoneWait
  <2> QED BY <1>3, <2>1 DEF Relaying, Fresh, netVars
<1>4. ASSUME NEW j \in DOMAIN table', NEW d \in Conns,
             table'[j].type = "PKT_IN", Paired(table'[j], d, file')
      PROVE  HoldsOK(table[j], d)'
  <2>1. j \in DOMAIN table \ I BY <1>4 DEF Untouched, EntryUntouched
  <2>2. table[j].type = "PKT_IN" /\ Paired(table[j], d, file)
    BY <1>4, <2>1, UntouchedPaired DEF Untouched
  <2>3. HoldsOK(table[j], d) BY <2>1, <2>2 DEF Relaying
  <2> QED BY <1>1, <2>1, <2>3, HoldsOKKept DEF Untouched, EntryUntouched
<1> QED BY <1>2, <1>3, <1>4 DEF Relaying

(* The caller c or its owner acts. *)
LEMMA EnvironmentRelays ==
    ASSUME IInv, Relaying, UNCHANGED <<table, file, status, clients, ask>>,
           NEW c \in Conns, \A d \in Conns \ {c} : LegsKept(d),
           LegsOK(c)', Fresh(c) => Fresh(c)',
           \A i \in DOMAIN table :
             Paired(table[i], c, file) /\ HoldsOK(table[i], c) => HoldsOK(table[i], c)',
           \A n \in 1 .. Len(backlog') :
             Fresh(backlog'[n]) /\ backlog'[n] \in Conns
    PROVE  Relaying'
<1>1. \A d \in Conns : LegsOK(d)' BY LegsOKKept DEF Relaying
<1>2. ASSUME NEW n \in 1 .. Len(backlog') PROVE Fresh(backlog[n])'
  <2>1. Fresh(backlog'[n]) /\ backlog'[n] \in Conns BY <1>2
  <2>2. CASE backlog'[n] = c BY <2>1, <2>2 DEF Fresh
  <2>3. CASE backlog'[n] # c
    BY <2>1, <2>3 DEF Fresh, LegsKept, Kept
  <2> QED BY <2>2, <2>3
<1>3. ASSUME status' = "run", NEW j \in DOMAIN table', NEW d \in Conns,
             table'[j].type = "PKT_IN", Paired(table'[j], d, file')
      PROVE  HoldsOK(table[j], d)'
  <2>1. j \in DOMAIN table /\ HoldsOK(table[j], d) BY <1>3 DEF Relaying
  <2>2. CASE d = c BY <1>3, <2>1, <2>2
  <2>3. CASE d # c BY <2>1, <2>3, HoldsOKKept
  <2> QED BY <2>2, <2>3
<1> QED BY <1>1, <1>2, <1>3 DEF Relaying

-----------------------------------------------------------------------------
(* Reading *)

LEMMA FilledIs ==
    ASSUME TypeOK, NEW i, NEW k \in 1 .. Room, ReadOf(i, k), NEW p,
           AllAre(table[i].ibuf, p), AllAre(up[Sock(i)], p)
    PROVE  AllAre(Filled(i, k), p)
<1> DEFINE a == Len(table[i].ibuf)
           b == Len(up[Sock(i)])
<1>1. /\ Sock(i) \in Sockets /\ a \in Nat
      /\ Len(Filled(i, k)) = a + k
      /\ \A n \in 1 .. Len(Filled(i, k)) :
           Filled(i, k)[n] = IF n <= a THEN table[i].ibuf[n] ELSE up[Sock(i)][n - a]
  BY ReadType
<1>2. b \in Nat /\ k <= b /\ k \in Nat
  BY <1>1, LeftNat, SizeAssumption DEF ReadOf
<1>3. \A n \in 1 .. a : table[i].ibuf[n] = p BY DEF AllAre
<1>4. \A n \in 1 .. b : up[Sock(i)][n] = p BY DEF AllAre
<1> HIDE DEF a, b
<1>5. \A n \in 1 .. a + k : (n <= a => n \in 1 .. a) /\ (~ (n <= a) => n - a \in 1 .. b)
  <2>1. a \in Nat /\ b \in Nat /\ k \in Nat /\ k <= b BY <1>1, <1>2
  <2> QED BY <2>1
<1>6. \A n \in 1 .. a + k : Filled(i, k)[n] = p BY <1>1, <1>3, <1>4, <1>5
<1> QED BY <1>1, <1>6 DEF AllAre

(* An entry that reads belongs to a caller whose request was not passed on, *)
(* or to one whose owner has performed it; the chunks it holds after the    *)
(* read are those of that request, or of the owner's answer.                *)
LEMMA ReaderIs ==
    ASSUME IInv, Relaying, NEW i, NEW k \in 1 .. Room, ReadOf(i, k)
    PROVE  /\ status = "run" /\ i \in DOMAIN table /\ table[i] \in Entries
           /\ table[i].type = "PKT_IN" /\ table[i].obuf = << >>
           /\ k \in Nat /\ k <= Len(up[Sock(i)])
           /\ \E c \in Conns :
                /\ Paired(table[i], c, file) /\ Sock(i) \in {Rq(c), Pr(c)}
                /\ \/ /\ table[i].state = "REQRD" /\ Sock(i) = Rq(c) /\ Fresh(c)
                      /\ AllAre(Filled(i, k), Asked(c))
                   \/ /\ table[i].state = "RSPFWD" /\ Sock(i) = Pr(c)
                      /\ far[Pr(c)] # "none" /\ Performed(c)
                      /\ got[Rq(c)] = << >> /\ down[Rq(c)] = << >>
                      /\ AllAre(Filled(i, k), Response(c, "owner"))
<1>1. /\ status = "run" /\ i \in DOMAIN table /\ table[i] \in Entries
      /\ table[i].type = "PKT_IN" /\ k \in Nat /\ k <= Len(up[Sock(i)])
      /\ table[i].state \in {"REQRD", "RSPFWD"}
  BY ReadType, InvParts, SizeAssumption DEF ReadOf, Reading, Handling
<1>2. EntryOK(table[i], file, up, todo) BY <1>1, InvParts DEF Running, TableOK
<1>3. PICK c \in Conns : Paired(table[i], c, file) BY <1>1, <1>2 DEF EntryOK
<1>4. HoldsOK(table[i], c) /\ LegsOK(c) BY <1>1, <1>3 DEF Relaying
<1>5. CASE table[i].state = "REQRD"
  <2>1. Sock(i) = Rq(c) BY <1>3, <1>5 DEF Paired, At, Sock, PolledFd, ReadStates
  <2>2. Fresh(c) /\ AllAre(table[i].ibuf, Asked(c)) /\ table[i].obuf = << >>
    BY <1>4, <1>5 DEF HoldsOK
  <2>3. AllAre(up[Sock(i)], Asked(c)) BY <1>4, <2>1 DEF LegsOK
  <2>4. AllAre(Filled(i, k), Asked(c)) BY <2>2, <2>3, InvParts, FilledIs
  <2> QED BY <1>1, <1>3, <1>5, <2>1, <2>2, <2>4
<1>6. CASE table[i].state = "RSPFWD"
  <2>1. Sock(i) = Pr(c) BY <1>3, <1>6 DEF Paired, At, Sock, PolledFd, ReadStates
  <2>2. /\ far[Pr(c)] # "none" /\ got[Rq(c)] = << >> /\ down[Rq(c)] = << >>
        /\ AllAre(table[i].ibuf, Response(c, "owner")) /\ table[i].obuf = << >>
    BY <1>4, <1>6 DEF HoldsOK
  <2>3. AllAre(up[Sock(i)], Response(c, "owner")) BY <1>4, <2>1 DEF LegsOK
  <2>4. AllAre(Filled(i, k), Response(c, "owner")) BY <2>2, <2>3, InvParts, FilledIs
  <2>5. up[Pr(c)] # << >>
    <3>1. Len(up[Pr(c)]) # 0
      BY <1>1, <2>1
    <3> QED BY <3>1
  <2>6. Performed(c) BY <1>4, <2>5 DEF LegsOK
  <2> QED BY <1>1, <1>3, <1>6, <2>1, <2>2, <2>4, <2>6
<1> QED BY <1>1, <1>5, <1>6

(* A packet is the caller's request, and nothing is left of it; or it is    *)
(* the answer of the owner, who has performed it.                           *)
LEMMA PacketIs ==
    ASSUME IInv, Relaying, NEW i, NEW k \in 1 .. Room, PacketRead(i, k)
    PROVE  \E c \in Conns :
             /\ Paired(table[i], c, file) /\ Sock(i) \in {Rq(c), Pr(c)}
             /\ \/ /\ table[i].state = "REQRD" /\ Sock(i) = Rq(c) /\ Fresh(c)
                   /\ Packet(i, k) = Asked(c) /\ Shifted(i, k).ibuf = << >>
                \/ /\ table[i].state = "RSPFWD" /\ Sock(i) = Pr(c)
                   /\ far[Pr(c)] # "none" /\ Performed(c)
                   /\ got[Rq(c)] = << >> /\ down[Rq(c)] = << >>
                   /\ Packet(i, k) = Response(c, "owner")
<1>1. ReadOf(i, k) BY DEF PacketRead
<1>2. PICK c \in Conns :
        /\ Paired(table[i], c, file) /\ Sock(i) \in {Rq(c), Pr(c)}
        /\ \/ /\ table[i].state = "REQRD" /\ Sock(i) = Rq(c) /\ Fresh(c)
              /\ AllAre(Filled(i, k), Asked(c))
           \/ /\ table[i].state = "RSPFWD" /\ Sock(i) = Pr(c)
              /\ far[Pr(c)] # "none" /\ Performed(c)
              /\ got[Rq(c)] = << >> /\ down[Rq(c)] = << >>
              /\ AllAre(Filled(i, k), Response(c, "owner"))
  BY <1>1, ReaderIs
<1>3. Packet(i, k) = Filled(i, k)[1] BY InvParts, ShiftedType
<1>4. 1 \in 1 .. Len(Filled(i, k))
  <2>1. Len(Filled(i, k)) \in Nat BY <1>1, InvParts, ReadType, LenProperties
  <2> QED BY <2>1, SizeAssumption DEF PacketRead
<1>5. \A p : AllAre(Filled(i, k), p) => Packet(i, k) = p BY <1>3, <1>4 DEF AllAre
<1>6. table[i].state = "REQRD" => Shifted(i, k).ibuf = << >>
  <2>1. status = "run" BY <1>1, ReaderIs
  <2>2. TypeOK /\ TableOK(table, file, up, todo) /\ StreamsOK(up, todo, far)
    BY <2>1, InvParts DEF Running
  <2> QED BY <2>2, PacketKind
<1> QED BY <1>2, <1>5, <1>6

(* A read takes chunks from one connection of c. *)
LEMMA Drained ==
    ASSUME TypeOK, NEW c \in Conns, NEW s \in {Rq(c), Pr(c)},
           NEW k \in Nat, k <= Len(up[s]), Drain(s, k)
    PROVE  /\ \A p : AllAre(up[Rq(c)], p) => AllAre(up'[Rq(c)], p)
           /\ \A p : AllAre(up[Pr(c)], p) => AllAre(up'[Pr(c)], p)
           /\ up'[Pr(c)] # << >> => up[Pr(c)] # << >>
           /\ \A d \in Conns \ {c} : up'[Rq(d)] = up[Rq(d)] /\ up'[Pr(d)] = up[Pr(d)]
<1>1. s \in Sockets /\ Rq(c) \in Sockets /\ Pr(c) \in Sockets BY SocketsDiffer
<1>2. /\ \A r \in Sockets \ {s} : up'[r] = up[r]
      /\ Len(up'[s]) = Len(up[s]) - k
      /\ \A n \in 1 .. Len(up'[s]) : up'[s][n] = up[s][n + k]
      /\ up'[s] \in Seq(Packets)
  BY <1>1, DrainType
<1>3. Len(up[s]) \in Nat /\ Len(up'[s]) \in Nat /\ up[s] \in Seq(Packets)
  BY <1>1, <1>2, LeftNat, LenProperties
<1>4. \A p : AllAre(up[s], p) => AllAre(up'[s], p)
  <2>1. \A n \in 1 .. Len(up'[s]) : n + k \in 1 .. Len(up[s])
    <3> DEFINE a == Len(up[s])
               b == Len(up'[s])
    <3>1. a \in Nat /\ b \in Nat /\ b = a - k BY <1>2, <1>3
    <3> HIDE DEF a, b
    <3>2. \A n \in 1 .. b : n + k \in 1 .. a BY <3>1
    <3> QED BY <3>2 DEF a, b
  <2> QED BY <1>2, <2>1 DEF AllAre
<1>5. up'[s] # << >> => up[s] # << >>
  <2> SUFFICES ASSUME up[s] = << >> PROVE up'[s] = << >> OBVIOUS
  <2>1. Len(up[s]) = 0 BY EmptySeq
  <2>2. Len(up'[s]) = 0 BY <1>2, <1>3, <2>1
  <2> QED BY <1>2, <2>2, EmptySeq
<1>6. \A d \in Conns \ {c} : up'[Rq(d)] = up[Rq(d)] /\ up'[Pr(d)] = up[Pr(d)]
  BY <1>2, OthersApart
<1> QED BY <1>1, <1>2, <1>4, <1>5, <1>6

LEMMA DrainRelays ==
    ASSUME TypeOK, NEW c \in Conns, NEW s \in {Rq(c), Pr(c)},
           NEW k \in Nat, k <= Len(up[s]), Drain(s, k), LegsOK(c),
           UNCHANGED <<ask, far, down, todo, got>>, clients \subseteq clients'
    PROVE  LegsOK(c)' /\ \A d \in Conns \ {c} : LegsKept(d)
<1>1. /\ \A p : AllAre(up[Rq(c)], p) => AllAre(up'[Rq(c)], p)
      /\ \A p : AllAre(up[Pr(c)], p) => AllAre(up'[Pr(c)], p)
      /\ up'[Pr(c)] # << >> => up[Pr(c)] # << >>
      /\ \A d \in Conns \ {c} : up'[Rq(d)] = up[Rq(d)] /\ up'[Pr(d)] = up[Pr(d)]
  BY Drained
<1>2. LegsOK(c)'
  <2>1. /\ Fresh(c)' <=> Fresh(c)
        /\ Answerer(c)' = Answerer(c)
        /\ Performed(c)' <=> Performed(c)
        /\ Sent(Rq(c))' = Sent(Rq(c)) /\ Sent(Pr(c))' = Sent(Pr(c))
        /\ Asked(c)' = Asked(c)
    BY DEF Fresh, Answerer, Performed, Sent, Asked
  <2>2. AllAre(up[Rq(c)], Asked(c))' /\ AllAre(up[Pr(c)], Response(c, "owner"))'
    <3>1. AllAre(up'[Rq(c)], Asked(c)) /\ AllAre(up'[Pr(c)], Response(c, "owner"))
      BY <1>1 DEF LegsOK
    <3> QED BY <2>1, <3>1
  <2>3. /\ AllAre(got[Pr(c)], Asked(c))' /\ AllAre(down[Pr(c)], Asked(c))'
        /\ AllAre(got[Rq(c)], Response(c, Answerer(c)))'
        /\ AllAre(down[Rq(c)], Response(c, Answerer(c)))'
    BY <2>1 DEF LegsOK, AllAre, Response
  <2> QED BY <1>1, <2>1, <2>2, <2>3 DEF LegsOK
<1>3. \A d \in Conns \ {c} : LegsKept(d) BY <1>1 DEF LegsKept, Kept
<1> QED BY <1>2, <1>3

-----------------------------------------------------------------------------
(* Which entries and descriptors a step changes *)

LEMMA UpdateUntouched ==
    ASSUME TypeOK, NEW i \in DOMAIN table, NEW e \in Entries,
           table' = [table EXCEPT ![i] = e], file' = file
    PROVE  Untouched({i}) /\ table'[i] = e
BY UpdateType DEF Untouched, EntryUntouched

(* The entries I are deleted; a free descriptor may change, too. *)
LEMMA ClosingUntouched ==
    ASSUME Running(table, file, up, todo), NEW I \in SUBSET DOMAIN table,
           DOMAIN table' = DOMAIN table,
           \A j \in DOMAIN table \ I : table'[j] = table[j],
           \A fd \in Fds : file'[fd] = Closing(I)[fd] \/ file[fd] = Free
    PROVE  Untouched(I)
<1> SUFFICES ASSUME NEW j \in DOMAIN table \ I, NEW fd \in Refs(table[j])
             PROVE  file'[fd] = file[fd]
  BY DEF Untouched, EntryUntouched
<1>1. EntryOK(table[j], file, up, todo) BY DEF Running, TableOK
<1>2. fd \in Fds /\ file[fd] # Free BY <1>1, EndsOpen
<1>3. \A i \in I : fd \notin Refs(table[i]) BY DEF Running, RefsOnce
<1>4. ~ \E i \in I : fd \in {table[i].in, table[i].out} BY <1>3 DEF Refs
<1> QED BY <1>2, <1>4 DEF Closing

(* RdConnect, RdRefused and WrResponseFin delete the entry. *)
LEMMA DroppedUntouched ==
    ASSUME TypeOK, Running(table, file, up, todo), NEW i \in DOMAIN table,
           NEW e \in Entries, table' = [table EXCEPT ![i] = Deleted(e)],
           \A fd \in Fds : file'[fd] = Closing({i})[fd] \/ file[fd] = Free
    PROVE  Untouched({i}) /\ table'[i].type = "NONE"
<1>1. Deleted(e) \in Entries /\ Deleted(e).type = "NONE" BY DeletedType
<1>2. /\ DOMAIN table' = DOMAIN table /\ table'[i] = Deleted(e)
      /\ \A j \in DOMAIN table \ {i} : table'[j] = table[j]
  BY <1>1, UpdateType
<1> QED BY <1>1, <1>2, ClosingUntouched

-----------------------------------------------------------------------------
(* Every read of the server preserves the invariant. *)

LEMMA RdPartialRelays ==
    ASSUME IInv, Relaying, NEW i, NEW k \in 1 .. Room, RdPartial(i, k)
    PROVE  Relaying'
<1> DEFINE e == [table[i] EXCEPT !.ibuf = Filled(i, k), !.heap = "live"]
<1>1. /\ ReadOf(i, k) /\ table' = [table EXCEPT ![i] = e] /\ Drain(Sock(i), k)
      /\ UNCHANGED <<file, clients, backlog, ask, far, down, todo, got>>
  BY DEF RdPartial
<1>2. /\ status = "run" /\ i \in DOMAIN table /\ table[i] \in Entries
      /\ table[i].type = "PKT_IN" /\ table[i].obuf = << >>
      /\ k \in Nat /\ k <= Len(up[Sock(i)])
  BY <1>1, ReaderIs
<1>3. PICK c \in Conns :
        /\ Paired(table[i], c, file) /\ Sock(i) \in {Rq(c), Pr(c)}
        /\ \/ /\ table[i].state = "REQRD" /\ Sock(i) = Rq(c) /\ Fresh(c)
              /\ AllAre(Filled(i, k), Asked(c))
           \/ /\ table[i].state = "RSPFWD" /\ Sock(i) = Pr(c)
              /\ far[Pr(c)] # "none" /\ Performed(c)
              /\ got[Rq(c)] = << >> /\ down[Rq(c)] = << >>
              /\ AllAre(Filled(i, k), Response(c, "owner"))
  BY <1>1, ReaderIs
<1>4. e \in Entries BY <1>1, <1>2, InvParts, ReadType DEF Entries
<1>5. /\ e.state = table[i].state /\ e.ibuf = Filled(i, k) /\ e.obuf = << >>
      /\ e.in = table[i].in /\ e.out = table[i].out
  BY <1>2 DEF Entries
<1> HIDE DEF e
<1>6. Untouched({i}) /\ table'[i] = e BY <1>1, <1>2, <1>4, InvParts, UpdateUntouched
<1>7. LegsOK(c)' /\ \A d \in Conns \ {c} : LegsKept(d)
  BY <1>1, <1>2, <1>3, InvParts, DrainRelays DEF Relaying
<1>8. Paired(table'[i], c, file') BY <1>1, <1>3, <1>5, <1>6 DEF Paired
<1>9. HoldsOK(table[i], c)'
  <2>1. (Fresh(c)' <=> Fresh(c)) /\ (Performed(c)' <=> Performed(c)) /\ Asked(c)' = Asked(c)
    BY <1>1 DEF Fresh, Performed, Asked
  <2>2. CASE table[i].state = "REQRD"
    <3>1. AllAre(table[i].ibuf, Asked(c))'
      BY <1>3, <1>5, <1>6, <2>1, <2>2 DEF AllAre
    <3> QED BY <1>3, <1>5, <1>6, <2>1, <2>2, <3>1 DEF HoldsOK
  <2>3. CASE table[i].state = "RSPFWD"
    <3>1. AllAre(table[i].ibuf, Response(c, "owner"))'
      BY <1>3, <1>5, <1>6, <2>3 DEF AllAre, Response
    <3> QED BY <1>1, <1>3, <1>5, <1>6, <2>1, <2>3, <3>1 DEF HoldsOK
  <2> QED BY <1>3, <2>2, <2>3
<1> QED BY <1>1, <1>2, <1>3, <1>6, <1>7, <1>8, <1>9, HandlerRelays

LEMMA RdDropRelays ==
    ASSUME IInv, Relaying, NEW i, NEW k \in 1 .. Room, RdConnect(i, k) \/ RdRefused(i, k)
    PROVE  Relaying'
<1>1. /\ PacketRead(i, k) /\ ReadOf(i, k) /\ Drain(Sock(i), k)
      /\ clients \subseteq clients'
      /\ UNCHANGED <<backlog, ask, far, down, todo, got>>
  BY DEF RdConnect, RdRefused, ForwardRead, PacketRead
<1>2. /\ status = "run" /\ i \in DOMAIN table /\ table[i].type = "PKT_IN"
      /\ k \in Nat /\ k <= Len(up[Sock(i)])
  BY <1>1, ReaderIs
<1>3. PICK c \in Conns : Paired(table[i], c, file) /\ Sock(i) \in {Rq(c), Pr(c)}
  BY <1>1, PacketIs
<1>4. LegsOK(c)' /\ \A d \in Conns \ {c} : LegsKept(d)
  BY <1>1, <1>2, <1>3, InvParts, DrainRelays DEF Relaying
<1>5. PICK e \in Entries : table' = [table EXCEPT ![i] = Deleted(e)]
  <2>1. Shifted(i, k) \in Entries BY <1>1, InvParts, ShiftedType
  <2>2. [Shifted(i, k) EXCEPT !.state = "REQFWD"] \in Entries
    BY <2>1 DEF Entries, States
  <2> QED BY <2>1, <2>2 DEF RdConnect, RdRefused
<1>6. \A fd \in Fds : file'[fd] = Closing({i})[fd] \/ file[fd] = Free
  <2>1. CASE file' = Closing({i}) BY <2>1
  <2>2. CASE \E fd \in Fds : LowestFree(fd) /\ file' = [Closing({i}) EXCEPT ![fd] = Leaked]
    BY <2>2 DEF LowestFree, Closing
  <2> QED BY <2>1, <2>2 DEF RdConnect, RdRefused
<1>7. Untouched({i}) /\ table'[i].type = "NONE"
  BY <1>2, <1>5, <1>6, InvParts, DroppedUntouched
<1> QED BY <1>1, <1>2, <1>3, <1>4, <1>7, HandlerRelays

LEMMA RdAnswerRelays ==
    ASSUME IInv, Relaying, NEW i, NEW k \in 1 .. Room, RdAnswer(i, k)
    PROVE  Relaying'
<1> DEFINE d == Packet(i, k).conn
           r == Response(d, "server")
           e == [Shifted(i, k) EXCEPT
                   !.state = "RSPWR", !.out = table[i].in, !.in = NoFd,
                   !.obuf = table[i].obuf \o Chunks(r)]
<1>1. /\ PacketRead(i, k) /\ ReadOf(i, k) /\ Packet(i, k).type = "REQUEST"
      /\ table' = [table EXCEPT ![i] = e] /\ Drain(Sock(i), k)
      /\ UNCHANGED <<file, clients, backlog, ask, far, down, todo, got>>
  BY DEF RdAnswer, PacketRead
<1>2. /\ status = "run" /\ i \in DOMAIN table /\ table[i] \in Entries
      /\ table[i].type = "PKT_IN" /\ table[i].obuf = << >>
      /\ k \in Nat /\ k <= Len(up[Sock(i)])
  BY <1>1, ReaderIs
<1>3. PICK c \in Conns :
        /\ Paired(table[i], c, file) /\ Sock(i) \in {Rq(c), Pr(c)}
        /\ table[i].state = "REQRD" /\ Fresh(c) /\ Packet(i, k) = Asked(c)
  BY <1>1, PacketIs, PacketTypes DEF Response
<1>4. d = c /\ ask[c].type = "REQUEST" /\ r \in Packets
  BY <1>1, <1>3, InvParts, PacketTypes DEF Asked
<1>5. AllAre(table[i].obuf \o Chunks(r), r) /\ Len(table[i].obuf \o Chunks(r)) = Parts
      /\ table[i].obuf \o Chunks(r) \in Seq(Packets)
  BY <1>2, <1>4, AllAreChunks, ChunksType, ConcatEmptySeq
<1>6. /\ e \in Entries /\ e.state = "RSPWR" /\ e.obuf = table[i].obuf \o Chunks(r)
      /\ e.out = table[i].in /\ e.in = NoFd
  <2>1. Shifted(i, k) \in Entries BY <1>1, InvParts, ShiftedType
  <2> HIDE DEF r
  <2> QED BY <1>2, <1>5, <2>1 DEF Entries, States
<1> HIDE DEF e
<1>7. Untouched({i}) /\ table'[i] = e BY <1>1, <1>2, <1>6, InvParts, UpdateUntouched
<1>8. LegsOK(c)' /\ \A b \in Conns \ {c} : LegsKept(b)
  BY <1>1, <1>2, <1>3, InvParts, DrainRelays DEF Relaying
<1>9. Paired(table'[i], c, file') BY <1>1, <1>3, <1>6, <1>7 DEF Paired
<1>10. HoldsOK(table[i], c)'
  <2>1. far'[Pr(c)] = "none" /\ Answerer(c)' = "server" BY <1>1, <1>3 DEF Fresh, Answerer
  <2>2. AllAre(table[i].obuf, Response(c, Answerer(c)))'
    BY <1>4, <1>5, <1>6, <1>7, <2>1 DEF AllAre, Response
  <2>3. Len(got'[Rq(c)]) = 0 /\ Len(down'[Rq(c)]) = 0 /\ Len(table'[i].obuf) = Parts
    BY <1>1, <1>3, <1>5, <1>6, <1>7 DEF Fresh
  <2>4. (Sent(Rq(c)) + Len(table[i].obuf))' = Parts BY <2>3, SizeAssumption DEF Sent
  <2> QED BY <1>1, <1>4, <1>6, <1>7, <2>1, <2>2, <2>4, SizeAssumption DEF HoldsOK
<1> QED BY <1>1, <1>2, <1>3, <1>7, <1>8, <1>9, <1>10, HandlerRelays

LEMMA RdForwardRelays ==
    ASSUME IInv, Relaying, NEW i, NEW k \in 1 .. Room, RdForward(i, k)
    PROVE  Relaying'
<1> DEFINE d == Packet(i, k).conn
           p == Packet(i, k)
<1>1. /\ PacketRead(i, k) /\ ReadOf(i, k) /\ Packet(i, k).type = "REQUEST"
      /\ ask[d].name \in clients \ {Root}
      /\ Drain(Sock(i), k) /\ far' = [far EXCEPT ![Pr(d)] = "open"]
      /\ UNCHANGED <<clients, backlog, ask, down, todo, got>>
  BY DEF RdForward, ForwardRead, PacketRead
<1>2. /\ status = "run" /\ i \in DOMAIN table /\ table[i] \in Entries
      /\ table[i].type = "PKT_IN" /\ table[i].obuf = << >>
      /\ k \in Nat /\ k <= Len(up[Sock(i)])
  BY <1>1, ReaderIs
<1>3. PICK c \in Conns :
        /\ Paired(table[i], c, file) /\ Sock(i) \in {Rq(c), Pr(c)}
        /\ table[i].state = "REQRD" /\ Fresh(c) /\ Packet(i, k) = Asked(c)
  BY <1>1, PacketIs, PacketTypes DEF Response
<1>4. d = c /\ ask[c].type = "REQUEST" /\ p \in Packets
  BY <1>1, <1>3, InvParts, PacketTypes DEF Asked
<1>5. PICK fd \in Fds :
        /\ file[fd] = Free /\ file' = [file EXCEPT ![fd] = Pr(c)]
        /\ table' = [table EXCEPT ![i] =
                       [Shifted(i, k) EXCEPT
                          !.state = "REQFWD", !.out = fd,
                          !.obuf = table[i].obuf \o Chunks(p)]]
  BY <1>4 DEF RdForward, LowestFree
<1> DEFINE e == [Shifted(i, k) EXCEPT
                   !.state = "REQFWD", !.out = fd, !.obuf = table[i].obuf \o Chunks(p)]
<1>6. AllAre(table[i].obuf \o Chunks(p), p) /\ Len(table[i].obuf \o Chunks(p)) = Parts
      /\ table[i].obuf \o Chunks(p) \in Seq(Packets)
  BY <1>2, <1>4, AllAreChunks, ChunksType, ConcatEmptySeq
<1>7. /\ e \in Entries /\ e.state = "REQFWD" /\ e.obuf = table[i].obuf \o Chunks(p)
      /\ e.in = table[i].in /\ e.out = fd
  <2>1. /\ Shifted(i, k) \in Entries
        /\ Shifted(i, k) = [table[i] EXCEPT !.ibuf = Shifted(i, k).ibuf, !.heap = "live"]
    BY <1>1, InvParts, ShiftedType
  <2>2. Shifted(i, k).in = table[i].in BY <1>2, <2>1 DEF Entries
  <2> HIDE DEF p
  <2> QED BY <1>2, <1>6, <2>1, <2>2 DEF Entries, States
<1>8. table' = [table EXCEPT ![i] = e] BY <1>5
<1> HIDE DEF e
<1>9. /\ DOMAIN table' = DOMAIN table /\ table'[i] = e
      /\ \A j \in DOMAIN table \ {i} : table'[j] = table[j]
  BY <1>2, <1>7, <1>8, InvParts, UpdateType
<1>10. /\ \A j \in DOMAIN table :
            fd \notin Refs(table[j]) /\ \A g \in Refs(table[j]) : file'[g] = file[g]
       /\ file'[fd] = Pr(c)
  BY <1>2, <1>5, InvParts, NewDescriptor DEF TypeOK
<1>11. Untouched({i}) BY <1>9, <1>10 DEF Untouched, EntryUntouched
<1>12. Paired(table'[i], c, file')
  <2>1. At(file, table[i].in, Rq(c)) BY <1>3 DEF Paired
  <2>2. table[i].in \in Refs(table[i]) BY <2>1, FdsAssumption DEF At, Refs
  <2>3. At(file', table[i].in, Rq(c)) BY <1>2, <1>10, <2>1, <2>2 DEF At
  <2> QED BY <1>7, <1>9, <1>10, <2>3 DEF Paired, At
<1>13. /\ far'[Pr(c)] = "open" /\ far'[Rq(c)] = far[Rq(c)] /\ far[Rq(c)] # "none"
       /\ \A b \in Conns \ {c} : far'[Rq(b)] = far[Rq(b)] /\ far'[Pr(b)] = far[Pr(b)]
  <2>1. far \in [Sockets -> {"none", "open", "fin", "rst", "pipe"}] BY InvParts DEF TypeOK
  <2>2. far[Rq(c)] # "none"
    BY <1>3, CallerHeld, InvParts DEF BacklogOK
  <2> QED BY <1>1, <1>4, <2>1, <2>2, SocketsDiffer, OthersApart
<1>14. /\ \A q : AllAre(up[Rq(c)], q) => AllAre(up'[Rq(c)], q)
       /\ \A q : AllAre(up[Pr(c)], q) => AllAre(up'[Pr(c)], q)
       /\ up'[Pr(c)] # << >> => up[Pr(c)] # << >>
       /\ \A b \in Conns \ {c} : up'[Rq(b)] = up[Rq(b)] /\ up'[Pr(b)] = up[Pr(b)]
  BY <1>1, <1>2, <1>3, InvParts, Drained
<1>15. \A b \in Conns \ {c} : LegsKept(b) BY <1>1, <1>13, <1>14 DEF LegsKept, Kept
<1>16. /\ LegsOK(c) /\ far[Pr(c)] = "none" /\ got[Rq(c)] = << >> /\ down[Rq(c)] = << >>
       /\ got[Pr(c)] = << >> /\ down[Pr(c)] = << >>
  BY <1>3 DEF Relaying, Fresh, LegsOK
<1>17. LegsOK(c)'
  <2>1. Asked(c)' = Asked(c) /\ Answerer(c)' = "owner" BY <1>1, <1>13 DEF Asked, Answerer
  <2>2. /\ AllAre(up[Rq(c)], Asked(c))' /\ AllAre(up[Pr(c)], Response(c, "owner"))'
    <3>1. AllAre(up'[Rq(c)], Asked(c)) /\ AllAre(up'[Pr(c)], Response(c, "owner"))
      BY <1>14, <1>16 DEF LegsOK
    <3> QED BY <2>1, <3>1
  <2>3. /\ AllAre(got[Pr(c)], Asked(c))' /\ AllAre(down[Pr(c)], Asked(c))'
        /\ AllAre(got[Rq(c)], Response(c, Answerer(c)))'
        /\ AllAre(down[Rq(c)], Response(c, Answerer(c)))'
    BY <1>1, <1>16 DEF AllAre
  <2>4. Sent(Pr(c))' <= Parts /\ Sent(Rq(c))' <= Parts
    BY <1>1, <1>16, SizeAssumption DEF Sent
  <2>5. ~ (todo[Pr(c)] > 0) /\ up[Pr(c)] = << >> BY <1>16 DEF LegsOK
  <2>6. ~ (todo'[Pr(c)] > 0) /\ up'[Pr(c)] = << >> BY <1>1, <1>14, <2>5
  <2> QED BY <1>1, <1>4, <1>13, <1>16, <2>2, <2>3, <2>4, <2>6 DEF LegsOK
<1>18. HoldsOK(table[i], c)'
  <2>1. AllAre(table[i].obuf, Asked(c))'
    <3>1. AllAre(table'[i].obuf, Asked(c)) BY <1>3, <1>6, <1>7, <1>9
    <3>2. Asked(c)' = Asked(c) BY <1>1 DEF Asked
    <3> QED BY <3>1, <3>2
  <2>2. Len(got'[Pr(c)]) = 0 /\ Len(down'[Pr(c)]) = 0 /\ Len(table'[i].obuf) = Parts
    BY <1>1, <1>6, <1>7, <1>9, <1>16
  <2>3. (Sent(Pr(c)) + Len(table[i].obuf))' <= Parts BY <2>2, SizeAssumption DEF Sent
  <2> QED BY <1>1, <1>7, <1>9, <1>13, <1>16, <2>1, <2>3 DEF HoldsOK
<1> QED BY <1>1, <1>2, <1>3, <1>11, <1>12, <1>15, <1>17, <1>18, HandlerRelays

LEMMA RdResponseRelays ==
    ASSUME IInv, Relaying, NEW i, NEW k \in 1 .. Room, RdResponse(i, k)
    PROVE  Relaying'
<1> DEFINE p == Packet(i, k)
           e == [Shifted(i, k) EXCEPT
                   !.state = "RSPWR", !.obuf = table[i].obuf \o Chunks(p)]
<1>1. /\ PacketRead(i, k) /\ ReadOf(i, k) /\ p.type = "RESPONSE"
  BY DEF RdResponse, PacketRead
<1>2. /\ status = "run" /\ i \in DOMAIN table /\ table[i] \in Entries
      /\ table[i].type = "PKT_IN" /\ table[i].obuf = << >>
      /\ k \in Nat /\ k <= Len(up[Sock(i)])
  BY <1>1, ReaderIs
<1>3. PICK c \in Conns :
        /\ Paired(table[i], c, file) /\ Sock(i) \in {Rq(c), Pr(c)}
        /\ table[i].state = "RSPFWD" /\ far[Pr(c)] # "none" /\ Performed(c)
        /\ got[Rq(c)] = << >> /\ down[Rq(c)] = << >>
        /\ p = Response(c, "owner")
  <2>1. \A c \in Conns : p # Asked(c) BY <1>1, InvParts, PacketTypes
  <2> QED BY <1>1, <2>1, PacketIs
<1>4. /\ table' = [table EXCEPT ![i] = e] /\ Drain(Sock(i), k)
      /\ UNCHANGED <<file, clients, backlog, ask, far, down, todo, got>>
  BY <1>3 DEF RdResponse
<1>5. p \in Packets BY <1>3, InvParts, PacketTypes
<1>6. AllAre(table[i].obuf \o Chunks(p), p) /\ Len(table[i].obuf \o Chunks(p)) = Parts
      /\ table[i].obuf \o Chunks(p) \in Seq(Packets)
  BY <1>2, <1>5, AllAreChunks, ChunksType, ConcatEmptySeq
<1>7. /\ e \in Entries /\ e.state = "RSPWR" /\ e.obuf = table[i].obuf \o Chunks(p)
      /\ e.in = table[i].in /\ e.out = table[i].out
  <2>1. /\ Shifted(i, k) \in Entries
        /\ Shifted(i, k) = [table[i] EXCEPT !.ibuf = Shifted(i, k).ibuf, !.heap = "live"]
    BY <1>1, InvParts, ShiftedType
  <2>2. Shifted(i, k).in = table[i].in /\ Shifted(i, k).out = table[i].out
    BY <1>2, <2>1 DEF Entries
  <2> HIDE DEF p
  <2> QED BY <1>2, <1>6, <2>1, <2>2 DEF Entries, States
<1> HIDE DEF e
<1>8. Untouched({i}) /\ table'[i] = e BY <1>2, <1>4, <1>7, InvParts, UpdateUntouched
<1>9. LegsOK(c) /\ LegsOK(c)' /\ \A b \in Conns \ {c} : LegsKept(b)
  BY <1>2, <1>3, <1>4, InvParts, DrainRelays DEF Relaying
<1>10. Paired(table'[i], c, file') BY <1>3, <1>4, <1>7, <1>8 DEF Paired
<1>11. HoldsOK(table[i], c)'
  <2>1. far'[Pr(c)] # "none" /\ Answerer(c)' = "owner" BY <1>3, <1>4 DEF Answerer
  <2>2. AllAre(table[i].obuf, Response(c, Answerer(c)))'
    BY <1>3, <1>6, <1>7, <1>8, <2>1 DEF AllAre, Response
  <2>3. Len(got'[Rq(c)]) = 0 /\ Len(down'[Rq(c)]) = 0 /\ Len(table'[i].obuf) = Parts
    BY <1>3, <1>4, <1>6, <1>7, <1>8
  <2>4. (Sent(Rq(c)) + Len(table[i].obuf))' = Parts BY <2>3, SizeAssumption DEF Sent
  <2>5. Performed(c)' BY <1>3, <1>4 DEF Performed
  <2>6. ask'[c].type = "REQUEST" BY <1>3, <1>4, <1>9 DEF LegsOK
  <2> QED BY <1>7, <1>8, <2>2, <2>4, <2>5, <2>6, SizeAssumption DEF HoldsOK
<1> QED BY <1>2, <1>3, <1>4, <1>8, <1>9, <1>10, <1>11, HandlerRelays

-----------------------------------------------------------------------------
(* Every write of the server preserves the invariant. *)

LEMMA WriterIs ==
    ASSUME IInv, Relaying, NEW i, Writing(i)
    PROVE  /\ status = "run" /\ i \in DOMAIN table /\ table[i] \in Entries
           /\ table[i].type = "PKT_IN"
           /\ \E c \in Conns :
                /\ Paired(table[i], c, file) /\ HoldsOK(table[i], c) /\ LegsOK(c)
                /\ far[Rq(c)] # "none" /\ ReadOK(table[i], c, up, todo)
                /\ \/ table[i].state = "REQFWD" /\ Sock(i) = Pr(c)
                   \/ table[i].state = "RSPWR" /\ Sock(i) = Rq(c)
<1>1. /\ status = "run" /\ i \in DOMAIN table /\ table[i].type = "PKT_IN"
      /\ table[i].state \in {"RSPWR", "REQFWD"} /\ table[i] \in Entries
  BY InvParts, TableEntries DEF Writing, Handling, WriteStates, TypeOK
<1>2. EntryOK(table[i], file, up, todo) BY <1>1, InvParts DEF Running, TableOK
<1>3. PICK c \in Conns : Paired(table[i], c, file) /\ ReadOK(table[i], c, up, todo)
  BY <1>1, <1>2 DEF EntryOK
<1>4. HoldsOK(table[i], c) /\ LegsOK(c) BY <1>1, <1>3 DEF Relaying
<1>5. far[Rq(c)] # "none" BY <1>3, CallerHeld, InvParts DEF BacklogOK
<1>6. \/ table[i].state = "REQFWD" /\ Sock(i) = Pr(c)
      \/ table[i].state = "RSPWR" /\ Sock(i) = Rq(c)
  BY <1>1, <1>3 DEF Paired, At, Sock, PolledFd, ReadStates
<1> QED BY <1>1, <1>3, <1>4, <1>5, <1>6

LEMMA WrChunkRelays ==
    ASSUME IInv, Relaying, NEW i, WrChunk(i)
    PROVE  Relaying'
<1> DEFINE b == table[i].obuf
           e == [table[i] EXCEPT !.obuf = Tail(b)]
           s == Sock(i)
<1>1. /\ Writing(i) /\ b # << >> /\ table' = [table EXCEPT ![i] = e]
      /\ down' = [down EXCEPT ![s] = Append(down[s], Head(b))]
      /\ UNCHANGED <<status, file, clients, backlog, ask, far, up, todo, got>>
  BY DEF WrChunk
<1>2. /\ status = "run" /\ i \in DOMAIN table /\ table[i] \in Entries
      /\ table[i].type = "PKT_IN"
  BY <1>1, WriterIs
<1>3. PICK c \in Conns :
        /\ Paired(table[i], c, file) /\ HoldsOK(table[i], c) /\ LegsOK(c)
        /\ far[Rq(c)] # "none"
        /\ \/ table[i].state = "REQFWD" /\ s = Pr(c)
           \/ table[i].state = "RSPWR" /\ s = Rq(c)
  BY <1>1, WriterIs
<1>4. b \in Seq(Packets) BY <1>2 DEF Entries
<1>5. Tail(b) \in Seq(Packets) /\ Len(Tail(b)) = Len(b) - 1 /\ Len(b) \in Nat \ {0}
  <2> HIDE DEF b
  <2> QED BY <1>1, <1>4, HeadTailProperties, LenProperties, EmptySeq
<1>6. /\ e \in Entries /\ e.state = table[i].state /\ e.obuf = Tail(b)
      /\ e.in = table[i].in /\ e.out = table[i].out
  <2> HIDE DEF b
  <2> QED BY <1>2, <1>5 DEF Entries
<1> HIDE DEF e
<1>7. Untouched({i}) /\ table'[i] = e BY <1>1, <1>2, <1>6, InvParts, UpdateUntouched
<1>8. Paired(table'[i], c, file') BY <1>1, <1>3, <1>6, <1>7 DEF Paired
<1>9. /\ s \in Sockets /\ Rq(c) \in Sockets /\ Pr(c) \in Sockets /\ Rq(c) # Pr(c)
  BY <1>3, SocketsDiffer
<1>10. /\ down'[s] = Append(down[s], Head(b))
       /\ \A r \in Sockets \ {s} : down'[r] = down[r]
       /\ down[s] \in Seq(Packets)
       /\ \A r \in Sockets : Len(down[r]) \in Nat /\ Len(got[r]) \in Nat
  <2>1. down \in [Sockets -> Seq(Packets)] /\ got \in [Sockets -> Seq(Packets)]
    BY InvParts DEF TypeOK
  <2> QED BY <1>1, <1>9, <2>1, LenProperties
<1>11. \A d \in Conns \ {c} : LegsKept(d)
  BY <1>1, <1>3, <1>10, OthersApart DEF LegsKept, Kept
<1>12. /\ Asked(c)' = Asked(c) /\ Answerer(c)' = Answerer(c)
       /\ (Performed(c)' <=> Performed(c))
  BY <1>1 DEF Asked, Answerer, Performed
<1>13. ASSUME NEW p \in Packets, AllAre(b, p), AllAre(down[s], p),
              Sent(s) + Len(b) <= Parts
       PROVE  /\ AllAre(down'[s], p) /\ AllAre(table'[i].obuf, p)
              /\ Len(got'[s]) + Len(down'[s]) + Len(table'[i].obuf) = Sent(s) + Len(b)
              /\ Len(got'[s]) + Len(down'[s]) <= Parts
  <2>1. Head(b) = p /\ AllAre(Tail(b), p)
    <3> HIDE DEF b
    <3> QED BY <1>1, <1>4, <1>13, AllAreTail
  <2>2. AllAre(down'[s], p) /\ Len(down'[s]) = Len(down[s]) + 1
    BY <1>10, <1>13, <2>1, AllAreAppend
  <2>3. got'[s] = got[s] BY <1>1
  <2> DEFINE g == Len(got[s])
             d == Len(down[s])
             n == Len(b)
  <2>4. g \in Nat /\ d \in Nat /\ n \in Nat \ {0} BY <1>5, <1>9, <1>10
  <2>5. g + d + n <= Parts BY <1>13 DEF Sent
  <2>6. /\ Len(got'[s]) = g /\ Len(down'[s]) = d + 1 /\ Len(table'[i].obuf) = n - 1
    BY <1>5, <1>6, <1>7, <2>2, <2>3
  <2> HIDE DEF g, d, n
  <2>7. g + (d + 1) + (n - 1) = g + d + n /\ g + (d + 1) <= Parts
    BY <2>4, <2>5, SizeAssumption
  <2>8. Sent(s) = g + d BY DEF Sent, g, d
  <2> QED BY <1>6, <1>7, <2>1, <2>2, <2>6, <2>7, <2>8 DEF n
<1>14. CASE table[i].state = "REQFWD"
  <2>1. s = Pr(c) BY <1>3, <1>14
  <2>2. /\ far[Pr(c)] # "none" /\ got[Rq(c)] = << >> /\ down[Rq(c)] = << >>
        /\ AllAre(b, Asked(c)) /\ Sent(Pr(c)) + Len(b) <= Parts
    BY <1>3, <1>14 DEF HoldsOK
  <2>3. Asked(c) \in Packets /\ AllAre(down[s], Asked(c))
    BY <1>3, <2>1, InvParts, PacketTypes DEF LegsOK
  <2>4. /\ AllAre(down'[Pr(c)], Asked(c)) /\ AllAre(table'[i].obuf, Asked(c))
        /\ Sent(Pr(c))' + Len(table'[i].obuf) = Sent(Pr(c)) + Len(b)
        /\ Len(got'[Pr(c)]) + Len(down'[Pr(c)]) <= Parts
    <3>1. Sent(s) + Len(b) <= Parts BY <2>1, <2>2
    <3>2. Sent(Pr(c))' = Len(got'[s]) + Len(down'[s]) /\ Sent(Pr(c)) = Sent(s)
      BY <2>1 DEF Sent
    <3> QED BY <1>13, <2>1, <2>2, <2>3, <3>1, <3>2
  <2>5. down'[Rq(c)] = down[Rq(c)] BY <1>9, <1>10, <2>1
  <2>6. /\ AllAre(up[Rq(c)], Asked(c))' /\ AllAre(got[Pr(c)], Asked(c))'
        /\ AllAre(down[Pr(c)], Asked(c))' /\ AllAre(up[Pr(c)], Response(c, "owner"))'
        /\ AllAre(got[Rq(c)], Response(c, Answerer(c)))'
        /\ AllAre(down[Rq(c)], Response(c, Answerer(c)))'
        /\ AllAre(table[i].obuf, Asked(c))'
    <3>1. AllAre(down[Pr(c)], Asked(c))' /\ AllAre(table[i].obuf, Asked(c))'
      BY <1>12, <2>4
    <3> QED BY <1>1, <1>3, <1>12, <2>5, <3>1 DEF LegsOK, AllAre, Response
  <2>7. Sent(Rq(c))' = Sent(Rq(c)) /\ Sent(Pr(c))' <= Parts
    BY <1>1, <2>4, <2>5 DEF Sent
  <2>8. LegsOK(c)'
    BY <1>1, <1>3, <1>12, <2>2, <2>5, <2>6, <2>7 DEF LegsOK
  <2>9. HoldsOK(table[i], c)'
    <3>1. (Sent(Pr(c)) + Len(table[i].obuf))' <= Parts BY <2>2, <2>4
    <3> QED BY <1>1, <1>6, <1>7, <1>14, <2>2, <2>5, <2>6, <3>1 DEF HoldsOK
  <2> QED BY <1>1, <1>2, <1>3, <1>7, <1>8, <1>11, <2>8, <2>9, HandlerRelays
<1>15. CASE table[i].state = "RSPWR"
  <2> DEFINE p == Response(c, Answerer(c))
  <2>1. s = Rq(c) BY <1>3, <1>15
  <2>2. /\ ask[c].type = "REQUEST" /\ (far[Pr(c)] # "none" => Performed(c))
        /\ AllAre(b, p) /\ Sent(Rq(c)) + Len(b) <= Parts
        /\ far[Rq(c)] = "open" => Sent(Rq(c)) + Len(b) = Parts
    BY <1>3, <1>15 DEF HoldsOK
  <2>3. p \in Packets /\ AllAre(down[s], p)
    BY <1>3, <2>1, InvParts, PacketTypes DEF LegsOK, Answerer
  <2>4. /\ AllAre(down'[Rq(c)], p) /\ AllAre(table'[i].obuf, p)
        /\ Sent(Rq(c))' + Len(table'[i].obuf) = Sent(Rq(c)) + Len(b)
        /\ Len(got'[Rq(c)]) + Len(down'[Rq(c)]) <= Parts
    <3>1. Sent(s) + Len(b) <= Parts BY <2>1, <2>2
    <3>2. Sent(Rq(c))' = Len(got'[s]) + Len(down'[s]) /\ Sent(Rq(c)) = Sent(s)
      BY <2>1 DEF Sent
    <3> HIDE DEF p
    <3> QED BY <1>13, <2>1, <2>2, <2>3, <3>1, <3>2
  <2>5. down'[Pr(c)] = down[Pr(c)] BY <1>9, <1>10, <2>1
  <2>6. Response(c, Answerer(c))' = p BY <1>12 DEF Response
  <2>7. /\ AllAre(up[Rq(c)], Asked(c))' /\ AllAre(got[Pr(c)], Asked(c))'
        /\ AllAre(down[Pr(c)], Asked(c))' /\ AllAre(up[Pr(c)], Response(c, "owner"))'
        /\ AllAre(got[Rq(c)], Response(c, Answerer(c)))'
        /\ AllAre(down[Rq(c)], Response(c, Answerer(c)))'
        /\ AllAre(table[i].obuf, Response(c, Answerer(c)))'
    <3>1. /\ AllAre(down[Rq(c)], Response(c, Answerer(c)))'
          /\ AllAre(table[i].obuf, Response(c, Answerer(c)))'
      BY <2>4, <2>6
    <3> QED BY <1>1, <1>3, <1>12, <2>5, <3>1 DEF LegsOK, AllAre, Response
  <2>8. Sent(Pr(c))' = Sent(Pr(c)) /\ Sent(Rq(c))' <= Parts
    BY <1>1, <2>4, <2>5 DEF Sent
  <2>9. LegsOK(c)'
    BY <1>1, <1>3, <1>12, <2>2, <2>5, <2>7, <2>8 DEF LegsOK
  <2>10. HoldsOK(table[i], c)'
    <3>1. /\ (Sent(Rq(c)) + Len(table[i].obuf))' <= Parts
          /\ far'[Rq(c)] = "open" => (Sent(Rq(c)) + Len(table[i].obuf))' = Parts
      BY <1>1, <2>2, <2>4
    <3> QED BY <1>1, <1>6, <1>7, <1>12, <1>15, <2>2, <2>7, <3>1 DEF HoldsOK
  <2> QED BY <1>1, <1>2, <1>3, <1>7, <1>8, <1>11, <2>9, <2>10, HandlerRelays
<1> QED BY <1>3, <1>14, <1>15

LEMMA WrRequestFinRelays ==
    ASSUME IInv, Relaying, NEW i, WrRequestFin(i)
    PROVE  Relaying'
<1> DEFINE e == [table[i] EXCEPT !.state = "RSPFWD",
                                 !.in = table[i].out, !.out = table[i].in]
<1>1. /\ Writing(i) /\ table[i].state = "REQFWD" /\ table[i].obuf = << >>
      /\ table' = [table EXCEPT ![i] = e]
      /\ UNCHANGED <<status, file, clients, backlog, netVars>>
  BY DEF WrRequestFin, Written
<1>2. /\ status = "run" /\ i \in DOMAIN table /\ table[i] \in Entries
      /\ table[i].type = "PKT_IN"
  BY <1>1, WriterIs
<1>3. PICK c \in Conns :
        /\ Paired(table[i], c, file) /\ HoldsOK(table[i], c) /\ LegsOK(c)
        /\ ReadOK(table[i], c, up, todo)
  BY <1>1, WriterIs
<1>4. table[i].ibuf = << >> BY <1>1, <1>3 DEF ReadOK
<1>5. /\ e \in Entries /\ e.state = "RSPFWD" /\ e.ibuf = << >> /\ e.obuf = << >>
      /\ e.in = table[i].out /\ e.out = table[i].in
  BY <1>1, <1>2, <1>4 DEF Entries, States
<1> HIDE DEF e
<1>6. Untouched({i}) /\ table'[i] = e BY <1>1, <1>2, <1>5, InvParts, UpdateUntouched
<1>7. Paired(table'[i], c, file') BY <1>1, <1>3, <1>5, <1>6 DEF Paired
<1>8. ask' = ask /\ \A d \in Conns : LegsKept(d) BY <1>1 DEF netVars, LegsKept, Kept
<1>9. LegsOK(c)' BY <1>1, <1>3, <1>8, LegsOKKept
<1>10. HoldsOK(table[i], c)'
  <2>1. far[Pr(c)] # "none" /\ got[Rq(c)] = << >> /\ down[Rq(c)] = << >>
    BY <1>1, <1>3 DEF HoldsOK
  <2>2. AllAre(table[i].ibuf, Response(c, "owner"))' BY <1>5, <1>6 DEF AllAre
  <2> QED BY <1>1, <1>5, <1>6, <2>1, <2>2 DEF HoldsOK, netVars
<1> QED BY <1>1, <1>2, <1>3, <1>6, <1>7, <1>8, <1>9, <1>10, HandlerRelays

LEMMA WrResponseFinRelays ==
    ASSUME IInv, Relaying, NEW i, WrResponseFin(i)
    PROVE  Relaying'
<1>1. /\ Writing(i) /\ file' = Closing({i})
      /\ table' = [table EXCEPT ![i] = Deleted([table[i] EXCEPT !.state = "CLOSED"])]
      /\ UNCHANGED <<status, clients, backlog, netVars>>
  BY DEF WrResponseFin, Written
<1>2. status = "run" /\ i \in DOMAIN table /\ table[i] \in Entries BY <1>1, WriterIs
<1>3. [table[i] EXCEPT !.state = "CLOSED"] \in Entries BY <1>2 DEF Entries, States
<1>4. Untouched({i}) /\ table'[i].type = "NONE"
  BY <1>1, <1>2, <1>3, InvParts, DroppedUntouched
<1> QED BY <1>1, <1>2, <1>4, RemovalRelays

(* Poll, AcceptFails, RdEnd, WrReset; and WrShort, which deletes nothing *)
LEMMA RemoveRelays ==
    ASSUME IInv, Relaying, status = "run", NEW I \in SUBSET DOMAIN table, Remove(I),
           UNCHANGED <<clients, netVars>>
    PROVE  Relaying'
<1>1. /\ DOMAIN table' = DOMAIN table
      /\ \A i \in I : table'[i] = Deleted(table[i])
      /\ \A i \in DOMAIN table \ I : table'[i] = table[i]
  BY InvParts, RemoveType
<1>2. file' = Closing(I) /\ (backlog' = backlog \/ backlog' = << >>) BY DEF Remove
<1>3. Untouched(I) BY <1>1, <1>2, InvParts, ClosingUntouched
<1>4. \A i \in I : table'[i].type = "NONE"
  BY <1>1, InvParts, TableEntries, DeletedType
<1> QED BY <1>2, <1>3, <1>4, RemovalRelays

(* The process ends, and its table is no more. *)
LEMMA EndsRelays ==
    ASSUME Relaying, NEW how \in {"aborted", "killed", "exited", "double free"}, Ends(how)
    PROVE  Relaying'
<1>1. ask' = ask /\ clients' = clients /\ \A d \in Conns : LegsKept(d)
  BY DEF Ends, netVars, LegsKept, Kept
<1>2. \A d \in Conns : LegsOK(d)' BY <1>1, LegsOKKept DEF Relaying
<1>3. status' # "run" BY DEF Ends
<1>4. 1 .. Len(backlog') = {} BY NoneWait DEF Ends
<1> QED BY <1>2, <1>3, <1>4 DEF Relaying

LEMMA AcceptRelays == ASSUME IInv, Relaying, NEW i, Accept(i) PROVE Relaying'
<1> DEFINE c == Head(backlog)
<1>1. /\ status = "run" /\ TypeOK /\ backlog # << >> /\ backlog' = Tail(backlog)
      /\ UNCHANGED <<status, clients, netVars>>
  BY InvParts DEF Accept, Handling
<1>2. PICK fd \in Fds :
        /\ file[fd] = Free
        /\ table' = Append(table, NewEntry("PKT_IN", "REQRD", fd))
        /\ file' = [file EXCEPT ![fd] = Rq(c)]
  BY DEF Accept, LowestFree
<1>3. /\ backlog \in Seq(Conns) /\ c \in Conns /\ c = backlog[1]
      /\ Len(backlog) \in Nat \ {0} /\ Len(backlog') = Len(backlog) - 1
      /\ \A n \in 1 .. Len(backlog') : backlog'[n] = backlog[n + 1]
  <2>1. backlog \in Seq(Conns) BY <1>1 DEF TypeOK
  <2>2. Len(backlog) \in Nat \ {0} BY <1>1, <2>1, LenProperties, EmptySeq
  <2> QED BY <1>1, <2>1, <2>2, HeadTailProperties, ElementOfSeq
<1>4. \A n \in 1 .. Len(backlog') : n + 1 \in 1 .. Len(backlog) BY <1>3
<1>5. Fresh(c) /\ ask' = ask /\ \A d \in Conns : LegsKept(d)
  BY <1>1, <1>3 DEF Relaying, netVars, LegsKept, Kept
<1>6. \A d \in Conns : LegsOK(d)' BY <1>1, <1>5, LegsOKKept DEF Relaying
<1>7. ASSUME NEW n \in 1 .. Len(backlog') PROVE Fresh(backlog[n])'
  <2>1. Fresh(backlog[n + 1]) /\ backlog'[n] = backlog[n + 1]
    BY <1>3, <1>4 DEF Relaying
  <2> QED BY <1>1, <2>1 DEF Fresh, netVars
<1> DEFINE m == Len(table) + 1
<1>8. /\ table \in Seq(Entries) /\ NewEntry("PKT_IN", "REQRD", fd) \in Entries
      /\ DOMAIN table = 1 .. Len(table) /\ Len(table) \in Nat
  BY <1>1, NewEntryType, LenProperties DEF TypeOK, Types, States
<1>9. /\ Len(table') = m /\ table'[m] = NewEntry("PKT_IN", "REQRD", fd)
      /\ \A j \in DOMAIN table : table'[j] = table[j]
      /\ table' \in Seq(Entries)
  BY <1>2, <1>8, AppendProperties
<1>10. DOMAIN table' = 1 .. m BY <1>9, LenProperties
<1>11. file'[fd] = Rq(c) BY <1>1, <1>2 DEF TypeOK
<1>12. \A j \in DOMAIN table : \A g \in Refs(table[j]) : file'[g] = file[g]
  BY <1>1, <1>2, InvParts, NewDescriptor
<1>13. ASSUME NEW j \in DOMAIN table', NEW d \in Conns,
              table'[j].type = "PKT_IN", Paired(table'[j], d, file')
       PROVE  HoldsOK(table[j], d)'
  <2>1. CASE j = m
    <3>1. /\ table'[j].state = "REQRD" /\ table'[j].in = fd
          /\ table'[j].ibuf = << >> /\ table'[j].obuf = << >>
      BY <1>9, <2>1 DEF NewEntry
    <3>2. d = c BY <1>3, <1>11, <1>13, <3>1, SocketsDiffer DEF Paired, At
    <3>3. Fresh(d)' BY <1>1, <1>5, <3>2 DEF Fresh, netVars
    <3>4. AllAre(table[j].ibuf, Asked(d))' BY <3>1 DEF AllAre
    <3> QED BY <3>1, <3>3, <3>4 DEF HoldsOK
  <2>2. CASE j # m
    <3>1. j \in DOMAIN table
      <4> HIDE DEF c
      <4> QED BY <1>8, <1>10, <1>13, <2>2
    <3>2. EntryUntouched(j) BY <1>9, <1>12, <3>1 DEF EntryUntouched
    <3>3. table[j].type = "PKT_IN" /\ Paired(table[j], d, file)
      BY <1>1, <1>13, <3>1, <3>2, UntouchedPaired
    <3>4. HoldsOK(table[j], d) BY <1>1, <3>1, <3>3 DEF Relaying
    <3> QED BY <1>5, <1>9, <3>1, <3>4, HoldsOKKept
  <2> QED BY <2>1, <2>2
<1> QED BY <1>6, <1>7, <1>13 DEF Relaying

-----------------------------------------------------------------------------
(* Every step of the other ends preserves the invariant. *)

LEMMA DialRelays == ASSUME IInv, Relaying, NEW c \in Conns, Dial(c) PROVE Relaying'
<1>1. /\ far[Rq(c)] = "none" /\ far' = [far EXCEPT ![Rq(c)] = "open"]
      /\ todo' = [todo EXCEPT ![Rq(c)] = Parts] /\ backlog' = Append(backlog, c)
      /\ UNCHANGED <<table, file, status, clients, ask, up, down, got>>
  BY DEF Dial, serverVars
<1>2. /\ Rq(c) \in Sockets /\ Pr(c) \in Sockets /\ Rq(c) # Pr(c)
      /\ \A d \in Conns \ {c} : Rq(d) # Rq(c) /\ Pr(d) # Rq(c)
  BY SocketsDiffer
<1>3. /\ far'[Rq(c)] = "open"
      /\ \A s \in Sockets \ {Rq(c)} : far'[s] = far[s] /\ todo'[s] = todo[s]
  BY <1>1, <1>2, InvParts DEF TypeOK
<1>4. \A d \in Conns \ {c} : LegsKept(d)
  BY <1>1, <1>2, <1>3, SocketsDiffer DEF LegsKept, Kept
<1>5. LegsOK(c) /\ Fresh(c) BY <1>1 DEF Relaying, LegsOK
<1>6. Fresh(c)' BY <1>1, <1>2, <1>3, <1>5 DEF Fresh
<1>7. LegsOK(c)'
  <2>1. /\ Asked(c)' = Asked(c) /\ Answerer(c)' = Answerer(c)
        /\ (Performed(c)' <=> Performed(c))
        /\ Sent(Rq(c))' = Sent(Rq(c)) /\ Sent(Pr(c))' = Sent(Pr(c))
    BY <1>1, <1>2, <1>3 DEF Asked, Answerer, Performed, Sent
  <2> QED BY <1>1, <1>2, <1>3, <1>5, <1>6, <2>1 DEF LegsOK, AllAre, Response
<1>8. ASSUME NEW i \in DOMAIN table PROVE ~ Paired(table[i], c, file)
  BY <1>1, CallerHeld, InvParts DEF BacklogOK
<1>9. \A n \in 1 .. Len(backlog') : Fresh(backlog'[n]) /\ backlog'[n] \in Conns
  <2>1. backlog \in Seq(Conns) BY InvParts DEF TypeOK
  <2>2. /\ Len(backlog') = Len(backlog) + 1 /\ backlog'[Len(backlog) + 1] = c
        /\ \A n \in 1 .. Len(backlog) : backlog'[n] = backlog[n]
    BY <1>1, <2>1, AppendProperties
  <2>3. \A n \in 1 .. Len(backlog) : Fresh(backlog[n]) /\ backlog[n] \in Conns
    BY <2>1, ElementOfSeq DEF Relaying
  <2>4. \A n \in 1 .. Len(backlog') : n \in 1 .. Len(backlog) \/ n = Len(backlog) + 1
    <3>1. Len(backlog) \in Nat BY <2>1, LenProperties
    <3> QED BY <2>2, <3>1
  <2>5. ASSUME NEW n \in 1 .. Len(backlog')
        PROVE  Fresh(backlog'[n]) /\ backlog'[n] \in Conns
    <3>1. CASE n \in 1 .. Len(backlog) BY <2>2, <2>3, <3>1
    <3>2. CASE n = Len(backlog) + 1 BY <1>5, <2>2, <3>2
    <3> QED BY <2>4, <3>1, <3>2
  <2> QED BY <2>5
<1> QED BY <1>1, <1>4, <1>6, <1>7, <1>8, <1>9, EnvironmentRelays

(* The connections that wait are those that waited before. *)
LEMMA WaitingFresh ==
    ASSUME IInv, Relaying, backlog' = backlog
    PROVE  \A n \in 1 .. Len(backlog') : Fresh(backlog'[n]) /\ backlog'[n] \in Conns
<1>1. backlog \in Seq(Conns) BY InvParts DEF TypeOK
<1> QED BY <1>1, ElementOfSeq DEF Relaying

LEMMA FarSendRelays ==
    ASSUME IInv, Relaying, NEW s \in Sockets, FarSend(s) PROVE Relaying'
<1>1. /\ far[s] = "open" /\ todo[s] > 0
      /\ up' = [up EXCEPT ![s] = Append(up[s], Outgoing(s))]
      /\ todo' = [todo EXCEPT ![s] = todo[s] - 1]
      /\ UNCHANGED <<table, file, status, clients, backlog, ask, far, down, got>>
  BY DEF FarSend, serverVars
<1>2. PICK c \in Conns : s \in {Rq(c), Pr(c)} BY DEF Sockets, Legs, Rq, Pr
<1>3. /\ Rq(c) \in Sockets /\ Pr(c) \in Sockets /\ Rq(c) # Pr(c) BY SocketsDiffer
<1>4. /\ up'[s] = Append(up[s], Outgoing(s)) /\ todo'[s] = todo[s] - 1
      /\ todo[s] \in Int /\ up[s] \in Seq(Packets)
      /\ \A r \in Sockets \ {s} : up'[r] = up[r] /\ todo'[r] = todo[r]
  <2>1. up \in [Sockets -> Seq(Packets)] /\ todo \in [Sockets -> 0 .. Parts]
    BY InvParts DEF TypeOK
  <2>2. todo[s] \in Int BY <2>1, SizeAssumption
  <2> QED BY <1>1, <2>1, <2>2
<1>5. \A d \in Conns \ {c} : LegsKept(d)
  BY <1>1, <1>2, <1>4, OthersApart DEF LegsKept, Kept
<1>6. LegsOK(c) BY DEF Relaying
<1>7. /\ Asked(c) \in Packets /\ Response(c, "owner") \in Packets
      /\ s = Rq(c) => Outgoing(s) = Asked(c)
      /\ s = Pr(c) => Outgoing(s) = Response(c, "owner")
  <2>1. Asked(c) \in Packets /\ Response(c, "owner") \in Packets
    BY InvParts, PacketTypes
  <2>2. /\ Rq(c)[1] = "rq" /\ Rq(c)[2] = c /\ Pr(c)[1] = "pr" /\ Pr(c)[2] = c
    BY DEF Rq, Pr
  <2> QED BY <2>1, <2>2 DEF Outgoing
<1>8. AllAre(up'[Rq(c)], Asked(c)) /\ AllAre(up'[Pr(c)], Response(c, "owner"))
  <2>1. CASE s = Rq(c)
    BY <1>3, <1>4, <1>6, <1>7, <2>1, AllAreAppend DEF LegsOK
  <2>2. CASE s = Pr(c)
    BY <1>3, <1>4, <1>6, <1>7, <2>2, AllAreAppend DEF LegsOK
  <2> QED BY <1>2, <2>1, <2>2
<1>9. /\ Asked(c)' = Asked(c) /\ Answerer(c)' = Answerer(c)
      /\ (Performed(c)' <=> Performed(c)) /\ (Fresh(c)' <=> Fresh(c))
      /\ Sent(Rq(c))' = Sent(Rq(c)) /\ Sent(Pr(c))' = Sent(Pr(c))
  BY <1>1 DEF Asked, Answerer, Performed, Fresh, Sent
<1>10. todo'[Pr(c)] > 0 \/ up'[Pr(c)] # << >> => far[Pr(c)] # "none" /\ Performed(c)
  <2>1. CASE s = Pr(c) BY <1>1, <1>6, <2>1 DEF LegsOK
  <2>2. CASE s # Pr(c) BY <1>3, <1>4, <1>6, <2>2 DEF LegsOK
  <2> QED BY <2>1, <2>2
<1>11. LegsOK(c)'
  <2>1. AllAre(up[Rq(c)], Asked(c))' /\ AllAre(up[Pr(c)], Response(c, "owner"))'
    BY <1>8, <1>9
  <2>2. /\ AllAre(got[Pr(c)], Asked(c))' /\ AllAre(down[Pr(c)], Asked(c))'
        /\ AllAre(got[Rq(c)], Response(c, Answerer(c)))'
        /\ AllAre(down[Rq(c)], Response(c, Answerer(c)))'
    BY <1>1, <1>6, <1>9 DEF LegsOK, AllAre, Response
  <2> QED BY <1>1, <1>6, <1>9, <1>10, <2>1, <2>2 DEF LegsOK
<1>12. \A i : HoldsOK(table[i], c) => HoldsOK(table[i], c)'
  BY <1>1, <1>9 DEF HoldsOK, AllAre, Response
<1> QED BY <1>1, <1>5, <1>9, <1>11, <1>12, WaitingFresh, EnvironmentRelays

(* FarClose, FarDies, FarDeclines, Bounce: the other end of a connection    *)
(* is no longer there, and chunks on their way to it may be lost.           *)
Leaves(s) ==
    /\ far[s] # "none" /\ \E x \in {"fin", "rst", "pipe"} : far' = [far EXCEPT ![s] = x]
    /\ down' = down \/ down' = [down EXCEPT ![s] = << >>]
    /\ todo' = todo \/ todo' = [todo EXCEPT ![s] = 0]
    /\ UNCHANGED <<table, file, status, clients, backlog, ask, up, got>>

LEMMA LeavesRelays ==
    ASSUME IInv, Relaying, NEW s \in Sockets, Leaves(s) PROVE Relaying'
<1>1. PICK c \in Conns : s \in {Rq(c), Pr(c)} BY DEF Sockets, Legs, Rq, Pr
<1>2. /\ Rq(c) \in Sockets /\ Pr(c) \in Sockets /\ Rq(c) # Pr(c) BY SocketsDiffer
<1>3. /\ far'[s] \notin {"none", "open"} /\ far[s] # "none"
      /\ down'[s] = down[s] \/ down'[s] = << >>
      /\ todo'[s] = todo[s] \/ todo'[s] = 0
      /\ \A r \in Sockets \ {s} :
           far'[r] = far[r] /\ down'[r] = down[r] /\ todo'[r] = todo[r]
      /\ UNCHANGED <<table, file, status, clients, backlog, ask, up, got>>
  BY InvParts DEF Leaves, TypeOK
<1>4. \A d \in Conns \ {c} : LegsKept(d)
  BY <1>1, <1>3, OthersApart DEF LegsKept, Kept
<1>5. LegsOK(c) BY DEF Relaying
<1>6. ASSUME NEW r \in {Rq(c), Pr(c)}
      PROVE  /\ far'[r] = "none" <=> far[r] = "none"
             /\ far'[r] = "open" => far[r] = "open" /\ down'[r] = down[r]
             /\ down'[r] # << >> => down[r] # << >>
             /\ todo'[r] > 0 => todo[r] > 0
             /\ \A p : AllAre(down[r], p) => AllAre(down'[r], p)
             /\ Len(down'[r]) \in Nat /\ Len(down[r]) \in Nat /\ Len(got[r]) \in Nat
             /\ Len(down'[r]) <= Len(down[r])
  <2>1. down[r] \in Seq(Packets) /\ got[r] \in Seq(Packets)
    BY <1>2, InvParts DEF TypeOK
  <2>2. Len(down[r]) \in Nat /\ Len(got[r]) \in Nat BY <2>1, LenProperties
  <2>3. CASE r = s
    <3>1. CASE down'[r] = << >>
      <4>1. Len(down'[r]) = 0 BY <3>1
      <4> QED BY <1>3, <2>2, <2>3, <3>1, <4>1, AllAreNone
    <3>2. CASE down'[r] = down[r] BY <1>3, <2>2, <2>3, <3>2
    <3> QED BY <1>3, <2>3, <3>1, <3>2
  <2>4. CASE r # s
    <3>1. far'[r] = far[r] /\ down'[r] = down[r] /\ todo'[r] = todo[r]
      BY <1>2, <1>3, <2>4
    <3> QED BY <2>2, <3>1
  <2> QED BY <2>3, <2>4
<1>7. /\ Asked(c)' = Asked(c) /\ Answerer(c)' = Answerer(c)
      /\ (Performed(c)' <=> Performed(c)) /\ (Fresh(c) => Fresh(c)')
      /\ \A r \in {Rq(c), Pr(c)} :
           /\ Len(got'[r]) + Len(down'[r]) <= Len(got[r]) + Len(down[r])
           /\ Len(got'[r]) + Len(down'[r]) \in Nat /\ Len(got[r]) + Len(down[r]) \in Nat
  <2>1. \A r \in {Rq(c), Pr(c)} :
           /\ Len(got'[r]) + Len(down'[r]) <= Len(got[r]) + Len(down[r])
           /\ Len(got'[r]) + Len(down'[r]) \in Nat /\ Len(got[r]) + Len(down[r]) \in Nat
    <3> TAKE r \in {Rq(c), Pr(c)}
    <3> DEFINE g == Len(got[r])
               d == Len(down[r])
               e == Len(down'[r])
    <3>1. g \in Nat /\ d \in Nat /\ e \in Nat /\ e <= d BY <1>6
    <3>2. Len(got'[r]) = g BY <1>3
    <3> HIDE DEF g, d, e
    <3>3. g + e <= g + d /\ g + e \in Nat /\ g + d \in Nat BY <3>1
    <3> QED BY <3>2, <3>3 DEF g, d, e
  <2> QED BY <1>3, <1>6, <2>1 DEF Asked, Answerer, Performed, Fresh
<1>8. /\ Sent(Rq(c))' <= Sent(Rq(c)) /\ Sent(Pr(c))' <= Sent(Pr(c))
      /\ Sent(Rq(c))' \in Nat /\ Sent(Rq(c)) \in Nat
      /\ Sent(Pr(c))' \in Nat /\ Sent(Pr(c)) \in Nat
  BY <1>7 DEF Sent
<1>9. LegsOK(c)'
  <2>1. /\ AllAre(up[Rq(c)], Asked(c))' /\ AllAre(up[Pr(c)], Response(c, "owner"))'
        /\ AllAre(got[Pr(c)], Asked(c))'
        /\ AllAre(got[Rq(c)], Response(c, Answerer(c)))'
    BY <1>3, <1>5, <1>7 DEF LegsOK, AllAre, Response
  <2>2. AllAre(down[Pr(c)], Asked(c))'
    <3>1. AllAre(down'[Pr(c)], Asked(c)) BY <1>5, <1>6 DEF LegsOK
    <3> QED BY <1>7, <3>1
  <2>3. AllAre(down[Rq(c)], Response(c, Answerer(c)))'
    <3>1. AllAre(down'[Rq(c)], Response(c, Answerer(c))) BY <1>5, <1>6 DEF LegsOK
    <3>2. Response(c, Answerer(c))' = Response(c, Answerer(c)) BY <1>7 DEF Response
    <3> QED BY <3>1, <3>2
  <2>4. Sent(Pr(c))' <= Parts /\ Sent(Rq(c))' <= Parts
    BY <1>5, <1>8, SizeAssumption DEF LegsOK
  <2> QED BY <1>3, <1>5, <1>6, <1>7, <2>1, <2>2, <2>3, <2>4 DEF LegsOK
<1>10. ASSUME NEW i \in DOMAIN table, Paired(table[i], c, file), HoldsOK(table[i], c)
       PROVE  HoldsOK(table[i], c)'
  <2>1. down'[Rq(c)] # << >> => down[Rq(c)] # << >> BY <1>6
  <2>2. /\ far'[Pr(c)] = "none" <=> far[Pr(c)] = "none"
        /\ far'[Rq(c)] = "open" => far[Rq(c)] = "open" /\ down'[Rq(c)] = down[Rq(c)]
    BY <1>6
  <2>3. Len(table[i].obuf) \in Nat
    BY InvParts, TableEntries, LenProperties DEF Entries
  <2>4. /\ Sent(Rq(c)) + Len(table[i].obuf) <= Parts =>
             Sent(Rq(c))' + Len(table[i].obuf) <= Parts
        /\ Sent(Pr(c)) + Len(table[i].obuf) <= Parts =>
             Sent(Pr(c))' + Len(table[i].obuf) <= Parts
    BY <1>8, <2>3, SizeAssumption
  <2>5. far'[Rq(c)] = "open" => Sent(Rq(c))' = Sent(Rq(c)) BY <1>3, <2>2 DEF Sent
  <2>6. /\ AllAre(table[i].ibuf, Asked(c))' <=> AllAre(table[i].ibuf, Asked(c))
        /\ AllAre(table[i].obuf, Asked(c))' <=> AllAre(table[i].obuf, Asked(c))
        /\ AllAre(table[i].ibuf, Response(c, "owner"))'
             <=> AllAre(table[i].ibuf, Response(c, "owner"))
        /\ AllAre(table[i].obuf, Response(c, Answerer(c)))'
             <=> AllAre(table[i].obuf, Response(c, Answerer(c)))
    BY <1>3, <1>7 DEF AllAre, Response
  <2> QED BY <1>3, <1>7, <1>10, <2>1, <2>2, <2>4, <2>5, <2>6 DEF HoldsOK
<1> QED BY <1>3, <1>4, <1>7, <1>9, <1>10, WaitingFresh, EnvironmentRelays

LEMMA FarRecvRelays ==
    ASSUME IInv, Relaying, NEW s \in Sockets, FarRecv(s) PROVE Relaying'
<1>1. /\ far[s] = "open" /\ down[s] # << >>
      /\ got' = [got EXCEPT ![s] = Append(got[s], Head(down[s]))]
      /\ down' = [down EXCEPT ![s] = Tail(down[s])]
      /\ UNCHANGED <<table, file, status, clients, backlog, ask, far, up>>
  BY DEF FarRecv, serverVars
<1>2. PICK c \in Conns : s \in {Rq(c), Pr(c)} BY DEF Sockets, Legs, Rq, Pr
<1>3. /\ Rq(c) \in Sockets /\ Pr(c) \in Sockets /\ Rq(c) # Pr(c) BY SocketsDiffer
<1>4. /\ got'[s] = Append(got[s], Head(down[s])) /\ down'[s] = Tail(down[s])
      /\ \A r \in Sockets \ {s} : got'[r] = got[r] /\ down'[r] = down[r]
      /\ \A r \in Sockets : got[r] \in Seq(Packets) /\ down[r] \in Seq(Packets)
  BY <1>1, InvParts DEF TypeOK
<1>5. \A r \in Sockets : Len(got[r]) \in Nat /\ Len(down[r]) \in Nat
  BY <1>4, LenProperties
<1>6. LegsOK(c) BY DEF Relaying
<1>7. /\ Asked(c)' = Asked(c) /\ Answerer(c)' = Answerer(c)
  BY <1>1 DEF Asked, Answerer
<1>8. ASSUME NEW p \in Packets, AllAre(got[s], p), AllAre(down[s], p)
      PROVE  /\ AllAre(got'[s], p) /\ AllAre(down'[s], p)
             /\ Len(got'[s]) = Len(got[s]) + 1 /\ Len(down'[s]) = Len(down[s]) - 1
             /\ Len(down[s]) \in Nat \ {0} /\ got'[s] # << >>
  <2>1. /\ Head(down[s]) = p /\ AllAre(Tail(down[s]), p)
        /\ Len(Tail(down[s])) = Len(down[s]) - 1 /\ Len(down[s]) \in Nat \ {0}
    BY <1>1, <1>4, <1>8, AllAreTail
  <2> QED BY <1>4, <1>8, <2>1, AllAreAppend
<1>9. ASSUME NEW p \in Packets, AllAre(got[s], p), AllAre(down[s], p)
      PROVE  Len(got'[s]) + Len(down'[s]) = Sent(s) /\ Len(got[s]) < Sent(s)
  <2> DEFINE g == Len(got[s])
             d == Len(down[s])
  <2>1. /\ g \in Nat /\ d \in Nat \ {0}
        /\ Len(got'[s]) = g + 1 /\ Len(down'[s]) = d - 1
    BY <1>5, <1>8, <1>9
  <2> HIDE DEF g, d
  <2>2. (g + 1) + (d - 1) = g + d /\ g < g + d BY <2>1
  <2> QED BY <2>1, <2>2 DEF Sent, g, d
<1>10. CASE s = Pr(c)
  <2>1. Asked(c) \in Packets BY InvParts, PacketTypes
  <2>2. /\ AllAre(got[s], Asked(c)) /\ AllAre(down[s], Asked(c)) /\ Sent(s) <= Parts
        /\ far[Pr(c)] # "none"
    BY <1>1, <1>6, <1>10 DEF LegsOK
  <2>3. /\ AllAre(got'[s], Asked(c)) /\ AllAre(down'[s], Asked(c))
        /\ Len(got'[s]) = Len(got[s]) + 1
        /\ Len(got'[s]) + Len(down'[s]) = Sent(s) /\ Len(got[s]) < Sent(s)
    BY <1>8, <1>9, <2>1, <2>2
  <2>4. ~ Performed(c)
    <3> DEFINE g == Len(got[s])
               d == Len(down[s])
    <3>1. g \in Nat /\ d \in Nat BY <1>5
    <3>2. g + d <= Parts /\ g < g + d BY <2>2, <2>3 DEF Sent
    <3> HIDE DEF g, d
    <3>3. g # Parts BY <3>1, <3>2, SizeAssumption
    <3> QED BY <1>10, <3>3 DEF Performed, g
  <2>5. ~ (todo[Pr(c)] > 0) /\ up[Pr(c)] = << >> /\ got[Rq(c)] = << >> /\ down[Rq(c)] = << >>
    BY <1>6, <2>2, <2>4 DEF LegsOK
  <2>6. got'[Rq(c)] = << >> /\ down'[Rq(c)] = << >> BY <1>3, <1>4, <1>10, <2>5
  <2>7. /\ \A r \in Sockets \ {s} : todo'[r] = todo[r]
        /\ todo'[s] = todo[s] \/ Len(got[s]) + 1 = Parts
    BY <1>3, InvParts DEF FarRecv, TypeOK
  <2>8. \A d \in Conns \ {c} : LegsKept(d)
    BY <1>1, <1>2, <1>4, <2>7, OthersApart DEF LegsKept, Kept
  <2>9. todo'[Pr(c)] > 0 => Performed(c)'
    BY <1>10, <2>3, <2>5, <2>7 DEF Performed
  <2>10. Sent(Pr(c))' = Sent(Pr(c)) /\ Sent(Rq(c))' = Sent(Rq(c))
    BY <1>10, <2>3, <2>5, <2>6 DEF Sent
  <2>11. LegsOK(c)'
    <3>1. /\ AllAre(got[Pr(c)], Asked(c))' /\ AllAre(down[Pr(c)], Asked(c))'
      BY <1>7, <1>10, <2>3
    <3>2. /\ AllAre(up[Rq(c)], Asked(c))' /\ AllAre(up[Pr(c)], Response(c, "owner"))'
          /\ AllAre(got[Rq(c)], Response(c, Answerer(c)))'
          /\ AllAre(down[Rq(c)], Response(c, Answerer(c)))'
      BY <1>1, <1>6, <1>7, <2>6 DEF LegsOK, AllAre, Response
    <3>3. far'[Rq(c)] # "none" \/ Fresh(c) BY <1>1, <1>6 DEF LegsOK
    <3> QED BY <1>1, <1>6, <2>2, <2>5, <2>6, <2>9, <2>10, <3>1, <3>2, <3>3
            DEF LegsOK, Fresh
  <2>12. ASSUME NEW i \in DOMAIN table, HoldsOK(table[i], c) PROVE HoldsOK(table[i], c)'
    BY <1>1, <1>7, <2>2, <2>4, <2>5, <2>6, <2>10, <2>12
       DEF HoldsOK, AllAre, Response, Fresh
  <2>13. ~ Fresh(c) BY <2>2 DEF Fresh
  <2> QED BY <1>1, <2>8, <2>11, <2>12, <2>13, WaitingFresh, EnvironmentRelays
<1>11. CASE s = Rq(c)
  <2> DEFINE p == Response(c, Answerer(c))
  <2>1. p \in Packets BY InvParts, PacketTypes DEF Answerer
  <2>2. /\ AllAre(got[s], p) /\ AllAre(down[s], p)
    BY <1>6, <1>11 DEF LegsOK
  <2>3. /\ AllAre(got'[s], p) /\ AllAre(down'[s], p)
        /\ Len(got'[s]) + Len(down'[s]) = Sent(s)
    <3> HIDE DEF p
    <3> QED BY <1>8, <1>9, <2>1, <2>2
  <2>4. todo' = todo
    <3>1. s[1] # "pr" BY <1>11 DEF Rq
    <3> QED BY <3>1 DEF FarRecv
  <2>5. got'[Pr(c)] = got[Pr(c)] /\ down'[Pr(c)] = down[Pr(c)] BY <1>3, <1>4, <1>11
  <2>6. \A d \in Conns \ {c} : LegsKept(d)
    BY <1>1, <1>2, <1>4, <2>4, OthersApart DEF LegsKept, Kept
  <2>7. Sent(Pr(c))' = Sent(Pr(c)) /\ Sent(Rq(c))' = Sent(Rq(c))
    BY <1>11, <2>3, <2>5 DEF Sent
  <2>8. (Performed(c)' <=> Performed(c)) BY <2>5 DEF Performed
  <2>9. Response(c, Answerer(c))' = p BY <1>7 DEF Response
  <2>10. LegsOK(c)'
    <3>1. /\ AllAre(got[Rq(c)], Response(c, Answerer(c)))'
          /\ AllAre(down[Rq(c)], Response(c, Answerer(c)))'
      BY <1>11, <2>3, <2>9
    <3>2. /\ AllAre(up[Rq(c)], Asked(c))' /\ AllAre(up[Pr(c)], Response(c, "owner"))'
          /\ AllAre(got[Pr(c)], Asked(c))' /\ AllAre(down[Pr(c)], Asked(c))'
      BY <1>1, <1>6, <1>7, <2>5 DEF LegsOK, AllAre, Response
    <3> QED BY <1>1, <1>6, <1>11, <2>4, <2>5, <2>7, <2>8, <3>1, <3>2 DEF LegsOK
  <2>11. ~ Fresh(c) BY <1>1, <1>11 DEF Fresh
  <2>12. ASSUME NEW i \in DOMAIN table, HoldsOK(table[i], c) PROVE HoldsOK(table[i], c)'
    BY <1>1, <1>7, <1>11, <2>7, <2>8, <2>11, <2>12 DEF HoldsOK, AllAre, Response
  <2> QED BY <1>1, <2>6, <2>10, <2>11, <2>12, WaitingFresh, EnvironmentRelays
<1> QED BY <1>2, <1>10, <1>11

LEMMA FarRelays ==
    ASSUME IInv, Relaying, NEW s \in Sockets, FarStep(s) PROVE Relaying'
<1>1. CASE FarSend(s) BY <1>1, FarSendRelays
<1>2. CASE FarRecv(s) BY <1>2, FarRecvRelays
<1>3. ASSUME \/ FarClose(s) \/ FarDies(s) \/ FarDeclines(s) \/ Bounce(s)
      PROVE  Leaves(s)
  <2>1. far' = [far EXCEPT ![s] = "fin"] \/ far' = [far EXCEPT ![s] = "rst"]
          \/ far' = [far EXCEPT ![s] = "pipe"]
    BY <1>3 DEF FarClose, FarDies, FarDeclines, Bounce
  <2> QED BY <1>3, <2>1 DEF FarClose, FarDies, FarDeclines, Bounce, serverVars, Leaves
<1> QED BY <1>1, <1>2, <1>3, LeavesRelays DEF FarStep

-----------------------------------------------------------------------------
(* Relaying is inductive, together with IInv. *)

LEMMA InitRelays == Init => Relaying
<1> SUFFICES ASSUME Init PROVE Relaying OBVIOUS
<1>1. TypeOK BY InitType
<1>2. PICK fd \in Fds : table = <<NewEntry("LSTN", "LSTN", fd)>> BY DEF Init
<1>3. DOMAIN table = {1} /\ table[1].type = "LSTN" BY <1>2 DEF NewEntry
<1>4. \A s \in Sockets :
        far[s] = "none" /\ up[s] = << >> /\ down[s] = << >> /\ got[s] = << >> /\ todo[s] = 0
  BY DEF Init
<1>5. 1 .. Len(backlog) = {}
  <2>1. backlog = << >> BY DEF Init
  <2> QED BY <2>1
<1>6. ASSUME NEW c \in Conns PROVE LegsOK(c)
  <2>1. Rq(c) \in Sockets /\ Pr(c) \in Sockets BY SocketsDiffer
  <2>2. Sent(Rq(c)) <= Parts /\ Sent(Pr(c)) <= Parts
    <3>1. Len(<< >>) + Len(<< >>) <= Parts BY SizeAssumption
    <3> QED BY <1>4, <2>1, <3>1 DEF Sent
  <2>3. Fresh(c) BY <1>4, <2>1 DEF Fresh
  <2>4. ~ (todo[Pr(c)] > 0) BY <1>4, <2>1
  <2> QED BY <1>4, <2>1, <2>2, <2>3, <2>4, AllAreNone DEF LegsOK
<1> QED BY <1>3, <1>5, <1>6 DEF Relaying

LEMMA WriteRelays ==
    ASSUME IInv, Relaying, NEW i,
           \/ WrChunk(i) \/ WrShort(i) \/ WrReset(i) \/ WrPipe(i)
           \/ WrRequestFin(i) \/ WrResponseFin(i)
    PROVE  Relaying'
<1>1. CASE WrChunk(i) BY <1>1, WrChunkRelays
<1>2. CASE WrShort(i)
  <2>1. status = "run" BY <1>2 DEF WrShort, Writing, Handling
  <2>2. Untouched({}) BY <1>2 DEF WrShort, Untouched, EntryUntouched
  <2> QED BY <1>2, <2>1, <2>2, RemovalRelays DEF WrShort
<1>3. CASE WrReset(i)
  <2>1. status = "run" /\ {i} \in SUBSET DOMAIN table
    BY <1>3, InvParts DEF WrReset, Writing, Handling, TypeOK
  <2> QED BY <1>3, <2>1, RemoveRelays DEF WrReset
<1>4. CASE WrPipe(i) BY <1>4, EndsRelays DEF WrPipe
<1>5. CASE WrRequestFin(i) BY <1>5, WrRequestFinRelays
<1>6. CASE WrResponseFin(i) BY <1>6, WrResponseFinRelays
<1> QED BY <1>1, <1>2, <1>3, <1>4, <1>5, <1>6

LEMMA NextRelays == IInv /\ Relaying /\ [Next]_vars => Relaying'
<1> SUFFICES ASSUME IInv, Relaying, [Next]_vars PROVE Relaying' OBVIOUS
<1>1. CASE Poll
  <2>1. CASE Ends("aborted") BY <2>1, EndsRelays
  <2>2. CASE ~ Ends("aborted")
    <3>1. PICK I \in SUBSET DOMAIN table : Remove(I) /\ UNCHANGED <<clients, netVars>>
      <4>1. {i \in Polled : HungUp(i)} \in SUBSET DOMAIN table BY DEF Polled
      <4> QED BY <1>1, <2>2, <4>1 DEF Poll
    <3>2. status = "run" BY <1>1 DEF Poll, Idle
    <3> QED BY <3>1, <3>2, RemoveRelays
  <2> QED BY <2>1, <2>2
<1>2. CASE PollFails BY <1>2, EndsRelays DEF PollFails
<1>3. ASSUME NEW i \in Slots, Handle(i) PROVE Relaying'
  <2>1. CASE Accept(i) BY <2>1, AcceptRelays
  <2>2. CASE AcceptFails(i) \/ RdEnd(i)
    <3>1. Handling(i) /\ Remove({i}) /\ UNCHANGED <<clients, netVars>>
      BY <2>2 DEF AcceptFails, RdEnd, Reading
    <3>2. {i} \in SUBSET DOMAIN table /\ status = "run"
      BY <3>1, InvParts DEF Handling, TypeOK
    <3> QED BY <3>1, <3>2, RemoveRelays
  <2>3. ASSUME NEW k \in 1 .. Room, Read(i, k) PROVE Relaying'
    BY <2>3, RdPartialRelays, RdDropRelays, RdAnswerRelays, RdForwardRelays,
       RdResponseRelays DEF Read
  <2>4. CASE \/ WrChunk(i) \/ WrShort(i) \/ WrReset(i) \/ WrPipe(i)
             \/ WrRequestFin(i) \/ WrResponseFin(i)
    BY <2>4, WriteRelays
  <2> QED BY <1>3, <2>1, <2>2, <2>3, <2>4 DEF Handle
<1>4. ASSUME NEW c \in Conns, Dial(c) PROVE Relaying' BY <1>4, DialRelays
<1>5. ASSUME NEW s \in Sockets, FarStep(s) PROVE Relaying' BY <1>5, FarRelays
<1>6. CASE UNCHANGED vars
  <2>1. /\ ask' = ask /\ clients' = clients /\ table' = table /\ backlog' = backlog
        /\ file' = file /\ status' = status /\ \A d \in Conns : LegsKept(d)
    BY <1>6 DEF vars, serverVars, netVars, LegsKept, Kept
  <2>2. \A d \in Conns : LegsOK(d)' BY <2>1, LegsOKKept DEF Relaying
  <2>3. \A n \in 1 .. Len(backlog') : Fresh(backlog[n])'
    BY <1>6 DEF vars, netVars, Fresh, Relaying
  <2>4. ASSUME status' = "run", NEW j \in DOMAIN table', NEW d \in Conns,
               table'[j].type = "PKT_IN", Paired(table'[j], d, file')
        PROVE  HoldsOK(table[j], d)'
    <3>1. j \in DOMAIN table /\ HoldsOK(table[j], d) BY <2>1, <2>4 DEF Relaying
    <3> QED BY <2>1, <3>1, HoldsOKKept
  <2> QED BY <2>2, <2>3, <2>4 DEF Relaying
<1> QED BY <1>1, <1>2, <1>3, <1>4, <1>5, <1>6 DEF Next, ServerStep, Quiet

LEMMA StreamsInductive == Spec => [](IInv /\ Relaying)
BY InitInv, InitRelays, NextInv, NextRelays, PTL DEF Spec

-----------------------------------------------------------------------------
(* What an owner reads is the request of its own connection, and what a     *)
(* caller reads is one answer to its own request, whole chunks in order,    *)
(* although both pass through two buffers and descriptors that are swapped  *)
(* (middfs-server-handler.c:143-196, middfs-conn.c:257-336).                *)
THEOREM StreamsCorrect == Spec => []StreamsIntact
<1>1. ASSUME NEW s \in Seq(Packets), NEW t \in Seq(Packets), NEW p \in Packets,
             AllAre(s, p), AllAre(t, p), Len(s) + Len(t) <= Parts
      PROVE  IsPrefixOf(s \o t, Chunks(p))
  <2> DEFINE a == Len(s)
             b == Len(t)
  <2>1. /\ a \in Nat /\ b \in Nat /\ Len(s \o t) = a + b
        /\ \A n \in 1 .. Len(s \o t) : (s \o t)[n] = IF n <= a THEN s[n] ELSE t[n - a]
    BY LenProperties, ConcatProperties
  <2>2. a + b <= Parts BY <1>1
  <2>3. Len(Chunks(p)) = Parts /\ \A n \in 1 .. Parts : Chunks(p)[n] = p BY ChunksType
  <2>4. (\A n \in 1 .. a : s[n] = p) /\ (\A n \in 1 .. b : t[n] = p)
    BY <1>1 DEF AllAre
  <2> HIDE DEF a, b
  <2>5. \A n \in 1 .. a + b :
          /\ n \in 1 .. Parts
          /\ n <= a => n \in 1 .. a
          /\ ~ (n <= a) => n - a \in 1 .. b
    BY <2>1, <2>2, SizeAssumption
  <2>6. \A n \in 1 .. a + b : (s \o t)[n] = p BY <2>1, <2>4, <2>5
  <2> QED BY <2>1, <2>2, <2>3, <2>5, <2>6 DEF IsPrefixOf
<1>2. IInv /\ Relaying => StreamsIntact
  <2> SUFFICES ASSUME IInv, Relaying, NEW c \in Conns
               PROVE  /\ IsPrefixOf(got[Pr(c)] \o down[Pr(c)], Chunks(Asked(c)))
                      /\ \E who \in {"server", "owner"} :
                           IsPrefixOf(got[Rq(c)] \o down[Rq(c)], Chunks(Response(c, who)))
    BY DEF StreamsIntact
  <2>1. LegsOK(c) BY DEF Relaying
  <2>2. /\ got[Pr(c)] \in Seq(Packets) /\ down[Pr(c)] \in Seq(Packets)
        /\ got[Rq(c)] \in Seq(Packets) /\ down[Rq(c)] \in Seq(Packets)
    BY InvParts, SocketsDiffer DEF TypeOK
  <2>3. Answerer(c) \in {"server", "owner"} BY DEF Answerer
  <2>4. Asked(c) \in Packets /\ Response(c, Answerer(c)) \in Packets
    BY <2>3, InvParts, PacketTypes
  <2>5. IsPrefixOf(got[Pr(c)] \o down[Pr(c)], Chunks(Asked(c)))
    BY <1>1, <2>1, <2>2, <2>4 DEF LegsOK, Sent
  <2>6. IsPrefixOf(got[Rq(c)] \o down[Rq(c)], Chunks(Response(c, Answerer(c))))
    BY <1>1, <2>1, <2>2, <2>4 DEF LegsOK, Sent
  <2> QED BY <2>3, <2>5, <2>6
<1> QED BY <1>2, StreamsInductive, PTL

-----------------------------------------------------------------------------
(* Whole answers *)

LEMMA SentNat == ASSUME TypeOK, NEW s \in Sockets PROVE Sent(s) \in Nat
<1>1. got[s] \in Seq(Packets) /\ down[s] \in Seq(Packets) BY DEF TypeOK
<1>2. Len(got[s]) \in Nat /\ Len(down[s]) \in Nat BY <1>1, LenProperties
<1>3. \A a, b \in Nat : a + b \in Nat OBVIOUS
<1>4. Len(got[s]) + Len(down[s]) \in Nat BY ONLY <1>2, <1>3
<1> QED BY <1>4 DEF Sent

(* A server that runs after a step ran before it. *)
LEMMA RunsOn == ASSUME [Next]_vars, status' = "run" PROVE status = "run"
<1>2. CASE Poll BY <1>2 DEF Poll, Idle
<1>3. CASE PollFails BY <1>3 DEF PollFails, Idle
<1>4. ASSUME NEW i \in Slots, Handle(i) PROVE Handling(i)
  <2>1. ASSUME NEW k \in 1 .. Room, Read(i, k) PROVE Handling(i)
    <3>1. ReadOf(i, k)
      BY <2>1 DEF Read, RdPartial, RdConnect, RdAnswer, RdForward, RdRefused, RdResponse,
                  ForwardRead, PacketRead
    <3> QED BY <3>1 DEF ReadOf, Reading
  <2>2. CASE Accept(i) \/ AcceptFails(i) \/ RdEnd(i)
    BY <2>2 DEF Accept, AcceptFails, RdEnd, Reading
  <2>3. CASE \/ WrChunk(i) \/ WrShort(i) \/ WrReset(i) \/ WrPipe(i)
             \/ WrRequestFin(i) \/ WrResponseFin(i)
    BY <2>3 DEF WrChunk, WrShort, WrReset, WrPipe, WrRequestFin, WrResponseFin, Written, Writing
  <2> QED BY <1>4, <2>1, <2>2, <2>3 DEF Handle
<1>5. ASSUME NEW c \in Conns, Dial(c) PROVE status' = status BY <1>5 DEF Dial, serverVars
<1>6. ASSUME NEW s \in Sockets, FarStep(s) PROVE status' = status
  BY <1>6 DEF FarStep, FarSend, FarRecv, FarClose, FarDies, FarDeclines, Bounce, serverVars
<1>7. CASE UNCHANGED vars BY <1>7 DEF vars, serverVars
<1> QED BY <1>2, <1>3, <1>4, <1>5, <1>6, <1>7 DEF Next, ServerStep, Quiet, Handling

(* A step of the server deletes an entry whose caller still listens to its  *)
(* answer only when the whole answer was written.                           *)
LEMMA AnswererDropped ==
    ASSUME IInv, [Next]_vars, status' = "run", NEW i \in DOMAIN table,
           table[i].type = "PKT_IN", table[i].state = "RSPWR",
           far[Sock(i)] = "open", table'[i].type = "NONE"
    PROVE  table[i].obuf = << >>
<1>1. /\ ~ Broken(Sock(i)) /\ far[Sock(i)] # "rst"
      /\ table'[i] # table[i] /\ TypeOK
  BY InvParts DEF Broken
<1>2. ASSUME NEW j, j # i, Remove({j}) PROVE FALSE
  BY <1>1, <1>2 DEF Remove
<1>3. CASE Poll
  <2>1. ~ Ends("aborted") BY DEF Ends
  <2>2. Remove({j \in Polled : HungUp(j)}) BY <1>3, <2>1 DEF Poll
  <2>3. ~ HungUp(i) BY <1>1 DEF HungUp
  <2> QED BY <1>1, <2>2, <2>3 DEF Remove
<1>4. CASE PollFails BY <1>4 DEF PollFails, Ends
<1>5. ASSUME NEW j \in Slots, Handle(j) PROVE table[i].obuf = << >>
  <2>1. CASE Accept(j)
    <3>1. PICK fd \in Fds : table' = Append(table, NewEntry("PKT_IN", "REQRD", fd))
      BY <2>1 DEF Accept
    <3>2. table \in Seq(Entries) /\ NewEntry("PKT_IN", "REQRD", fd) \in Entries
      BY <1>1, NewEntryType DEF TypeOK, Types, States
    <3>3. i \in 1 .. Len(table) BY <3>2, LenProperties
    <3>4. table'[i] = table[i] BY <3>1, <3>2, <3>3, AppendProperties
    <3> QED BY <1>1, <3>4
  <2>2. CASE AcceptFails(j) BY <1>2, <2>2 DEF AcceptFails
  <2>3. CASE RdEnd(j) BY <1>2, <2>3 DEF RdEnd, Reading
  <2>4. ASSUME NEW k \in 1 .. Room, Read(j, k) PROVE FALSE
    <3>1. Reading(j)
      BY <2>4 DEF Read, RdPartial, RdConnect, RdAnswer, RdForward, RdRefused, RdResponse,
                  ForwardRead, PacketRead, ReadOf
    <3>2. j # i BY <3>1 DEF Reading
    <3>3. \E e : table' = [table EXCEPT ![j] = e]
      BY <2>4 DEF Read, RdPartial, RdConnect, RdAnswer, RdForward, RdRefused, RdResponse,
                  Ends
    <3> QED BY <1>1, <3>2, <3>3
  <2>5. CASE WrChunk(j)
    <3>1. j \in DOMAIN table /\ table[j] \in Entries
      BY <1>1, <2>5, TableEntries DEF WrChunk, Writing, Handling, TypeOK
    <3>2. table' = [table EXCEPT ![j] = [table[j] EXCEPT !.obuf = Tail(table[j].obuf)]]
      BY <2>5 DEF WrChunk
    <3> QED BY <1>1, <3>1, <3>2 DEF Entries
  <2>6. CASE WrShort(j) BY <1>1, <2>6 DEF WrShort
  <2>7. CASE WrReset(j) BY <1>1, <1>2, <2>7 DEF WrReset
  <2>8. CASE WrPipe(j) BY <2>8 DEF WrPipe, Ends
  <2>9. CASE WrRequestFin(j)
    <3>1. table[j].state = "REQFWD" /\ j # i BY <2>9 DEF WrRequestFin
    <3> QED BY <1>1, <2>9, <3>1 DEF WrRequestFin
  <2>10. CASE WrResponseFin(j)
    <3>1. CASE j = i BY <2>10, <3>1 DEF WrResponseFin, Written
    <3>2. CASE j # i BY <1>1, <2>10, <3>2 DEF WrResponseFin
    <3> QED BY <3>1, <3>2
  <2> QED BY <1>5, <2>1, <2>2, <2>3, <2>4, <2>5, <2>6, <2>7, <2>8, <2>9, <2>10 DEF Handle
<1>6. ASSUME NEW c \in Conns, Dial(c) PROVE FALSE BY <1>1, <1>6 DEF Dial, serverVars
<1>7. ASSUME NEW s \in Sockets, FarStep(s) PROVE FALSE
  BY <1>1, <1>7 DEF FarStep, FarSend, FarRecv, FarClose, FarDies, FarDeclines, Bounce,
                    serverVars
<1>8. CASE UNCHANGED vars BY <1>1, <1>8 DEF vars, serverVars
<1> QED BY <1>3, <1>4, <1>5, <1>6, <1>7, <1>8 DEF Next, ServerStep, Quiet

(* The server drops a caller that still listens, once it has an answer for  *)
(* it, only after the whole answer was sent: handle_pkt_wr calls the packet *)
(* done in a write of zero bytes (middfs-conn.c:317), and whatever makes it *)
(* drop the entry earlier has broken the connection.                        *)
THEOREM AnswersComplete == Spec => AnswerComplete
<1>1. IInv /\ Relaying /\ [Next]_vars =>
        \A i \in DOMAIN table, c \in Conns :
          /\ status' = "run"
          /\ table[i].type = "PKT_IN" /\ table[i].state = "RSPWR"
          /\ file[table[i].out] = Rq(c) /\ far[Rq(c)] = "open"
          /\ table'[i].type = "NONE"
          => Len(got[Rq(c)]) + Len(down[Rq(c)]) = Parts
  <2> SUFFICES ASSUME IInv, Relaying, [Next]_vars, NEW i \in DOMAIN table, NEW c \in Conns,
                      status' = "run",
                      table[i].type = "PKT_IN", table[i].state = "RSPWR",
                      file[table[i].out] = Rq(c), far[Rq(c)] = "open",
                      table'[i].type = "NONE"
               PROVE  Sent(Rq(c)) = Parts
    BY DEF Sent
  <2>1. status = "run" BY RunsOn
  <2>2. EntryOK(table[i], file, up, todo) BY <2>1, InvParts DEF Running, TableOK
  <2>3. PICK d \in Conns : Paired(table[i], d, file) BY <2>2 DEF EntryOK
  <2>4. d = c BY <2>3, SocketsDiffer DEF Paired, At
  <2>5. Sent(Rq(c)) + Len(table[i].obuf) = Parts
    BY <2>1, <2>3, <2>4 DEF Relaying, HoldsOK
  <2>6. Sock(i) = Rq(c) BY DEF Sock, PolledFd, ReadStates
  <2>7. table[i].obuf = << >> BY <2>6, AnswererDropped
  <2>8. Len(table[i].obuf) = 0 BY <2>7
  <2>9. Sent(Rq(c)) \in Nat BY InvParts, SocketsDiffer, SentNat
  <2> QED BY <2>5, <2>8, <2>9
<1> QED BY <1>1, StreamsInductive, PTL DEF Spec, AnswerComplete

-----------------------------------------------------------------------------
(* The server implements module Relay. *)

(* Who answered, as the chunks a caller has read show it *)
LEMMA AnswerIs ==
    ASSUME NEW c \in Conns, NEW w \in {"server", "owner"}, NEW g \in Seq(Packets),
           AllAre(g, Response(c, w)), Len(g) <= Parts
    PROVE  (CASE Len(g) < Parts -> "none"
              [] g = Chunks(Response(c, "owner"))  -> "owner"
              [] g = Chunks(Response(c, "server")) -> "server"
              [] OTHER -> "garbled")
             = IF Len(g) = Parts THEN w ELSE "none"
<1>1. /\ Response(c, "owner") \in Packets /\ Response(c, "server") \in Packets
      /\ Response(c, "owner") # Response(c, "server")
  BY DEF Response, Packets
<1>2. Len(g) \in Nat BY LenProperties
<1>3. ASSUME NEW p \in Packets, g = Chunks(p) PROVE Len(g) = Parts /\ p = Response(c, w)
  <2>1. Len(g) = Parts /\ g[1] = p /\ 1 \in 1 .. Parts
    BY <1>3, ChunksType, SizeAssumption
  <2> QED BY <2>1 DEF AllAre
<1>4. g = Chunks(Response(c, w)) <=> Len(g) = Parts BY <1>1, AllAreWhole
<1>5. CASE Len(g) = Parts
  <2>1. g = Chunks(Response(c, w)) BY <1>4, <1>5
  <2>2. ~ (Len(g) < Parts) BY <1>2, <1>5, SizeAssumption
  <2>3. CASE w = "owner"
    <3>1. g = Chunks(Response(c, "owner")) BY <2>1, <2>3
    <3>2. g # Chunks(Response(c, "server")) BY <1>1, <1>3, <2>3
    <3> QED BY <1>5, <2>2, <2>3, <3>1, <3>2
  <2>4. CASE w = "server"
    <3>1. g = Chunks(Response(c, "server")) BY <2>1, <2>4
    <3>2. g # Chunks(Response(c, "owner")) BY <1>1, <1>3, <2>4
    <3> QED BY <1>5, <2>2, <2>4, <3>1, <3>2
  <2> QED BY <2>3, <2>4
<1>6. CASE Len(g) # Parts
  <2>1. g # Chunks(Response(c, "owner")) /\ g # Chunks(Response(c, "server"))
    BY <1>1, <1>3, <1>6
  <2>2. Len(g) < Parts BY <1>2, <1>6, SizeAssumption
  <2> QED BY <1>6, <2>1, <2>2
<1> QED BY <1>5, <1>6

(* The refinement mapping, in the terms of Relaying *)
Performers == {c \in Conns : Performed(c)}
AnswerOf(c) == IF Len(got[Rq(c)]) = Parts THEN Answerer(c) ELSE "none"
Answers == [c \in Conns |-> AnswerOf(c)]

LEMMA SentBound ==
    ASSUME NEW a \in Nat, NEW b \in Nat, a + b <= Parts PROVE a <= Parts
BY SizeAssumption

Mapped ==
    /\ {c \in Conns : got[Pr(c)] = Chunks(Asked(c))} = Performers
    /\ [c \in Conns |-> answered(c)] = Answers

LEMMA MappedNow == IInv /\ Relaying => Mapped
<1> SUFFICES ASSUME IInv, Relaying, NEW c \in Conns
             PROVE  /\ got[Pr(c)] = Chunks(Asked(c)) <=> Performed(c)
                    /\ answered(c) = AnswerOf(c)
  BY DEF Performers, Answers, Mapped
<1>1. LegsOK(c) /\ TypeOK BY InvParts DEF Relaying
<1>2. \A s \in Sockets : got[s] \in Seq(Packets) /\ down[s] \in Seq(Packets)
  BY <1>1 DEF TypeOK
<1>3. Rq(c) \in Sockets /\ Pr(c) \in Sockets BY SocketsDiffer
<1>4. Asked(c) \in Packets /\ Answerer(c) \in {"server", "owner"}
  BY <1>1, PacketTypes DEF Answerer
<1>5. got[Pr(c)] = Chunks(Asked(c)) <=> Performed(c)
  BY <1>1, <1>2, <1>3, <1>4, AllAreWhole DEF LegsOK, Performed
<1>6. Len(got[Rq(c)]) <= Parts
  <2>1. Len(got[Rq(c)]) \in Nat /\ Len(down[Rq(c)]) \in Nat BY <1>2, <1>3, LenProperties
  <2> QED BY <1>1, <2>1, SentBound DEF LegsOK, Sent
<1>7. answered(c) = AnswerOf(c)
  BY <1>1, <1>2, <1>3, <1>4, <1>6, AnswerIs DEF LegsOK, answered, AnswerOf
<1> QED BY <1>5, <1>7

(* Nobody changes what it asks; only the callers and the owners read. *)
LEMMA AskKept == [Next]_vars => ask' = ask
<1> SUFFICES ASSUME [Next]_vars PROVE ask' = ask OBVIOUS
<1>1. CASE Poll BY <1>1 DEF Poll, Ends, netVars
<1>2. CASE PollFails BY <1>2 DEF PollFails, Ends, netVars
<1>3. ASSUME NEW i \in Slots, Handle(i) PROVE ask' = ask
  <2>1. CASE Accept(i) \/ AcceptFails(i) \/ RdEnd(i)
    BY <2>1 DEF Accept, AcceptFails, RdEnd, netVars
  <2>2. ASSUME NEW k \in 1 .. Room, Read(i, k) PROVE ask' = ask
    BY <2>2 DEF Read, RdPartial, RdConnect, RdAnswer, RdForward, RdRefused, RdResponse,
                Ends, netVars
  <2>3. CASE \/ WrChunk(i) \/ WrShort(i) \/ WrReset(i) \/ WrPipe(i)
             \/ WrRequestFin(i) \/ WrResponseFin(i)
    BY <2>3 DEF WrChunk, WrShort, WrReset, WrPipe, WrRequestFin, WrResponseFin, Ends, netVars
  <2> QED BY <1>3, <2>1, <2>2, <2>3 DEF Handle
<1>4. ASSUME NEW c \in Conns, Dial(c) PROVE ask' = ask BY <1>4 DEF Dial
<1>5. ASSUME NEW s \in Sockets, FarStep(s) PROVE ask' = ask
  BY <1>5 DEF FarStep, FarSend, FarRecv, FarClose, FarDies, FarDeclines, Bounce
<1>6. CASE UNCHANGED vars BY <1>6 DEF vars, netVars
<1> QED BY <1>1, <1>2, <1>3, <1>4, <1>5, <1>6 DEF Next, ServerStep, Quiet

LEMMA MappedNext == IInv' /\ Relaying' => Mapped'
BY MappedNow, PTL

(* What was performed and answered for c changes only when chunks are read  *)
(* on its connections, also where the server dials the owner.               *)
LEMMA SameFor ==
    ASSUME NEW c \in Conns, LegsOK(c), LegsOK(c)',
           got'[Pr(c)] = got[Pr(c)], got'[Rq(c)] = got[Rq(c)]
    PROVE  (Performed(c)' <=> Performed(c)) /\ AnswerOf(c)' = AnswerOf(c)
<1>1. Performed(c)' <=> Performed(c) BY DEF Performed
<1>2. CASE Len(got[Rq(c)]) # Parts BY <1>1, <1>2 DEF AnswerOf
<1>3. CASE Len(got[Rq(c)]) = Parts
  <2>1. got[Rq(c)] # << >>
    <3>1. Len(<< >>) # Parts BY SizeAssumption
    <3> QED BY <1>3, <3>1
  <2>2. got[Pr(c)] = << >> => ~ Performed(c)
    <3>1. Len(<< >>) # Parts BY SizeAssumption
    <3> QED BY <3>1 DEF Performed
  <2>3. far'[Pr(c)] = "none" <=> far[Pr(c)] = "none"
    <3>1. (far[Pr(c)] # "none" => Performed(c)) /\ (far'[Pr(c)] # "none" => Performed(c))
      BY <1>1, <2>1 DEF LegsOK
    <3>2. /\ far[Pr(c)] = "none" => got[Pr(c)] = << >>
          /\ far'[Pr(c)] = "none" => got[Pr(c)] = << >>
      BY DEF LegsOK
    <3> QED BY <2>2, <3>1, <3>2
  <2>4. Answerer(c)' = Answerer(c) BY <2>3 DEF Answerer
  <2> QED BY <1>1, <2>4 DEF AnswerOf
<1> QED BY <1>1, <1>2, <1>3

LEMMA Idles ==
    ASSUME Relaying, Relaying', got' = got
    PROVE  Performers' = Performers /\ Answers' = Answers
<1>1. ASSUME NEW c \in Conns
      PROVE  (Performed(c)' <=> Performed(c)) /\ AnswerOf(c)' = AnswerOf(c)
  BY SameFor DEF Relaying
<1>2. Performers' = Performers BY <1>1 DEF Performers
<1>3. Answers' = Answers BY <1>1 DEF Answers
<1> QED BY <1>2, <1>3

(* The connect packet of c registers the name of c. *)
LEMMA ConnectRegisters ==
    ASSUME IInv, Relaying, Relaying', NEW i, NEW k \in 1 .. Room, RdConnect(i, k)
    PROVE  /\ Performers' = Performers /\ Answers' = Answers
           /\ \/ clients' = clients
              \/ \E c \in Conns :
                   ask[c].type = "CONNECT" /\ clients' = clients \cup {ask[c].name}
<1>1. PacketRead(i, k) /\ Packet(i, k).type = "CONNECT" BY DEF RdConnect
<1>2. PICK c \in Conns : Packet(i, k) = Asked(c)
  BY <1>1, PacketIs DEF Response
<1>3. Packet(i, k).conn = c /\ ask[c].type = "CONNECT" BY <1>1, <1>2 DEF Asked
<1>4. got' = got BY DEF RdConnect
<1> QED BY <1>3, <1>4, Idles DEF RdConnect

(* When the owner of c has read the whole request, it performs it; when c   *)
(* has read the whole answer, it is answered.                               *)
LEMMA RecvImplements ==
    ASSUME IInv, Relaying, Relaying', NEW s \in Sockets, FarRecv(s)
    PROVE  \/ Performers' = Performers /\ Answers' = Answers
           \/ \E c \in Conns :
                /\ ask[c].type = "REQUEST" /\ ask[c].name \in clients
                /\ c \notin Performers /\ AnswerOf(c) = "none"
                /\ Performers' = Performers \cup {c} /\ Answers' = Answers
           \/ \E c \in Conns :
                /\ ask[c].type = "REQUEST" /\ AnswerOf(c) = "none"
                /\ Performers' = Performers
                /\ Answers' = [Answers EXCEPT ![c] =
                                 IF c \in Performers THEN "owner" ELSE "server"]
<1>1. /\ far[s] = "open" /\ down[s] # << >> /\ ask' = ask /\ far' = far
      /\ got' = [got EXCEPT ![s] = Append(got[s], Head(down[s]))]
  BY DEF FarRecv
<1>2. PICK c \in Conns : s \in {Rq(c), Pr(c)} BY DEF Sockets, Legs, Rq, Pr
<1>3. Rq(c) \in Sockets /\ Pr(c) \in Sockets /\ Rq(c) # Pr(c) BY SocketsDiffer
<1>4. LegsOK(c) /\ LegsOK(c)' BY DEF Relaying
<1>5. \A r \in Sockets \ {s} : got'[r] = got[r] BY <1>1, InvParts DEF TypeOK
<1>6. ASSUME NEW d \in Conns \ {c}
      PROVE  (Performed(d)' <=> Performed(d)) /\ AnswerOf(d)' = AnswerOf(d)
  <2>1. got'[Pr(d)] = got[Pr(d)] /\ got'[Rq(d)] = got[Rq(d)]
    BY <1>2, <1>5, OthersApart
  <2> QED BY <2>1, SameFor DEF Relaying
<1>7. Len(got[s]) # Parts
  <2> DEFINE g == Len(got[s])
             d == Len(down[s])
  <2>1. got[s] \in Seq(Packets) /\ down[s] \in Seq(Packets) BY InvParts DEF TypeOK
  <2>2. g \in Nat /\ d \in Nat /\ d # 0 BY <1>1, <2>1, LenProperties, EmptySeq
  <2>3. g + d <= Parts BY <1>2, <1>4 DEF LegsOK, Sent
  <2> HIDE DEF g, d
  <2>4. g # Parts BY <2>2, <2>3, SizeAssumption
  <2> QED BY <2>4 DEF g
<1>8. CASE s = Pr(c)
  <2>1. ~ Performed(c) BY <1>7, <1>8 DEF Performed
  <2>2. got[Rq(c)] = << >> /\ ask[c].type = "REQUEST" /\ ask[c].name \in clients
    BY <1>1, <1>4, <1>8, <2>1 DEF LegsOK
  <2>3. got'[Rq(c)] = << >> BY <1>3, <1>5, <1>8, <2>2
  <2>4. AnswerOf(c) = "none" /\ AnswerOf(c)' = "none"
    <3>1. Len(<< >>) # Parts BY SizeAssumption
    <3> QED BY <2>2, <2>3, <3>1 DEF AnswerOf
  <2>5. Answers' = Answers
    <3>1. \A d \in Conns : AnswerOf(d)' = AnswerOf(d) BY <1>6, <2>4
    <3> QED BY <3>1 DEF Answers
  <2>6. CASE Performed(c)'
    <3>1. Performers' = Performers \cup {c} BY <1>6, <2>6 DEF Performers
    <3>2. c \notin Performers BY <2>1 DEF Performers
    <3> QED BY <2>2, <2>4, <2>5, <3>1, <3>2
  <2>7. CASE ~ Performed(c)'
    <3>1. Performers' = Performers BY <1>6, <2>1, <2>7 DEF Performers
    <3> QED BY <2>5, <3>1
  <2> QED BY <2>6, <2>7
<1>9. CASE s = Rq(c)
  <2>1. AnswerOf(c) = "none" BY <1>7, <1>9 DEF AnswerOf
  <2>2. ask[c].type = "REQUEST" /\ (far[Pr(c)] # "none" => Performed(c))
    BY <1>1, <1>4, <1>9 DEF LegsOK
  <2>3. far[Pr(c)] = "none" => ~ Performed(c)
    <3>1. far[Pr(c)] = "none" => got[Pr(c)] = << >> BY <1>4 DEF LegsOK
    <3>2. Len(<< >>) # Parts BY SizeAssumption
    <3> QED BY <3>1, <3>2 DEF Performed
  <2>4. Answerer(c)' = (IF c \in Performers THEN "owner" ELSE "server")
    BY <1>1, <2>2, <2>3 DEF Answerer, Performers
  <2>5. Performers' = Performers
    <3>1. got'[Pr(c)] = got[Pr(c)] BY <1>3, <1>5, <1>9
    <3>2. \A d \in Conns : Performed(d)' <=> Performed(d) BY <1>6, <3>1 DEF Performed
    <3> QED BY <3>2 DEF Performers
  <2>6. CASE Len(got'[Rq(c)]) = Parts
    <3>1. AnswerOf(c)' = (IF c \in Performers THEN "owner" ELSE "server")
      BY <2>4, <2>6 DEF AnswerOf
    <3>2. Answers' = [Answers EXCEPT ![c] = IF c \in Performers THEN "owner" ELSE "server"]
      BY <1>6, <3>1 DEF Answers
    <3> QED BY <2>1, <2>2, <2>5, <3>2
  <2>7. CASE Len(got'[Rq(c)]) # Parts
    <3>1. AnswerOf(c)' = "none" BY <2>7 DEF AnswerOf
    <3>2. Answers' = Answers BY <1>6, <2>1, <3>1 DEF Answers
    <3> QED BY <2>5, <3>2
  <2> QED BY <2>6, <2>7
<1> QED BY <1>2, <1>8, <1>9

LEMMA StepsImplement ==
    ASSUME IInv, Relaying, IInv', Relaying', [Next]_vars
    PROVE  [R!Next]_(R!vars)
<1> DEFINE P == {c \in Conns : got[Pr(c)] = Chunks(Asked(c))}
           A == [c \in Conns |-> answered(c)]
<1>1. P = Performers /\ A = Answers BY MappedNow DEF Mapped
<1>2. P' = Performers' /\ A' = Answers' BY MappedNext DEF Mapped
<1>3. ask' = ask BY AskKept
<1>4. ASSUME clients' = clients, Performers' = Performers, Answers' = Answers
      PROVE  UNCHANGED R!vars
  BY <1>1, <1>2, <1>3, <1>4 DEF R!vars
<1>5. ASSUME NEW i \in Slots, NEW k \in 1 .. Room, RdConnect(i, k)
      PROVE  R!Next \/ UNCHANGED R!vars
  <2>1. Performers' = Performers /\ Answers' = Answers BY <1>5, ConnectRegisters
  <2>2. CASE clients' = clients BY <1>4, <2>1, <2>2
  <2>3. CASE \E c \in Conns : ask[c].type = "CONNECT" /\ clients' = clients \cup {ask[c].name}
    <3>1. \E c \in Conns : R!Register(c)
      BY <1>1, <1>2, <1>3, <2>1, <2>3 DEF R!Register
    <3> QED BY <3>1 DEF R!Next
  <2> QED BY <1>5, <2>2, <2>3, ConnectRegisters
<1>6. ASSUME NEW s \in Sockets, FarRecv(s)
      PROVE  R!Next \/ UNCHANGED R!vars
  <2>1. clients' = clients BY <1>6 DEF FarRecv, serverVars
  <2>2. CASE Performers' = Performers /\ Answers' = Answers BY <1>4, <2>1, <2>2
  <2>3. ASSUME NEW c \in Conns,
               ask[c].type = "REQUEST", ask[c].name \in clients,
               c \notin Performers, AnswerOf(c) = "none",
               Performers' = Performers \cup {c}, Answers' = Answers
        PROVE  R!Perform(c)
    <3>1. A[c] = "none" BY <1>1, <2>3 DEF Answers
    <3> QED BY <1>1, <1>2, <1>3, <2>1, <2>3, <3>1 DEF R!Perform
  <2>4. ASSUME NEW c \in Conns,
               ask[c].type = "REQUEST", AnswerOf(c) = "none", Performers' = Performers,
               Answers' = [Answers EXCEPT ![c] =
                             IF c \in Performers THEN "owner" ELSE "server"]
        PROVE  \E who \in {"owner", "server"} : R!Answer(c, who)
    <3>1. A[c] = "none" BY <1>1, <2>4 DEF Answers
    <3> DEFINE who == IF c \in Performers THEN "owner" ELSE "server"
    <3>2. R!Answer(c, who) BY <1>1, <1>2, <1>3, <2>1, <2>4, <3>1 DEF R!Answer
    <3> QED BY <3>2
  <2> QED BY <1>6, <2>2, <2>3, <2>4, RecvImplements DEF R!Next
<1>7. ASSUME clients' = clients, got' = got PROVE UNCHANGED R!vars
  BY <1>4, <1>7, Idles
<1>8. CASE Poll \/ PollFails BY <1>7, <1>8 DEF Poll, PollFails, Ends, netVars
<1>9. ASSUME NEW i \in Slots, Handle(i) PROVE R!Next \/ UNCHANGED R!vars
  <2>1. CASE Accept(i) \/ AcceptFails(i) \/ RdEnd(i)
    BY <1>7, <2>1 DEF Accept, AcceptFails, RdEnd, netVars
  <2>2. ASSUME NEW k \in 1 .. Room, Read(i, k) PROVE R!Next \/ UNCHANGED R!vars
    <3>1. CASE RdConnect(i, k) BY <1>5, <3>1
    <3>2. CASE ~ RdConnect(i, k)
      BY <1>7, <2>2, <3>2
         DEF Read, RdPartial, RdAnswer, RdForward, RdRefused, RdResponse, Ends, netVars
    <3> QED BY <3>1, <3>2
  <2>3. CASE \/ WrChunk(i) \/ WrShort(i) \/ WrReset(i) \/ WrPipe(i)
             \/ WrRequestFin(i) \/ WrResponseFin(i)
    BY <1>7, <2>3
       DEF WrChunk, WrShort, WrReset, WrPipe, WrRequestFin, WrResponseFin, Ends, netVars
  <2> QED BY <1>9, <2>1, <2>2, <2>3 DEF Handle
<1>10. ASSUME NEW c \in Conns, Dial(c) PROVE UNCHANGED R!vars
  BY <1>7, <1>10 DEF Dial, serverVars
<1>11. ASSUME NEW s \in Sockets, FarStep(s) PROVE R!Next \/ UNCHANGED R!vars
  <2>1. CASE FarRecv(s) BY <1>6, <2>1
  <2>2. CASE ~ FarRecv(s)
    BY <1>7, <1>11, <2>2
       DEF FarStep, FarSend, FarClose, FarDies, FarDeclines, Bounce, serverVars
  <2> QED BY <2>1, <2>2
<1>12. CASE UNCHANGED vars BY <1>7, <1>12 DEF vars, serverVars, netVars
<1> QED BY <1>8, <1>9, <1>10, <1>11, <1>12 DEF Next, ServerStep, Quiet

LEMMA InitImplements == Init => R!Init
<1> SUFFICES ASSUME Init PROVE R!Init OBVIOUS
<1>1. IInv /\ Relaying BY InitInv, InitRelays
<1>2. \A s \in Sockets : got[s] = << >> BY DEF Init
<1>3. Len(<< >>) # Parts BY SizeAssumption
<1>4. \A c \in Conns : ~ Performed(c) /\ AnswerOf(c) = "none"
  BY <1>2, <1>3, SocketsDiffer DEF Performed, AnswerOf
<1>5. Performers = {} /\ Answers = [c \in Conns |-> "none"]
  BY <1>4 DEF Performers, Answers
<1>6. ask \in [Conns -> R!Asks] /\ clients = {}
  BY ScriptsAssumption DEF Init, Asks, R!Asks
<1> QED BY <1>1, <1>5, <1>6, MappedNow DEF Mapped, R!Init

(* Module Relay: a request is performed at most once, by the registered     *)
(* owner; the caller gets at most one answer, the owner's if and only if    *)
(* the owner performed the request (middfs-server-handler.c:80-240).        *)
THEOREM ImplementsRelay == Spec => RelaySpec
BY InitImplements, StepsImplement, StreamsInductive, PTL DEF Spec, RelaySpec, R!Spec

=============================================================================

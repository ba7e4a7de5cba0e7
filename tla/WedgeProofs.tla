---------------------------- MODULE WedgeProofs ----------------------------
(***************************************************************************)
(* When blocking writes stop server and owners, for any connections, owners, *)
(* sizes of packets, and any room in a connection.                          *)
(***************************************************************************)
EXTENDS WedgeCorrect, TLAPS

USE DEF Legs

-----------------------------------------------------------------------------
(* One leg changes *)

(* A write puts one more into a leg that is begun in its turn. *)
LEMMA PutsLeg ==
    ASSUME LegInv, NEW c \in Conns, NEW l \in Legs, Puts(c, l), unsent[c][l] > 0,
           UNCHANGED size,
           l = "forward" => Received(c, "ask"),
           l = "answer" => Received(c, "forward"),
           l = "relay" => Received(c, "answer")
    PROVE  /\ LegInv'
           /\ pipe'[c][l] = pipe[c][l] + 1 /\ unsent'[c][l] = unsent[c][l] - 1
           /\ \A d \in Conns, k \in Legs :
                d # c \/ k # l => pipe'[d][k] = pipe[d][k] /\ unsent'[d][k] = unsent[d][k]
<1>1. /\ pipe[c][l] \in 0 .. Cap /\ pipe[c][l] < Cap /\ unsent[c][l] \in Nat /\ Cap \in Nat
      /\ unsent[c][l] > 0
  BY CapAssumption DEF LegInv, LegTypes, Puts
<1>2. /\ unsent' \in [Conns -> [Legs -> Nat]] /\ pipe' \in [Conns -> [Legs -> 0 .. Cap]]
      /\ pipe'[c][l] = pipe[c][l] + 1 /\ unsent'[c][l] = unsent[c][l] - 1
      /\ \A d \in Conns, k \in Legs :
           d # c \/ k # l => pipe'[d][k] = pipe[d][k] /\ unsent'[d][k] = unsent[d][k]
  BY <1>1 DEF LegInv, LegTypes, Puts
<1>3. \A d \in Conns, k \in Legs : SizeOf(d, k)' = SizeOf(d, k) /\ SizeOf(d, k) \in Nat
  BY CapAssumption DEF SizeOf, LegInv, LegTypes
<1>4. Sizely'
  <2> SUFFICES ASSUME NEW d \in Conns, NEW k \in Legs
               PROVE  unsent'[d][k] + pipe'[d][k] <= SizeOf(d, k)
    BY <1>3 DEF Sizely
  <2>1. unsent[d][k] + pipe[d][k] <= SizeOf(d, k) /\ unsent[d][k] \in Nat
        /\ pipe[d][k] \in Nat
    BY CapAssumption DEF LegInv, LegTypes, Sizely
  <2>2. CASE d = c /\ k = l BY <1>1, <1>2, <1>3, <2>1, <2>2
  <2>3. CASE d # c \/ k # l BY <1>2, <2>1, <2>3
  <2> QED BY <2>2, <2>3
<1>5. \A d \in Conns, k \in Legs : Received(d, k) => Received(d, k)'
  BY <1>1, <1>2 DEF Received
<1>6. Ordered'
  <2> SUFFICES ASSUME NEW d \in Conns
               PROVE  /\ unsent'[d]["forward"] < size[d].req => Received(d, "ask")
                      /\ unsent'[d]["answer"] < size[d].rsp => Received(d, "forward")
                      /\ unsent'[d]["relay"] < size[d].rsp => Received(d, "answer")
    BY <1>5 DEF Ordered
  <2>1. /\ unsent[d]["forward"] < size[d].req => Received(d, "ask")
        /\ unsent[d]["answer"] < size[d].rsp => Received(d, "forward")
        /\ unsent[d]["relay"] < size[d].rsp => Received(d, "answer")
    BY DEF LegInv, Ordered
  <2> QED BY <1>2, <2>1
<1>7. LegTypes' BY <1>2 DEF LegInv, LegTypes
<1> QED BY <1>2, <1>4, <1>6, <1>7 DEF LegInv

(* A read takes some of what is in a leg. *)
LEMMA TakesLeg ==
    ASSUME LegInv, NEW c \in Conns, NEW l \in Legs, NEW n \in 1 .. pipe[c][l],
           pipe' = [pipe EXCEPT ![c][l] = @ - n], UNCHANGED <<size, unsent>>
    PROVE  /\ LegInv'
           /\ \A d \in Conns, k \in Legs : d # c \/ k # l => pipe'[d][k] = pipe[d][k]
           /\ pipe'[c][l] < pipe[c][l]
<1>1. pipe[c][l] \in 0 .. Cap /\ Cap \in Nat
  BY CapAssumption DEF LegInv, LegTypes
<1>2. /\ pipe' \in [Conns -> [Legs -> 0 .. Cap]]
      /\ \A d \in Conns, k \in Legs : d # c \/ k # l => pipe'[d][k] = pipe[d][k]
      /\ pipe'[c][l] = pipe[c][l] - n
  BY <1>1 DEF LegInv, LegTypes
<1>3. \A d \in Conns, k \in Legs : pipe'[d][k] <= pipe[d][k]
  <2> SUFFICES ASSUME NEW d \in Conns, NEW k \in Legs PROVE pipe'[d][k] <= pipe[d][k]
    OBVIOUS
  <2>1. pipe[d][k] \in 0 .. Cap BY DEF LegInv, LegTypes
  <2>2. CASE d = c /\ k = l BY <1>1, <1>2, <2>2
  <2>3. CASE d # c \/ k # l BY <1>1, <1>2, <2>1, <2>3
  <2> QED BY <2>2, <2>3
<1>4. Sizely'
  <2> SUFFICES ASSUME NEW d \in Conns, NEW k \in Legs
               PROVE  unsent'[d][k] + pipe'[d][k] <= SizeOf(d, k)'
    BY DEF Sizely
  <2>1. SizeOf(d, k)' = SizeOf(d, k) /\ SizeOf(d, k) \in Nat /\ unsent'[d][k] = unsent[d][k]
    BY CapAssumption DEF SizeOf, LegInv, LegTypes
  <2>2. unsent[d][k] + pipe[d][k] <= SizeOf(d, k) /\ unsent[d][k] \in Nat
        /\ pipe[d][k] \in 0 .. Cap /\ pipe'[d][k] \in 0 .. Cap
    BY <1>2 DEF LegInv, LegTypes, Sizely
  <2> QED BY <2>1, <2>2, <1>1, <1>3
<1>5. \A d \in Conns, k \in Legs : Received(d, k) => Received(d, k)'
  <2> SUFFICES ASSUME NEW d \in Conns, NEW k \in Legs, Received(d, k) PROVE Received(d, k)'
    OBVIOUS
  <2>1. pipe'[d][k] \in 0 .. Cap /\ pipe'[d][k] <= pipe[d][k] BY <1>2, <1>3
  <2> QED BY <2>1, <1>1 DEF Received
<1>6. Ordered'
  BY <1>5 DEF LegInv, Ordered
<1>7. LegTypes' BY <1>2 DEF LegInv, LegTypes
<1>8. pipe'[c][l] < pipe[c][l] BY <1>1, <1>2
<1> QED BY <1>2, <1>4, <1>6, <1>7, <1>8 DEF LegInv

(* A leg has one reader and one writer, and its writer does not read it.     *)
LEMMA Apart ==
    ASSUME NEW c \in Conns, NEW l \in Legs, NEW t \in Threads, NEW u \in Threads
    PROVE  /\ MayRead(t, c, l) /\ MayRead(u, c, l) => t = u
           /\ MayWrite(t, c, l) /\ MayWrite(u, c, l) => t = u
           /\ ~ (MayRead(t, c, l) /\ MayWrite(t, c, l))
           /\ l = "ask" => ~ MayWrite(t, c, l)
           /\ l = "relay" => ~ MayRead(t, c, l)
           /\ MayWrite(t, c, l) =>
                /\ l = "forward" => Received(c, "ask")
                /\ l = "answer" => Received(c, "forward")
                /\ l = "relay" => Received(c, "answer")
BY OwnersAssumption DEF MayRead, MayWrite, Threads

-----------------------------------------------------------------------------
(* What a change of one leg leaves of the events of a thread *)

LEMMA PutsKeeps ==
    ASSUME LegInv, NEW c \in Conns, NEW l \in Legs, Puts(c, l), unsent[c][l] > 0,
           UNCHANGED size,
           l = "forward" => Received(c, "ask"),
           l = "answer" => Received(c, "forward"),
           l = "relay" => Received(c, "answer"),
           NEW u \in Threads, NEW d \in Conns, NEW k \in Legs
    PROVE  /\ MayRead(u, d, k) => MayRead(u, d, k)'
           /\ MayWrite(u, d, k) => MayWrite(u, d, k)'
           /\ Reported(u, d, k) /\ (d # c \/ k # l \/ ~ MayWrite(u, d, k)) => Reported(u, d, k)'
<1>1. /\ pipe'[c][l] = pipe[c][l] + 1 /\ unsent'[c][l] = unsent[c][l] - 1
      /\ \A e \in Conns, m \in Legs :
           e # c \/ m # l => pipe'[e][m] = pipe[e][m] /\ unsent'[e][m] = unsent[e][m]
  BY PutsLeg
<1>2. pipe[c][l] \in Nat /\ unsent[c][l] \in Nat /\ pipe[d][k] \in Nat
  BY CapAssumption DEF LegInv, LegTypes
<1>3. \A e \in Conns, m \in Legs : unsent[e][m] = 0 => unsent'[e][m] = 0
  BY <1>1
<1>4. \A e \in Conns, m \in Legs : Received(e, m) => Received(e, m)'
  BY <1>1 DEF Received
<1>5. MayRead(u, d, k) => MayRead(u, d, k)' BY <1>3 DEF MayRead
<1>6. MayWrite(u, d, k) => MayWrite(u, d, k)' BY <1>4 DEF MayWrite
<1>7. pipe[d][k] > 0 => pipe'[d][k] > 0
  <2>1. CASE d = c /\ k = l BY <2>1, <1>1, <1>2
  <2>2. CASE d # c \/ k # l BY <2>2, <1>1
  <2> QED BY <2>1, <2>2
<1> QED BY <1>1, <1>5, <1>6, <1>7 DEF Reported

LEMMA TakesKeeps ==
    ASSUME LegInv, NEW c \in Conns, NEW l \in Legs, NEW n \in 1 .. pipe[c][l],
           pipe' = [pipe EXCEPT ![c][l] = @ - n], UNCHANGED <<size, unsent>>,
           NEW u \in Threads, NEW d \in Conns, NEW k \in Legs
    PROVE  /\ MayWrite(u, d, k) => MayWrite(u, d, k)'
           /\ Reported(u, d, k) /\ (d # c \/ k # l \/ ~ MayRead(u, d, k)) => Reported(u, d, k)'
<1>1. /\ \A e \in Conns, m \in Legs : e # c \/ m # l => pipe'[e][m] = pipe[e][m]
      /\ pipe'[c][l] < pipe[c][l] /\ LegInv'
  BY TakesLeg
<1>2. \A e \in Conns, m \in Legs : pipe[e][m] \in 0 .. Cap /\ pipe'[e][m] \in 0 .. Cap
  BY <1>1 DEF LegInv, LegTypes
<1>3. \A e \in Conns, m \in Legs : Received(e, m) => Received(e, m)'
  <2> SUFFICES ASSUME NEW e \in Conns, NEW m \in Legs, Received(e, m)
               PROVE  Received(e, m)'
    OBVIOUS
  <2>1. CASE e = c /\ m = l BY <2>1, <1>1, <1>2, CapAssumption DEF Received
  <2>2. CASE e # c \/ m # l BY <2>2, <1>1 DEF Received
  <2> QED BY <2>1, <2>2
<1>4. MayRead(u, d, k) => MayRead(u, d, k)' BY DEF MayRead
<1>5. MayWrite(u, d, k) => MayWrite(u, d, k)' BY <1>3 DEF MayWrite
<1>6. pipe[d][k] < Cap => pipe'[d][k] < Cap
  <2>1. CASE d = c /\ k = l BY <2>1, <1>1, <1>2, CapAssumption
  <2>2. CASE d # c \/ k # l BY <2>2, <1>1
  <2> QED BY <2>1, <2>2
<1>7. MayWrite(u, d, k) /\ unsent[d][k] > 0 /\ pipe[d][k] < Cap => Reported(u, d, k)'
  BY <1>5, <1>6 DEF Reported
<1>8. ASSUME d # c \/ k # l, MayRead(u, d, k), pipe[d][k] > 0 PROVE Reported(u, d, k)'
  BY <1>8, <1>1, <1>4 DEF Reported
<1> QED BY <1>5, <1>7, <1>8 DEF Reported

-----------------------------------------------------------------------------
(* The inductive invariant *)

LEMMA InitInv == Init => IInv
<1> SUFFICES ASSUME Init PROVE IInv
  OBVIOUS
<1>1. \A c \in Conns, l \in Legs :
        unsent[c][l] = SizeOf(c, l) /\ SizeOf(c, l) \in Nat /\ pipe[c][l] = 0
  BY CapAssumption DEF Init, SizeOf
<1>2. LegTypes BY <1>1, CapAssumption DEF Init, LegTypes
<1>3. Sizely BY <1>1 DEF Sizely
<1>4. Ordered
  <2>1. \A c \in Conns : /\ unsent[c]["forward"] = size[c].req /\ size[c].req \in Nat
                         /\ unsent[c]["answer"] = size[c].rsp /\ size[c].rsp \in Nat
                         /\ unsent[c]["relay"] = size[c].rsp
    BY <1>1, CapAssumption DEF SizeOf, Init
  <2>2. \A n \in Nat : ~ (n < n) OBVIOUS
  <2>3. \A c \in Conns : /\ ~ (unsent[c]["forward"] < size[c].req)
                         /\ ~ (unsent[c]["answer"] < size[c].rsp)
                         /\ ~ (unsent[c]["relay"] < size[c].rsp)
    BY <2>1, <2>2
  <2> QED BY <2>3 DEF Ordered
<1>5. \A t \in Threads : at[t] = Poll /\ ready[t] = {} BY DEF Init
<1> QED BY <1>2, <1>3, <1>4, <1>5 DEF Init, IInv, LegInv, ThreadInv, InWrite

LEMMA PollsInv ==
    ASSUME IInv, NEW t \in Threads, Polls(t)
    PROVE  IInv'
<1>1. /\ UNCHANGED <<size, unsent, pipe, at>> /\ at[t] = Poll
      /\ ready' = [ready EXCEPT ![t] = Readable(t) \cup Writable(t)]
  BY DEF Polls, Idle
<1>2. LegInv' BY <1>1 DEF IInv, LegInv, LegTypes, Sizely, SizeOf, Ordered, Received
<1>3. \A u \in Threads : \A c, l : Reported(u, c, l) => Reported(u, c, l)'
  BY <1>1 DEF Reported, MayRead, MayWrite, Received
<1>4. ready' \in [Threads -> SUBSET Places] BY <1>1 DEF IInv, Readable, Writable
<1>5. ASSUME NEW u \in Threads PROVE ThreadInv(u)'
  <2>1. \A x \in Readable(t) \cup Writable(t) : Reported(t, x[1], x[2])
    BY DEF Readable, Writable, Reported
  <2>2. \A x \in ready'[u] : Reported(u, x[1], x[2])
    BY <1>1, <2>1 DEF IInv, ThreadInv
  <2>3. InWrite(u)'
    BY <1>1 DEF IInv, ThreadInv, InWrite, MayWrite, Received
  <2>4. at'[u] \in Places \cup {Poll} /\ ready'[u] \subseteq Places
    BY <1>1, <1>4 DEF IInv
  <2> QED BY <1>3, <2>2, <2>3, <2>4 DEF ThreadInv
<1> QED BY <1>1, <1>2, <1>4, <1>5 DEF IInv

(* A thread that neither reads nor writes the leg that changes keeps its      *)
(* events; one that does has handled the event, and is in the write or not.  *)
LEMMA PutsThread ==
    ASSUME IInv, NEW c \in Conns, NEW l \in Legs, Puts(c, l), unsent[c][l] > 0,
           UNCHANGED size,
           l = "forward" => Received(c, "ask"),
           l = "answer" => Received(c, "forward"),
           l = "relay" => Received(c, "answer"),
           NEW u \in Threads,
           ready'[u] \subseteq ready[u],
           MayWrite(u, c, l) => <<c, l>> \notin ready'[u],
           \/ at'[u] = at[u] /\ at[u] # <<c, l>>
           \/ at'[u] = Poll
           \/ at'[u] = <<c, l>> /\ unsent[c][l] > 1 /\ MayWrite(u, c, l)
    PROVE  ThreadInv(u)'
<1>1. LegInv /\ ThreadInv(u) BY DEF IInv
<1>2. /\ unsent'[c][l] = unsent[c][l] - 1 /\ unsent[c][l] \in Nat
      /\ \A e \in Conns, m \in Legs : e # c \/ m # l => unsent'[e][m] = unsent[e][m]
  BY <1>1, PutsLeg DEF LegInv, LegTypes
<1>3. ASSUME NEW x \in ready'[u] PROVE Reported(u, x[1], x[2])'
  <2>1. x \in Places /\ Reported(u, x[1], x[2]) BY <1>1 DEF ThreadInv
  <2>2. x[1] \in Conns /\ x[2] \in Legs /\ x = <<x[1], x[2]>> BY <2>1 DEF Places
  <2>3. x[1] # c \/ x[2] # l \/ ~ MayWrite(u, x[1], x[2])
    BY <2>2
  <2> QED BY <1>1, <2>1, <2>2, <2>3, PutsKeeps
<1>4. InWrite(u)'
  <2>1. CASE at'[u] = at[u] /\ at[u] # <<c, l>> /\ at[u] # Poll
    <3>1. PICK d \in Conns, k \in Legs : at[u] = <<d, k>>
      BY <1>1, <2>1 DEF ThreadInv, Places
    <3>0. at[u][1] = d /\ at[u][2] = k BY <3>1
    <3>2. MayWrite(u, d, k) /\ unsent[d][k] > 0 /\ at[u] \notin ready[u]
      BY <1>1, <2>1, <3>0 DEF ThreadInv, InWrite
    <3>3. MayWrite(u, d, k)' BY <1>1, <3>2, PutsKeeps
    <3>4. unsent'[d][k] > 0 BY <1>2, <2>1, <3>1, <3>2
    <3> QED BY <2>1, <3>1, <3>2, <3>3, <3>4 DEF InWrite
  <2>2. CASE at'[u] = Poll BY <2>2 DEF InWrite
  <2>3. CASE at'[u] = <<c, l>> /\ unsent[c][l] > 1 /\ MayWrite(u, c, l)
    <3>1. MayWrite(u, c, l)' BY <1>1, <2>3, PutsKeeps
    <3> QED BY <1>2, <2>3, <3>1 DEF InWrite
  <2> QED BY <2>1, <2>2, <2>3
<1>5. at'[u] \in Places \cup {Poll} /\ ready'[u] \subseteq Places
  BY <1>1 DEF ThreadInv, Places
<1> QED BY <1>3, <1>4, <1>5 DEF ThreadInv

LEMMA TakesThread ==
    ASSUME IInv, NEW c \in Conns, NEW l \in Legs, NEW n \in 1 .. pipe[c][l],
           pipe' = [pipe EXCEPT ![c][l] = @ - n], UNCHANGED <<size, unsent, at>>,
           NEW u \in Threads,
           ready'[u] \subseteq ready[u],
           MayRead(u, c, l) => <<c, l>> \notin ready'[u]
    PROVE  ThreadInv(u)'
<1>1. LegInv /\ ThreadInv(u) BY DEF IInv
<1>2. ASSUME NEW x \in ready'[u] PROVE Reported(u, x[1], x[2])'
  <2>1. x \in Places /\ Reported(u, x[1], x[2]) BY <1>1 DEF ThreadInv
  <2>2. x[1] \in Conns /\ x[2] \in Legs /\ x = <<x[1], x[2]>> BY <2>1 DEF Places
  <2>3. x[1] # c \/ x[2] # l \/ ~ MayRead(u, x[1], x[2])
    BY <2>2
  <2> QED BY <1>1, <2>1, <2>2, <2>3, TakesKeeps, ZenonT(60)
<1>3. InWrite(u)'
  <2>1. CASE at[u] # Poll
    <3>1. at[u][1] \in Conns /\ at[u][2] \in Legs BY <1>1, <2>1 DEF ThreadInv, Places
    <3>2. MayWrite(u, at[u][1], at[u][2])'
      BY <1>1, <2>1, <3>1, TakesKeeps, ZenonT(60) DEF ThreadInv, InWrite
    <3> QED BY <1>1, <3>2 DEF ThreadInv, InWrite
  <2> QED BY <2>1 DEF InWrite
<1> QED BY <1>1, <1>2, <1>3 DEF ThreadInv

LEMMA ReadsInv ==
    ASSUME IInv, NEW t \in Threads, Reads(t)
    PROVE  IInv'
<1>1. PICK x \in ready[t] :
        /\ MayRead(t, x[1], x[2])
        /\ \E n \in 1 .. pipe[x[1]][x[2]] : pipe' = [pipe EXCEPT ![x[1]][x[2]] = @ - n]
        /\ ready' = [ready EXCEPT ![t] = @ \ {x}]
  BY DEF Reads
<1>2. PICK c \in Conns, l \in Legs : x = <<c, l>>
  BY DEF IInv, ThreadInv, Places
<1>3. PICK n \in 1 .. pipe[c][l] : pipe' = [pipe EXCEPT ![c][l] = @ - n]
  BY <1>1, <1>2
<1>4. UNCHANGED <<size, unsent, at>> /\ MayRead(t, c, l)
  BY <1>1, <1>2 DEF Reads
<1>5. ready' \in [Threads -> SUBSET Places] BY <1>1 DEF IInv
<1>6. LegInv' BY <1>3, <1>4, TakesLeg DEF IInv
<1>7. ASSUME NEW u \in Threads PROVE ThreadInv(u)'
  <2>1. ready'[u] \subseteq ready[u] BY <1>1 DEF IInv
  <2>2. MayRead(u, c, l) => <<c, l>> \notin ready'[u]
    BY <1>1, <1>2, <1>4, Apart DEF IInv
  <2> QED BY <1>3, <1>4, <2>1, <2>2, TakesThread
<1> QED BY <1>4, <1>5, <1>6, <1>7 DEF IInv

LEMMA BeginsInv ==
    ASSUME IInv, NEW t \in Threads, Begins(t)
    PROVE  IInv'
<1>1. PICK x \in ready[t] :
        /\ MayWrite(t, x[1], x[2]) /\ Puts(x[1], x[2])
        /\ at' = [at EXCEPT ![t] = IF unsent[x[1]][x[2]] > 1 THEN x ELSE Poll]
        /\ ready' = [ready EXCEPT ![t] = @ \ {x}]
  BY DEF Begins
<1>2. PICK c \in Conns, l \in Legs : x = <<c, l>>
  BY DEF IInv, ThreadInv, Places
<1>3. MayWrite(t, c, l) /\ Puts(c, l) /\ UNCHANGED size /\ at[t] = Poll
  BY <1>1, <1>2 DEF Begins
<1>4. unsent[c][l] > 0
  <2>1. Reported(t, c, l) BY <1>2 DEF IInv, ThreadInv
  <2> QED BY <1>3, <2>1, Apart DEF Reported
<1>5. /\ l = "forward" => Received(c, "ask")
      /\ l = "answer" => Received(c, "forward")
      /\ l = "relay" => Received(c, "answer")
  BY <1>3, Apart
<1>6. /\ ready' \in [Threads -> SUBSET Places] /\ at' \in [Threads -> Places \cup {Poll}]
      /\ <<c, l>> \in Places
  BY <1>1, <1>2 DEF IInv, Places
<1>7. LegInv' BY <1>3, <1>4, <1>5, PutsLeg DEF IInv
<1>8. ASSUME NEW u \in Threads PROVE ThreadInv(u)'
  <2>1. ready'[u] \subseteq ready[u] BY <1>1 DEF IInv
  <2>2. MayWrite(u, c, l) => <<c, l>> \notin ready'[u]
    BY <1>1, <1>2, <1>3, Apart DEF IInv
  <2>3. \/ at'[u] = at[u] /\ at[u] # <<c, l>>
        \/ at'[u] = Poll
        \/ at'[u] = <<c, l>> /\ unsent[c][l] > 1 /\ MayWrite(u, c, l)
    <3>1. CASE u = t BY <3>1, <1>1, <1>2, <1>3 DEF IInv
    <3>2. CASE u # t
      <4>1. at'[u] = at[u] BY <3>2, <1>1 DEF IInv
      <4>2. at[u] = <<c, l>> => MayWrite(u, c, l)
        BY PollAssumption, <1>6 DEF IInv, ThreadInv, InWrite
      <4> QED BY <3>2, <4>1, <4>2, <1>3, Apart
    <3> QED BY <3>1, <3>2
  <2> QED BY <1>3, <1>4, <1>5, <2>1, <2>2, <2>3, PutsThread
<1> QED BY <1>6, <1>7, <1>8 DEF IInv

LEMMA ContinuesInv ==
    ASSUME IInv, NEW t \in Threads, Continues(t)
    PROVE  IInv'
<1>1. PICK c \in Conns, l \in Legs : at[t] = <<c, l>>
  BY DEF Continues, IInv, ThreadInv, Places
<1>2. /\ Puts(c, l) /\ UNCHANGED <<size, ready>> /\ at[t] # Poll
      /\ at' = [at EXCEPT ![t] = IF unsent[c][l] > 1 THEN <<c, l>> ELSE Poll]
  BY <1>1 DEF Continues
<1>3. MayWrite(t, c, l) /\ unsent[c][l] > 0 /\ <<c, l>> \notin ready[t]
  BY <1>1, <1>2 DEF IInv, ThreadInv, InWrite
<1>4. /\ l = "forward" => Received(c, "ask")
      /\ l = "answer" => Received(c, "forward")
      /\ l = "relay" => Received(c, "answer")
  BY <1>3, Apart
<1>5. at' \in [Threads -> Places \cup {Poll}] /\ <<c, l>> \in Places
  BY <1>2 DEF IInv, Places
<1>6. LegInv' BY <1>2, <1>3, <1>4, PutsLeg DEF IInv
<1>7. ASSUME NEW u \in Threads PROVE ThreadInv(u)'
  <2>1. MayWrite(u, c, l) => u = t BY <1>3, Apart
  <2>2. \/ at'[u] = at[u] /\ at[u] # <<c, l>>
        \/ at'[u] = Poll
        \/ at'[u] = <<c, l>> /\ unsent[c][l] > 1 /\ MayWrite(u, c, l)
    <3>1. CASE u = t BY <3>1, <1>2, <1>3 DEF IInv
    <3>2. CASE u # t
      <4>1. at'[u] = at[u] BY <3>2, <1>2 DEF IInv
      <4>2. at[u] = <<c, l>> => MayWrite(u, c, l)
        BY PollAssumption, <1>5 DEF IInv, ThreadInv, InWrite
      <4> QED BY <3>2, <4>1, <4>2, <2>1
    <3> QED BY <3>1, <3>2
  <2>3. ready'[u] \subseteq ready[u] /\ (MayWrite(u, c, l) => <<c, l>> \notin ready'[u])
    BY <1>2, <1>3, <2>1
  <2> QED BY <1>2, <1>3, <1>4, <2>2, <2>3, PutsThread
<1> QED BY <1>2, <1>5, <1>6, <1>7 DEF IInv

LEMMA CallerInv ==
    ASSUME IInv, NEW c \in Conns, CallerSends(c) \/ CallerReads(c)
    PROVE  IInv'
<1>1. CASE CallerSends(c)
  <2>1. Puts(c, "ask") /\ unsent[c]["ask"] > 0 /\ UNCHANGED <<size, at, ready>>
    BY <1>1 DEF CallerSends
  <2>2. LegInv' BY <2>1, PutsLeg DEF IInv
  <2>3. ASSUME NEW u \in Threads PROVE ThreadInv(u)'
    <3>1. ~ MayWrite(u, c, "ask") BY Apart
    <3>2. at[u] # Poll => at[u] # <<c, "ask">>
      BY <3>1 DEF IInv, ThreadInv, InWrite
    <3>3. at[u] = Poll \/ at[u] # <<c, "ask">> BY <3>2
    <3> QED BY <2>1, <3>1, <3>3, PutsThread
  <2> QED BY <2>1, <2>2, <2>3 DEF IInv
<1>2. CASE CallerReads(c)
  <2>1. PICK n \in 1 .. pipe[c]["relay"] : pipe' = [pipe EXCEPT ![c]["relay"] = @ - n]
    BY <1>2 DEF CallerReads
  <2>2. UNCHANGED <<size, unsent, at, ready>> BY <1>2 DEF CallerReads
  <2>3. LegInv' BY <2>1, <2>2, TakesLeg DEF IInv
  <2>4. ASSUME NEW u \in Threads PROVE ThreadInv(u)'
    <3>1. ~ MayRead(u, c, "relay") BY Apart
    <3> QED BY <2>1, <2>2, <3>1, TakesThread
  <2> QED BY <2>2, <2>3, <2>4 DEF IInv
<1> QED BY <1>1, <1>2

LEMMA NextInv == IInv /\ [Next]_vars => IInv'
<1> SUFFICES ASSUME IInv, [Next]_vars PROVE IInv'
  OBVIOUS
<1>1. CASE UNCHANGED vars
  BY <1>1 DEF vars, IInv, LegInv, LegTypes, Sizely, SizeOf, Ordered, Received, ThreadInv,
              InWrite, Reported, MayRead, MayWrite
<1>2. ASSUME NEW t \in Threads, Polls(t) \/ Reads(t) \/ Begins(t) \/ Continues(t)
      PROVE  IInv'
  BY <1>2, PollsInv, ReadsInv, BeginsInv, ContinuesInv
<1>3. ASSUME NEW c \in Conns, CallerSends(c) \/ CallerReads(c) PROVE IInv'
  BY <1>3, CallerInv
<1> QED BY <1>1, <1>2, <1>3 DEF Next, Stopped

THEOREM Invariance == Spec => []IInv
BY InitInv, NextInv, PTL DEF Spec

-----------------------------------------------------------------------------
(* What the invariant gives *)

(* A connection holds no more than it can, a packet is nowhere twice. *)
THEOREM TypeCorrect == Spec => []TypeOK
<1>1. IInv => TypeOK BY DEF IInv, LegInv, LegTypes, Sizely, TypeOK
<1> QED BY <1>1, Invariance, PTL

LEMMA WriterOf ==
    ASSUME IInv, NEW t \in Threads, NEW c \in Conns, NEW l \in Legs, at[t] = <<c, l>>
    PROVE  at[t] # Poll /\ MayWrite(t, c, l) /\ unsent[c][l] > 0
<1>1. at[t] # Poll BY PollAssumption DEF Places
<1>2. at[t][1] = c /\ at[t][2] = l OBVIOUS
<1> QED BY <1>1, <1>2 DEF IInv, ThreadInv, InWrite

LEMMA WedgedLarge ==
    ASSUME IInv, NEW c \in Conns, NEW d \in Conns, WedgedAt(c, d)
    PROVE  Large(c, d)
<1> DEFINE o == OwnerOf[d]
<1>1. /\ OwnerOf[c] = o /\ o \in Threads /\ Server \in Threads
      /\ at[Server] = <<c, "forward">> /\ at[o] = <<d, "answer">>
      /\ pipe[c]["forward"] = Cap /\ pipe[d]["answer"] = Cap
  BY OwnersAssumption DEF WedgedAt, Threads
<1>2. MayWrite(o, d, "answer") /\ unsent[c]["forward"] > 0 /\ unsent[d]["answer"] > 0
  BY <1>1, WriterOf
<1>3. unsent[d]["forward"] = 0
  BY <1>2, OwnersAssumption DEF MayWrite, Received
<1>4. /\ unsent[c]["forward"] \in Nat /\ unsent[d]["answer"] \in Nat
      /\ unsent[c]["forward"] + Cap <= size[c].req
      /\ unsent[d]["answer"] + Cap <= size[d].rsp
      /\ size[c].req \in Nat /\ size[d].rsp \in Nat /\ Cap \in Nat
  BY <1>1, CapAssumption DEF IInv, LegInv, LegTypes, Sizely, SizeOf
<1>5. size[c].req > Cap /\ size[d].rsp > Cap BY <1>2, <1>4
<1> QED BY <1>1, <1>2, <1>3, <1>5 DEF Large

(* Server and owner block each other only over a request and an answer that   *)
(* are both larger than what a connection holds.                            *)
THEOREM OnlyLargeWedge == Spec => []WedgedByLarge
<1>1. IInv => WedgedByLarge BY WedgedLarge DEF WedgedByLarge, Wedged
<1> QED BY <1>1, Invariance, PTL

(* Blocked they stay: neither reads, and nothing can be written.            *)
LEMMA WedgedStep ==
    ASSUME IInv, [Next]_vars, NEW c \in Conns, NEW d \in Conns, WedgedAt(c, d)
    PROVE  WedgedAt(c, d)'
<1> DEFINE o == OwnerOf[d]
<1>1. /\ OwnerOf[c] = o /\ o \in Threads /\ Server \in Threads
      /\ at[Server] = <<c, "forward">> /\ at[o] = <<d, "answer">>
      /\ pipe[c]["forward"] = Cap /\ pipe[d]["answer"] = Cap
  BY OwnersAssumption DEF WedgedAt, Threads
<1>2. at[Server] # Poll /\ at[o] # Poll BY <1>1, WriterOf
<1>3. SUFFICES /\ at'[Server] = at[Server] /\ at'[o] = at[o]
               /\ pipe'[c]["forward"] = pipe[c]["forward"]
               /\ pipe'[d]["answer"] = pipe[d]["answer"]
  BY <1>1 DEF WedgedAt
<1>4. /\ pipe \in [Conns -> [Legs -> 0 .. Cap]] /\ at \in [Threads -> Places \cup {Poll}]
      /\ Cap \in Nat
  BY CapAssumption DEF IInv, LegInv, LegTypes
<1>5. ASSUME NEW b \in Conns, NEW l \in Legs, Puts(b, l)
      PROVE  /\ pipe'[c]["forward"] = pipe[c]["forward"]
             /\ pipe'[d]["answer"] = pipe[d]["answer"]
  <2>1. pipe[b][l] # Cap /\ pipe' = [pipe EXCEPT ![b][l] = @ + 1]
    BY <1>4, <1>5 DEF Puts
  <2>2. (b # c \/ l # "forward") /\ (b # d \/ l # "answer") BY <1>1, <2>1
  <2> QED BY <1>4, <2>1, <2>2
<1>6. ASSUME NEW t \in Threads, Polls(t) PROVE UNCHANGED <<at, pipe>>
  BY <1>6 DEF Polls
<1>7. ASSUME NEW t \in Threads, Reads(t)
      PROVE  /\ UNCHANGED at /\ pipe'[c]["forward"] = pipe[c]["forward"]
             /\ pipe'[d]["answer"] = pipe[d]["answer"]
  <2>1. PICK x \in ready[t] :
          /\ MayRead(t, x[1], x[2])
          /\ \E n \in 1 .. pipe[x[1]][x[2]] : pipe' = [pipe EXCEPT ![x[1]][x[2]] = @ - n]
    BY <1>7 DEF Reads
  <2>2. PICK b \in Conns, l \in Legs : x = <<b, l>> BY DEF IInv, ThreadInv, Places
  <2>3. t # Server /\ t # o BY <1>2, <1>7 DEF Reads
  <2>4. MayRead(t, b, l) /\ \E n : pipe' = [pipe EXCEPT ![b][l] = @ - n] BY <2>1, <2>2
  <2>5. (b # c \/ l # "forward") /\ (b # d \/ l # "answer")
    BY <1>1, <2>3, <2>4 DEF MayRead
  <2>6. UNCHANGED at BY <1>7 DEF Reads
  <2> QED BY <1>4, <2>4, <2>5, <2>6
<1>8. ASSUME NEW t \in Threads, Begins(t)
      PROVE  /\ at'[Server] = at[Server] /\ at'[o] = at[o]
             /\ pipe'[c]["forward"] = pipe[c]["forward"]
             /\ pipe'[d]["answer"] = pipe[d]["answer"]
  <2>1. PICK x \in ready[t] : /\ Puts(x[1], x[2])
                              /\ \E y : at' = [at EXCEPT ![t] = y]
    BY <1>8 DEF Begins
  <2>2. x[1] \in Conns /\ x[2] \in Legs BY DEF IInv, ThreadInv, Places
  <2>3. t # Server /\ t # o BY <1>2, <1>8 DEF Begins
  <2> QED BY <1>1, <1>4, <1>5, <2>1, <2>2, <2>3
<1>9. ASSUME NEW t \in Threads, Continues(t)
      PROVE  /\ at'[Server] = at[Server] /\ at'[o] = at[o]
             /\ pipe'[c]["forward"] = pipe[c]["forward"]
             /\ pipe'[d]["answer"] = pipe[d]["answer"]
  <2>1. PICK b \in Conns, l \in Legs : at[t] = <<b, l>>
    BY <1>9 DEF Continues, IInv, ThreadInv, Places
  <2>2. Puts(b, l) /\ \E y : at' = [at EXCEPT ![t] = y]
    <3>1. at[t][1] = b /\ at[t][2] = l BY <2>1
    <3>2. /\ Puts(at[t][1], at[t][2])
          /\ at' = [at EXCEPT ![t] = IF unsent[at[t][1]][at[t][2]] > 1 THEN @ ELSE Poll]
      BY <1>9 DEF Continues
    <3>3. Puts(b, l) BY <3>1, <3>2
    <3>4. at' = [at EXCEPT ![t] = IF unsent[at[t][1]][at[t][2]] > 1 THEN at[t] ELSE Poll]
      BY <3>2
    <3> QED BY <3>3, <3>4
  <2>3. pipe[b][l] # Cap BY <1>4, <2>2 DEF Puts
  <2>4. t # Server /\ t # o BY <1>1, <2>1, <2>3
  <2> QED BY <1>1, <1>4, <1>5, <2>2, <2>4
<1>10. ASSUME NEW b \in Conns, CallerSends(b) \/ CallerReads(b)
       PROVE  /\ UNCHANGED at /\ pipe'[c]["forward"] = pipe[c]["forward"]
              /\ pipe'[d]["answer"] = pipe[d]["answer"]
  <2>1. CASE CallerSends(b) BY <1>5, <2>1 DEF CallerSends
  <2>2. CASE CallerReads(b)
    <3>1. UNCHANGED at /\ \E n : pipe' = [pipe EXCEPT ![b]["relay"] = @ - n]
      BY <2>2 DEF CallerReads
    <3> QED BY <1>4, <3>1
  <2> QED BY <1>10, <2>1, <2>2
<1>11. CASE UNCHANGED vars BY <1>11 DEF vars
<1> QED BY <1>6, <1>7, <1>8, <1>9, <1>10, <1>11 DEF Next, Stopped

(* Once the server and an owner block each other they stay so. *)
THEOREM WedgedForGood == Spec => WedgeStays
<1>1. IInv /\ [Next]_vars => [\A c, d \in Conns : WedgedAt(c, d) => WedgedAt(c, d)']_vars
  BY WedgedStep
<1> QED BY <1>1, Invariance, PTL DEF Spec, WedgeStays

-----------------------------------------------------------------------------
(* What stops *)

(* A thread that cannot go on has no event, or is in a write of a full leg.   *)
LEMMA Blocked ==
    ASSUME IInv, ~ CanGo, NEW t \in Threads
    PROVE  /\ at[t] = Poll => Readable(t) \cup Writable(t) = {}
           /\ at[t] # Poll => \E d \in Conns, l \in Legs :
                /\ at[t] = <<d, l>> /\ MayWrite(t, d, l)
                /\ unsent[d][l] > 0 /\ pipe[d][l] = Cap
<1>1. ~ CanPoll(t) /\ ~ CanHandle(t) /\ ~ CanContinue(t) BY DEF CanGo
<1>2. CASE at[t] = Poll
  <2>1. \A x \in ready[t] : Reported(t, x[1], x[2]) BY DEF IInv, ThreadInv
  <2>2. ready[t] = {} BY <1>1, <1>2, <2>1 DEF CanHandle, Reported
  <2> QED BY <1>1, <1>2, <2>2 DEF CanPoll, Idle
<1>3. CASE at[t] # Poll
  <2>1. PICK d \in Conns, l \in Legs : at[t] = <<d, l>>
    BY <1>3 DEF IInv, ThreadInv, Places
  <2>2. at[t][1] = d /\ at[t][2] = l BY <2>1
  <2>3. MayWrite(t, d, l) /\ unsent[d][l] > 0
    BY <1>3, <2>2 DEF IInv, ThreadInv, InWrite
  <2>4. pipe[d][l] \in 0 .. Cap BY DEF IInv, LegInv, LegTypes
  <2>5. pipe[d][l] = Cap BY <1>1, <1>3, <2>2, <2>4, CapAssumption DEF CanContinue
  <2> QED BY <1>3, <2>1, <2>3, <2>5
<1> QED BY <1>2, <1>3

(* An owner that has an event and cannot go on is in a write of an answer     *)
(* that the server would read.                                              *)
LEMMA BlockedOwner ==
    ASSUME IInv, ~ CanGo, NEW o \in Owners, NEW x \in Readable(o) \cup Writable(o)
    PROVE  \E d \in Conns :
             /\ OwnerOf[d] = o /\ at[o] = <<d, "answer">> /\ pipe[d]["answer"] = Cap
             /\ <<d, "answer">> \in Readable(Server)
<1>1. o \in Threads /\ o # Server BY OwnersAssumption DEF Threads
<1>2. at[o] # Poll BY <1>1, Blocked
<1>3. PICK d \in Conns, l \in Legs : /\ at[o] = <<d, l>> /\ MayWrite(o, d, l)
                                     /\ pipe[d][l] = Cap
  BY <1>1, <1>2, Blocked
<1>4. OwnerOf[d] = o /\ l = "answer" /\ unsent[d]["forward"] = 0
  BY <1>1, <1>3 DEF MayWrite, Received
<1>5. MayRead(Server, d, "answer") /\ pipe[d]["answer"] > 0
  BY <1>3, <1>4, CapAssumption DEF MayRead
<1>6. <<d, "answer">> \in Readable(Server) BY <1>5 DEF Readable, Places
<1> QED BY <1>3, <1>4, <1>6

(* The server cannot go on in a write: then it and an owner block each other. *)
LEMMA BlockedServer ==
    ASSUME IInv, ~ CanGo, at[Server] # Poll
    PROVE  Wedged
<1>1. PICK c \in Conns, l \in Legs : /\ at[Server] = <<c, l>> /\ MayWrite(Server, c, l)
                                     /\ unsent[c][l] > 0 /\ pipe[c][l] = Cap
  BY Blocked DEF Threads
<1>2. /\ size[c].req \in Nat \ {0} /\ size[c].rsp \in Nat \ {0}
      /\ unsent[c] \in [Legs -> Nat] /\ pipe[c] \in [Legs -> 0 .. Cap] /\ Cap \in Nat \ {0}
  BY CapAssumption DEF IInv, LegInv, LegTypes
<1>3. l \in {"forward", "relay"} BY <1>1, OwnersAssumption DEF MayWrite
<1>4. l # "relay"
  <2> SUFFICES ASSUME l = "relay" PROVE FALSE OBVIOUS
  <2>1. Received(c, "answer") BY <1>1, OwnersAssumption DEF MayWrite
  <2>2. Received(c, "forward") BY <1>2, <2>1 DEF Received, IInv, LegInv, Ordered
  <2>3. Received(c, "ask") BY <1>2, <2>2 DEF Received, IInv, LegInv, Ordered
  <2>4. unsent[c]["ask"] = 0 /\ pipe[c]["relay"] > 0 BY <1>1, <1>2, <2>3 DEF Received
  <2> QED BY <2>4 DEF CanGo
<1>5. /\ at[Server] = <<c, "forward">> /\ pipe[c]["forward"] = Cap
      /\ OwnerOf[c] \in Owners
  BY <1>1, <1>3, <1>4, OwnersAssumption
<1>6. <<c, "forward">> \in Readable(OwnerOf[c])
  BY <1>2, <1>5 DEF Readable, Places, MayRead
<1>7. PICK d \in Conns : /\ OwnerOf[d] = OwnerOf[c] /\ at[OwnerOf[c]] = <<d, "answer">>
                         /\ pipe[d]["answer"] = Cap
  BY <1>5, <1>6, BlockedOwner
<1> QED BY <1>5, <1>7 DEF Wedged, WedgedAt

(* Nobody can go on and the server is not in a write: all is done.           *)
LEMMA StoppedDone ==
    ASSUME IInv, ~ CanGo, at[Server] = Poll, NEW c \in Conns, NEW l \in Legs
    PROVE  Received(c, l)
<1>1. Readable(Server) = {} /\ Writable(Server) = {} BY Blocked DEF Threads
<1>2. \A o \in Owners : Readable(o) = {} /\ Writable(o) = {} BY <1>1, BlockedOwner
<1>3. OwnerOf[c] \in Owners BY OwnersAssumption
<1>4. /\ unsent[c] \in [Legs -> Nat] /\ pipe[c] \in [Legs -> 0 .. Cap] /\ Cap \in Nat \ {0}
  BY CapAssumption DEF IInv, LegInv, LegTypes
<1>5. \A t \in Threads, k \in Legs :
        Readable(t) = {} /\ MayRead(t, c, k) => pipe[c][k] = 0
  <2> SUFFICES ASSUME NEW t \in Threads, NEW k \in Legs, Readable(t) = {}, MayRead(t, c, k)
               PROVE  pipe[c][k] = 0
    OBVIOUS
  <2>1. <<c, k>> \notin Readable(t) /\ <<c, k>> \in Places BY DEF Places
  <2>2. ~ (pipe[c][k] > 0) BY <2>1 DEF Readable
  <2> QED BY <1>4, <2>2
<1>6. \A t \in Threads, k \in Legs :
        Writable(t) = {} /\ MayWrite(t, c, k) => unsent[c][k] = 0 \/ pipe[c][k] > 0
  <2> SUFFICES ASSUME NEW t \in Threads, NEW k \in Legs, Writable(t) = {}, MayWrite(t, c, k)
               PROVE  unsent[c][k] = 0 \/ pipe[c][k] > 0
    OBVIOUS
  <2>1. <<c, k>> \notin Writable(t) /\ <<c, k>> \in Places BY DEF Places
  <2>2. ~ (unsent[c][k] > 0 /\ pipe[c][k] < Cap) BY <2>1 DEF Writable
  <2> QED BY <1>4, <2>2
<1>7. /\ unsent[c]["ask"] > 0 => pipe[c]["ask"] = Cap
      /\ unsent[c]["ask"] = 0 => pipe[c]["relay"] = 0
  BY <1>4 DEF CanGo
<1>8. Received(c, "ask")
  BY <1>1, <1>4, <1>5, <1>7 DEF Received, MayRead, Threads
<1>9. Received(c, "forward")
  <2>1. pipe[c]["forward"] = 0 BY <1>2, <1>3, <1>5 DEF MayRead, Threads
  <2>2. MayWrite(Server, c, "forward") BY <1>8 DEF MayWrite
  <2> QED BY <1>1, <1>4, <1>6, <2>1, <2>2 DEF Received, Threads
<1>10. Received(c, "answer")
  <2>1. MayRead(Server, c, "answer") BY <1>9 DEF MayRead, Received
  <2>2. pipe[c]["answer"] = 0 BY <1>1, <1>5, <2>1 DEF Threads
  <2>3. MayWrite(OwnerOf[c], c, "answer") BY <1>9 DEF MayWrite
  <2> QED BY <1>2, <1>3, <1>4, <1>6, <2>2, <2>3 DEF Received, Threads
<1>11. Received(c, "relay")
  <2>1. pipe[c]["relay"] = 0 BY <1>7, <1>8 DEF Received
  <2>2. MayWrite(Server, c, "relay") BY <1>10 DEF MayWrite
  <2> QED BY <1>1, <1>4, <1>6, <2>1, <2>2 DEF Received, Threads
<1> QED BY <1>8, <1>9, <1>10, <1>11

(* The loops stop only when every caller has its answer, or in the blocked    *)
(* writes: somebody can go on otherwise.                                    *)
THEOREM StopsOnlyWedged == Spec => []OnlyWedged
<1>1. IInv => OnlyWedged
  <2> SUFFICES ASSUME IInv, ~ CanGo PROVE AllDone \/ Wedged BY DEF OnlyWedged
  <2>1. CASE at[Server] # Poll BY <2>1, BlockedServer
  <2>2. CASE at[Server] = Poll BY <2>2, StoppedDone DEF AllDone
  <2> QED BY <2>1, <2>2
<1> QED BY <1>1, Invariance, PTL
=============================================================================

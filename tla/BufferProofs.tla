---------------------------- MODULE BufferProofs ----------------------------
(***************************************************************************)
(* A buffer is a FIFO queue of bytes and its assertion never fails, for    *)
(* every kind of bytes and values, whatever the kernel and the serialize   *)
(* functions choose within their contracts.                                *)
(***************************************************************************)
EXTENDS BufferQueue, ByteLemmas

LEMMA FifoQueued == Fifo <=> Queued(buf, came, taken)
  BY DEF Fifo, Queued

-----------------------------------------------------------------------------
(* The inductive invariant is the conjunction of the properties: RoomOK is *)
(* what makes the assertion after the serialize loop hold.                 *)
IInv == TypeOK /\ Fifo /\ NoAssert /\ RoomOK


(* The same, in terms of the lemmas above *)
State ==
    /\ Good(buf) /\ job \in Jobs /\ failed = FALSE
    /\ came \in Seq(Byte) /\ taken \in Nat
    /\ Queued(buf, came, taken)
    /\ job.busy => job.room = Rem(buf)

LEMMA IInvState == IInv <=> State
<1>1. Good(buf) => Rem(Increase(buf)) > 0
  BY IncreaseRoom
<1> QED
  BY <1>1, FifoQueued DEF IInv, TypeOK, NoAssert, RoomOK, Good, State

LEMMA InitState == Init => State
<1> SUFFICES ASSUME Init PROVE State
  OBVIOUS
<1>1. Good(buf) /\ Queued(buf, came, taken)
  BY NoBufferGood DEF Init, Queued, NoBuffer
<1>2. job \in Jobs /\ ~ job.busy /\ failed = FALSE /\ came \in Seq(Byte) /\ taken \in Nat
  BY DEF Init, Jobs, Idle
<1> QED
  BY <1>1, <1>2 DEF State

(* Moving ptr past bytes that fit into a buffer with the same contents *)
LEMMA PutState ==
  ASSUME State, NEW b, Good(b), Queued(b, came, taken),
         NEW s \in Seq(Byte), Len(s) <= Rem(b), Put(b, s)
  PROVE  /\ Good(buf') /\ failed' = FALSE /\ came' \in Seq(Byte)
         /\ Queued(buf', came', taken)
<1>1. came \in Seq(Byte) /\ taken \in Nat /\ failed = FALSE
  BY DEF State
<1>2. Len(s) \in Nat /\ Rem(b) \in Nat
  BY GoodFacts
<1>3. buf' = Added(b, s) /\ came' = came \o s /\ failed' = failed
  BY <1>2 DEF Put, CanAdvance
<1> QED
  BY <1>1, <1>3, AddedQueue

(* The room that the serialize loop believes in after a resize *)
LEMMA RetryState ==
  ASSUME State, NEW k \in Nat, NEW used \in Nat, Retry(k, used)
  PROVE  State'
<1> DEFINE v == job.value
           s == SubSeq(v, 1, k)
           b == Store(buf, s)
<1>1. /\ Good(buf) /\ job \in Jobs /\ failed = FALSE /\ came \in Seq(Byte)
      /\ taken \in Nat /\ Queued(buf, came, taken) /\ job.room = Rem(buf)
  BY DEF State, Retry
<1>2. /\ k <= job.room /\ job.room < used /\ used <= Len(v)
      /\ v \in Seq(Byte) /\ job.room \in Nat /\ job.busy = TRUE
  BY <1>1 DEF Retry, Jobs
<1>3. s \in Seq(Byte) /\ Len(s) = k
  <2>1. k <= Len(v) /\ Len(v) \in Nat
    BY <1>2
  <2> HIDE DEF v
  <2> QED
    BY <1>2, <2>1
<1>4. Good(b) /\ b.used = buf.used /\ \A i \in 1 .. buf.used : b.mem[i] = buf.mem[i]
  BY <1>1, <1>2, <1>3, StoreKeeps
<1>5. buf' = Resize(b, b.used + used) /\ b.used \in Nat /\ b.used + used \in Nat
      /\ b.used <= b.used + used
  BY <1>4, GoodFacts DEF Retry, Grown
<1> HIDE DEF b
<1>6. /\ Good(buf') /\ buf'.used = b.used /\ Rem(buf') = (b.used + used) - b.used
      /\ \A i \in 1 .. b.used : buf'.mem[i] = b.mem[i]
  BY <1>4, <1>5, ResizeKeeps
<1>7. Queued(buf', came, taken)
  BY <1>1, <1>4, <1>6, SameQueue
<1>8. /\ job' = [job EXCEPT !.room = used]
      /\ failed' = failed /\ came' = came /\ taken' = taken
  BY DEF Retry
<1>9. job' \in Jobs /\ job'.room = used
  BY <1>1, <1>8 DEF Jobs
<1> QED
  BY <1>1, <1>5, <1>6, <1>7, <1>8, <1>9 DEF State

LEMMA NextState == State /\ [Next]_vars => State'
<1> SUFFICES ASSUME State, [Next]_vars PROVE State'
  OBVIOUS
<1>1. /\ Good(buf) /\ job \in Jobs /\ failed = FALSE
      /\ came \in Seq(Byte) /\ taken \in Nat
      /\ Queued(buf, came, taken) /\ (job.busy => job.room = Rem(buf))
  BY DEF State
<1>2. ASSUME NEW n \in Nat, ReadBytes(n) PROVE State'
  <2> DEFINE b == Increase(buf)
  <2>1. PICK s \in Bytes(n) : Put(b, s)
    BY <1>2 DEF ReadBytes
  <2>2. s \in Seq(Byte) /\ Len(s) = n /\ n <= Rem(b)
    BY <1>2 DEF Bytes, ReadBytes
  <2>3. Good(b) /\ Queued(b, came, taken)
    BY <1>1, IncreaseRoom, SameQueue
  <2>4. ~ job.busy /\ job' = job /\ taken' = taken
    BY <1>2 DEF ReadBytes, Ready
  <2> HIDE DEF b
  <2>5. Good(buf') /\ failed' = FALSE /\ came' \in Seq(Byte) /\ Queued(buf', came', taken)
    BY <2>1, <2>2, <2>3, PutState
  <2> QED
    BY <1>1, <2>4, <2>5 DEF State
<1>3. ASSUME NEW n \in Nat, Take(n) PROVE State'
  <2>1. /\ n <= buf.used /\ buf' = Shift(buf, n) /\ taken' = taken + n
        /\ ~ job.busy /\ job' = job /\ failed' = failed /\ came' = came
    BY <1>3 DEF Take, Ready
  <2>2. Good(buf') /\ Queued(buf', came, taken + n)
    BY <1>1, <2>1, TakenQueue
  <2>3. taken' \in Nat
    BY <1>1, <2>1
  <2> QED
    BY <1>1, <2>1, <2>2, <2>3 DEF State
<1>4. ASSUME NEW v \in Values, Copy(v) PROVE State'
  <2> DEFINE b == CopyRoom(buf, v)
             n == Size(buf) + Len(v)
  <2>1. v \in Seq(Byte) /\ Len(v) \in Nat
    BY ValuesAssumption
  <2>2. Good(b) /\ Queued(b, came, taken) /\ Len(v) <= Rem(b)
    <3>1. n \in Nat /\ buf.used <= n /\ n - buf.used >= Len(v) /\ Rem(buf) \in Nat
      BY <1>1, <2>1, GoodFacts
    <3>2. CASE Rem(buf) < Len(v)
      <4>1. b = Resize(buf, n)
        BY <3>2 DEF CopyRoom
      <4> QED
        BY <1>1, <3>1, <4>1, ResizeKeeps, SameQueue
    <3>3. CASE Rem(buf) >= Len(v)
      <4>1. b = buf
        BY <2>1, <3>1, <3>3 DEF CopyRoom
      <4> QED
        BY <1>1, <3>3, <4>1
    <3> QED
      BY <2>1, <3>1, <3>2, <3>3
  <2>3. Put(b, v) /\ ~ job.busy /\ job' = job /\ taken' = taken
    BY <1>4 DEF Copy, Ready
  <2> HIDE DEF b
  <2>4. Good(buf') /\ failed' = FALSE /\ came' \in Seq(Byte) /\ Queued(buf', came', taken)
    BY <2>1, <2>2, <2>3, PutState
  <2> QED
    BY <1>1, <2>3, <2>4 DEF State
<1>5. ASSUME NEW v \in Values, Serialize(v) PROVE State'
  <2>1. v \in Seq(Byte) /\ Rem(buf) \in Nat
    BY <1>1, ValuesAssumption, GoodFacts
  <2>2. /\ job' = [busy |-> TRUE, value |-> v, room |-> Rem(buf)]
        /\ buf' = buf /\ failed' = failed /\ came' = came /\ taken' = taken
    BY <1>5 DEF Serialize
  <2>3. job' \in Jobs /\ job'.room = Rem(buf)
    BY <2>1, <2>2 DEF Jobs
  <2> QED
    BY <1>1, <2>2, <2>3 DEF State
<1>6. ASSUME Serialized PROVE State'
  <2>1. job.value \in Seq(Byte) /\ Len(job.value) <= Rem(buf) /\ Put(buf, job.value)
    BY <1>1, <1>6 DEF Serialized, Jobs
  <2>2. Good(buf') /\ failed' = FALSE /\ came' \in Seq(Byte) /\ Queued(buf', came', taken)
    BY <1>1, <2>1, PutState
  <2>3. job' \in Jobs /\ ~ job'.busy /\ taken' = taken
    BY <1>6 DEF Serialized, Idle, Jobs
  <2> QED
    BY <1>1, <2>2, <2>3 DEF State
<1>7. ASSUME SerializeFails PROVE State'
  <2>1. job' \in Jobs /\ ~ job'.busy
    BY <1>7 DEF SerializeFails, Idle, Jobs
  <2> QED
    BY <1>1, <1>7, <2>1 DEF SerializeFails, State
<1>8. CASE UNCHANGED vars
  BY <1>1, <1>8 DEF vars, State
<1>9. 0 .. MaxBytes \subseteq Nat /\ 0 .. Len(job.value) \subseteq Nat
  BY BoundAssumption
<1> QED
  BY <1>2, <1>3, <1>4, <1>5, <1>6, <1>7, <1>8, <1>9, RetryState DEF Next, Loop

-----------------------------------------------------------------------------
LEMMA Inductive == Spec => []IInv
  BY IInvState, InitState, NextState, PTL DEF Spec

(* ptr stays between begin and end, and the memory of a buffer is a         *)
(* sequence of bytes, through every resize and shift.                      *)
THEOREM BufferTypeCorrect == Spec => []TypeOK
<1>1. IInv => TypeOK
  BY DEF IInv
<1> QED
  BY <1>1, Inductive, PTL

(* No byte is lost, repeated or reordered between what is put into a buffer *)
(* and what is taken out of it.                                            *)
THEOREM FifoCorrect == Spec => []Fifo
<1>1. IInv => Fifo
  BY DEF IInv
<1> QED
  BY <1>1, Inductive, PTL

(* The assertion of buffer_advance never fails. *)
THEOREM NoAssertCorrect == Spec => []NoAssert
<1>1. IInv => NoAssert
  BY DEF IInv
<1> QED
  BY <1>1, Inductive, PTL

(* read(2) always gets room, and the serialize loop knows the room it has. *)
THEOREM RoomCorrect == Spec => []RoomOK
<1>1. IInv => RoomOK
  BY DEF IInv
<1> QED
  BY <1>1, Inductive, PTL
=============================================================================

----------------------------- MODULE BufferQueue -----------------------------
(***************************************************************************)
(* One buffer under any sequence of calls.  A read or a write moves as     *)
(* many bytes as the kernel likes.  buffer_serialize calls a serialize     *)
(* function again and again with more room until the value fits; what the  *)
(* function returns meanwhile is only known to be more than the room it    *)
(* had and at most the length of the value (module CodecCorrect).          *)
(***************************************************************************)
EXTENDS Buffer

CONSTANTS
    Values,     \* encodings of the values to be serialized
    MaxBytes    \* bound of TLC's runs: bytes put into the buffer in all

ASSUME ValuesAssumption == Values \subseteq Seq(Byte)
ASSUME BoundAssumption == MaxBytes \in Nat

VARIABLES
    buf,        \* the buffer
    job,        \* the value buffer_serialize is at, and its room; or idle
    failed,     \* buffer_advance's assertion has failed
    came,       \* every byte its callers have put in, in order
    taken       \* how many bytes they have taken out again

vars == <<buf, job, failed, came, taken>>

Idle == [busy |-> FALSE, value |-> << >>, room |-> 0]
Jobs == [busy : BOOLEAN, value : Seq(Byte), room : Nat]

Bytes(n) == [1 .. n -> Byte]

Ready == ~ failed /\ ~ job.busy

(* Move ptr past the bytes s, stored before, in b *)
Put(b, s) ==
    IF CanAdvance(b, Len(s))
    THEN buf' = Added(b, s) /\ came' = came \o s /\ UNCHANGED failed
    ELSE failed' = TRUE /\ UNCHANGED <<buf, came>>

(* buffer_read: n bytes, no more than fit; none at end of file or error *)
ReadBytes(n) ==
    /\ Ready /\ n <= Rem(Increase(buf)) /\ Len(came) + n <= MaxBytes
    /\ \E s \in Bytes(n) : Put(Increase(buf), s)
    /\ UNCHANGED <<job, taken>>

(* buffer_write of n bytes, or buffer_deserialize of a value of n bytes *)
Take(n) ==
    /\ Ready /\ n <= buf.used
    /\ buf' = Shift(buf, n)
    /\ taken' = taken + n
    /\ UNCHANGED <<job, failed, came>>

Copy(s) ==
    /\ Ready /\ Len(came) + Len(s) <= MaxBytes
    /\ Put(CopyRoom(buf, s), s)
    /\ UNCHANGED <<job, taken>>

Serialize(v) ==
    /\ Ready /\ Len(came) + Len(v) <= MaxBytes
    /\ job' = [busy |-> TRUE, value |-> v, room |-> Rem(buf)]
    /\ UNCHANGED <<buf, failed, came, taken>>

(* Slip: resized to what the value needs, with ptr where it was *)
Grown_Bare(b, used) == [Resize(b, used) EXCEPT !.used = b.used]

Grown(b, used) == Resize(b, b.used + used)

(* Slip: the loop forgets its new room *)
Retry_Same(k, used) ==
    /\ ~ failed /\ job.busy
    /\ k <= job.room /\ job.room < used /\ used <= Len(job.value)
    /\ buf' = Grown(Store(buf, SubSeq(job.value, 1, k)), used)
    /\ UNCHANGED <<job, failed, came, taken>>

(* The value does not fit: the function writes k bytes of it all the same,  *)
(* and returns used.                                                       *)
Retry(k, used) ==
    /\ ~ failed /\ job.busy
    /\ k <= job.room /\ job.room < used /\ used <= Len(job.value)
    /\ buf' = Grown(Store(buf, SubSeq(job.value, 1, k)), used)
    /\ job' = [job EXCEPT !.room = used]
    /\ UNCHANGED <<failed, came, taken>>

Serialized ==
    /\ ~ failed /\ job.busy /\ Len(job.value) <= job.room
    /\ Put(buf, job.value)
    /\ job' = Idle
    /\ UNCHANGED taken

(* realloc fails: buffer_serialize returns -1 *)
SerializeFails ==
    /\ ~ failed /\ job.busy /\ job.room < Len(job.value)
    /\ job' = Idle
    /\ UNCHANGED <<buf, failed, came, taken>>

Init ==
    /\ buf = NoBuffer /\ job = Idle /\ failed = FALSE
    /\ came = << >> /\ taken = 0

Loop == (\E k, used \in 0 .. Len(job.value) : Retry(k, used)) \/ Serialized

Next ==
    \/ \E n \in 0 .. MaxBytes : ReadBytes(n) \/ Take(n)
    \/ \E v \in Values : Copy(v) \/ Serialize(v)
    \/ Loop \/ SerializeFails

Spec == Init /\ [][Next]_vars
FairSpec == Spec /\ WF_vars(Loop)

-----------------------------------------------------------------------------
(* ptr is between begin and end *)
TypeOK ==
    /\ buf \in Buffers /\ buf.used <= Size(buf)
    /\ job \in Jobs /\ failed \in BOOLEAN
    /\ came \in Seq(Byte) /\ taken \in Nat

(* What a buffer holds is what was put in and not yet taken out, in order:  *)
(* no growth, shift or half-written value loses, repeats or reorders a byte.*)
Fifo ==
    /\ Len(came) = taken + buf.used
    /\ \A i \in 1 .. buf.used : buf.mem[i] = came[taken + i]

(* assert(rem >= nbytes) of buffer_advance never fails: the room the        *)
(* serialize loop believes in is the room there is.                        *)
NoAssert == ~ failed

(* Never is a read(2) asked for zero bytes, which would look like the end   *)
(* of file, and no value is written beyond the memory it was given.        *)
RoomOK ==
    /\ Rem(Increase(buf)) > 0
    /\ job.busy => job.room = Rem(buf)

(* The loop of buffer_serialize ends. *)
SerializeEnds == job.busy ~> ~ job.busy
=============================================================================

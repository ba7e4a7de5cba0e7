------------------------------ MODULE Exchange ------------------------------
(***************************************************************************)
(* One call of a client on a resource of another (client-rsrc.c): connect, *)
(* send the request, receive the answer, return (client-pkt.c), byte by    *)
(* byte, against the server's end of the connection.  The kernel moves as  *)
(* many bytes at a time as it likes.  Every call has its own connection,   *)
(* buffers and packets; its answer comes from the server or the owner, and *)
(* what they do to find it is the matter of module Server.                 *)
(***************************************************************************)
EXTENDS Codec, Buffer

CONSTANTS
    Calls,      \* requests the client may make
    Errors,     \* error codes of an answer
    Pipe,       \* bytes a TCP connection holds in one direction
    HangUps,    \* how the server's end may stop, a subset of HangUpKinds
    Leftovers   \* packets that an uninitialized in_pkt may look like

HangUpKinds == {"refuse", "decline", "cut"}
ASSUME PipeAssumption == Pipe \in Nat \ {0}
ASSUME HangUpsAssumption == HangUps \subseteq HangUpKinds
ASSUME ErrorsAssumption == Errors \subseteq Nat \ {0}

VARIABLES
    call,       \* out_pkt
    pc,         \* where the client is
    room,       \* what buffer_serialize believes is free
    out, in,    \* the client's buffers
    got,        \* in_pkt, as far as it was decoded
    leftover,   \* what in_pkt held before, where it is not cleared
    result,     \* what the call returns
    c2s, s2c,   \* bytes on the connection
    far,        \* where the server's end is
    rd,         \* its input buffer
    asked,      \* the request it has decoded
    answer,     \* the packet it answers with
    wr          \* bytes of it still to be written

clientVars == <<call, pc, room, out, in, got, leftover, result>>
farVars == <<far, rd, asked, answer, wr>>
vars == <<clientVars, c2s, s2c, farVars>>

-----------------------------------------------------------------------------
(* The packets *)

Plain == {OPEN, ACCESS, TRUNCATE, RENAME}
ASSUME CallsAssumption ==
    \A c \in Calls :
        /\ c[3] \in Plain \cup {GETATTR, READDIR, READ, WRITE}
        /\ c[3] \in {READ, WRITE} => c[7] \in Nat

(* What the owner's handlers or the server can say to a request: pread      *)
(* returns no more than was asked for.                                     *)
Dirs == {<<0>>, <<1, <<1>>, 5>>}
Chunks(size) == {s \in {<< >>, <<7>>, <<0, 7>>} : Len(s) <= size}
Answers(c) ==
    {<<MAGIC, RESPONSE, ERROR, e>> : e \in Errors} \cup
    CASE c[3] \in Plain \cup {WRITE} -> {<<MAGIC, RESPONSE, OK>>}
      [] c[3] = GETATTR -> {<<MAGIC, RESPONSE, STAT, 5, 1, 2, 3>>}
      [] c[3] = READ    -> {<<MAGIC, RESPONSE, DATA, Len(s), s>> : s \in Chunks(c[7])}
      [] c[3] = READDIR -> {<<MAGIC, RESPONSE, DIR>> \o e : e \in Dirs}

(* Every packet that is sent, its bytes, what is written of it into n bytes *)
(* of room, and what its beginnings are decoded to: one packet is all that  *)
(* a direction ever carries.                                               *)
Packets == Calls \cup UNION {Answers(c) : c \in Calls}
Wire == [p \in Packets |-> Encoding(p)]
Beginnings == {<< >>} \cup UNION {{SubSeq(Wire[p], 1, n) : n \in DOMAIN Wire[p]} : p \in Packets}
Serializing == [p \in Calls |-> [n \in 0 .. Len(Wire[p]) |-> SerializePkt(p, n)]]
Decoding == [s \in Beginnings |-> DeserializePkt(s)]

(* The fields of these packets are what such fields can hold. *)
ASSUME PacketsAssumption ==
    /\ 0 .. Base - 1 \subseteq Byte
    /\ \A p \in Packets : Packet(p) /\ \A i \in 1 .. Len(p) : p[i] # NotRead

-----------------------------------------------------------------------------
(* What a call makes of the packet it received *)

Type == call[3]

Result(how, value) == [how |-> how, value |-> value]
Failure == Result("error", << >>)
Success(value) == Result("ok", value)

(* lstat and write do not clear in_pkt (client-rsrc.c:210, :631). *)
Cleared == Type \notin {GETATTR, WRITE}
Before(i) == IF Cleared \/ i > Len(leftover) THEN 0 ELSE leftover[i]

Read(p, i) == i <= Len(p) /\ p[i] # NotRead
Field(p, i) == IF Read(p, i) THEN p[i] ELSE Before(i)

IsResponse(p) == Field(p, 1) = MAGIC /\ Field(p, 2) = RESPONSE

(* Slip: the code of an error is returned as it is *)
Verdict_Positive(p, type) ==
    CASE ~ IsResponse(p) -> -1
      [] IsResponse(p) /\ Field(p, 3) = type -> 0
      [] IsResponse(p) /\ Field(p, 3) # type /\ Field(p, 3) = ERROR -> Field(p, 4)
      [] OTHER -> -1

(* response_validate, < 0 for an error; the code of an error answer is 0 if *)
(* it was not decoded                                                      *)
Verdict(p, type) ==
    CASE ~ IsResponse(p) -> -1
      [] IsResponse(p) /\ Field(p, 3) = type -> 0
      [] IsResponse(p) /\ Field(p, 3) # type /\ Field(p, 3) = ERROR -> 0 - Field(p, 4)
      [] OTHER -> -1

Validated(p, type, value) == IF Verdict(p, type) < 0 THEN Failure ELSE value

(* Slip: as many bytes are copied as were asked for *)
Copied_Size(p) == call[7]
Copied(p) == Least(call[7], Field(p, 4))

(* client_rsrc_read: memcpy from what data the packet has *)
ReadResult(p) ==
    CASE ~ IsResponse(p) -> Failure
      [] IsResponse(p) /\ Field(p, 3) = DATA ->
           IF Copied(p) = 0 THEN Success(<< >>)
           ELSE IF Read(p, 5) /\ Copied(p) <= Len(p[5])
           THEN Success(SubSeq(p[5], 1, Copied(p)))
           ELSE Result("crash", << >>)
      [] IsResponse(p) /\ Field(p, 3) = ERROR ->
           IF Field(p, 4) > 0 THEN Failure ELSE Success(<< >>)
      [] OTHER -> Failure

(* client_rsrc_readdir passes every name to FUSE, which copies it. *)
Entries(p) ==
    LET names == 5 .. 4 + 2 * Field(p, 4) IN
    IF \E i \in names : i % 2 = 1 /\ ~ Read(p, i)
    THEN Result("crash", << >>)
    ELSE Success([i \in 1 .. 2 * Field(p, 4) |-> Field(p, i + 4)])
DirResult(p) == Validated(p, DIR, Entries(p))

(* client_rsrc_write asserts that the answer is what it hopes for. *)
WriteResult(p) ==
    IF IsResponse(p) /\ Field(p, 3) = OK THEN Success(call[7]) ELSE Result("abort", << >>)

OpenResult(p) == Validated(p, OK, Success(<< >>))
AccessResult(p) == Validated(p, OK, Success(<< >>))
TruncateResult(p) == Validated(p, OK, Success(<< >>))
RenameResult(p) == Validated(p, OK, Success(<< >>))
StatResult(p) == Validated(p, STAT, Success([i \in 1 .. 4 |-> Field(p, i + 3)]))

(* The client_rsrc_* function that made the call goes on with in_pkt. *)
Outcome(p) ==
    CASE Type = OPEN     -> OpenResult(p)
      [] Type = ACCESS   -> AccessResult(p)
      [] Type = TRUNCATE -> TruncateResult(p)
      [] Type = RENAME   -> RenameResult(p)
      [] Type = GETATTR  -> StatResult(p)
      [] Type = READDIR  -> DirResult(p)
      [] Type = READ     -> ReadResult(p)
      [] Type = WRITE    -> WriteResult(p)

-----------------------------------------------------------------------------
(* The client: packet_xchg *)

Return(r) == pc' = "return" /\ result' = r

Connect ==
    /\ pc = "connect"
    /\ \/ pc' = "serialize" /\ UNCHANGED result
       \/ "refuse" \in HangUps /\ Return(Failure)
    /\ UNCHANGED <<call, room, out, in, got, leftover, c2s, s2c, farVars>>

(* One turn of the loop of buffer_serialize *)
SerializeCall ==
    /\ pc = "serialize"
    /\ LET done == Serializing[call][room]
           stored == Store(out, done.out) IN
       IF done.used > room
       THEN out' = Resize(stored, out.used + done.used) /\ room' = done.used /\ UNCHANGED pc
       ELSE out' = Advance(stored, done.used) /\ pc' = "send" /\ UNCHANGED room
    /\ UNCHANGED <<call, in, got, leftover, result, c2s, s2c, farVars>>

(* buffer_write of k bytes *)
Send(k) ==
    /\ pc = "send" /\ ~ IsEmpty(out)
    /\ k <= out.used /\ Len(c2s) + k <= Pipe
    /\ c2s' = c2s \o SubSeq(out.mem, 1, k)
    /\ out' = Shift(out, k)
    /\ UNCHANGED <<call, pc, room, in, got, leftover, result, s2c, farVars>>

(* The connection was reset: EPIPE; FUSE has SIGPIPE ignored. *)
SendFails ==
    /\ pc = "send" /\ ~ IsEmpty(out) /\ far = "closed"
    /\ Return(Failure)
    /\ UNCHANGED <<call, room, out, in, got, leftover, c2s, s2c, farVars>>

Sent ==
    /\ pc = "send" /\ IsEmpty(out)
    /\ pc' = "recv"
    /\ UNCHANGED <<call, room, out, in, got, leftover, result, c2s, s2c, farVars>>

(* Slip: buffer_deserialize wants a byte after the packet *)
Complete_After(d, used) == d.used < used
Complete(d, used) == d.used <= used

(* buffer_read of k bytes and the next buffer_deserialize *)
Recv(k) ==
    /\ pc = "recv"
    /\ k <= Len(s2c) /\ k <= Rem(Increase(in))
    /\ LET b == Advance(Store(Increase(in), SubSeq(s2c, 1, k)), k)
           d == Decoding[Contents(b)] IN
       /\ in' = IF Complete(d, b.used) THEN Shift(b, d.used) ELSE b
       /\ got' = d.vals
       /\ IF Complete(d, b.used)
          THEN Return(Outcome(d.vals))
          ELSE UNCHANGED <<pc, result>>
    /\ s2c' = SubSeq(s2c, k + 1, Len(s2c))
    /\ UNCHANGED <<call, room, out, leftover, c2s, farVars>>

(* print_packet follows the pointers of in_pkt: the strings of a request or *)
(* of a connect packet, the entries of a directory.                        *)
Followed(p) ==
    \/ Field(p, 2) \in {CONNECT, REQUEST}
    \/ Field(p, 2) = RESPONSE /\ Field(p, 3) = DIR

(* read returns 0 or an error, as it does without room: packet_recv breaks  *)
(* off, prints the packet and returns 1, which its caller takes for         *)
(* success.  A pointer that was in memory before may lead anywhere.        *)
RecvEnds ==
    /\ pc = "recv"
    /\ \/ far = "closed" /\ s2c = << >>
       \/ Rem(Increase(in)) = 0
    /\ \/ Return(Outcome(got))
       \/ ~ Cleared /\ Followed(got) /\ Return(Result("crash", << >>))
    /\ UNCHANGED <<call, room, out, in, got, leftover, c2s, s2c, farVars>>

-----------------------------------------------------------------------------
(* The server's end: handle_pkt_rd, the answer, handle_pkt_wr *)

FarRead(k) ==
    /\ far = "read" /\ k <= Len(c2s)
    /\ c2s' = SubSeq(c2s, k + 1, Len(c2s))
    /\ rd' = rd \o SubSeq(c2s, 1, k)
    /\ LET d == Decoding[rd'] IN
       IF Complete(d, Len(rd'))
       THEN /\ asked' = d.vals
            /\ \E a \in Answers(d.vals) : answer' = a /\ wr' = Wire[a]
            /\ far' = "write"
       ELSE UNCHANGED <<far, asked, answer, wr>>
    /\ UNCHANGED <<clientVars, s2c>>

FarWrite(k) ==
    /\ far = "write" /\ k <= Len(wr) /\ Len(s2c) + k <= Pipe
    /\ s2c' = s2c \o SubSeq(wr, 1, k)
    /\ wr' = SubSeq(wr, k + 1, Len(wr))
    /\ UNCHANGED <<clientVars, c2s, far, rd, asked, answer>>

FarClose ==
    /\ far = "write" /\ wr = << >>
    /\ far' = "closed"
    /\ UNCHANGED <<clientVars, c2s, s2c, rd, asked, answer, wr>>

(* It stops, dies or has no answer to give, before the answer or within it. *)
Begun == wr # Wire[answer]
FarHangsUp ==
    /\ pc # "connect"
    /\ \/ "decline" \in HangUps /\ (far = "read" \/ (far = "write" /\ ~ Begun))
       \/ "cut" \in HangUps /\ far = "write" /\ Begun
    /\ far' = "closed"
    /\ UNCHANGED <<clientVars, c2s, s2c, rd, asked, answer, wr>>

-----------------------------------------------------------------------------
Init ==
    /\ call \in Calls /\ leftover \in Leftovers
    /\ pc = "connect" /\ room = 0
    /\ out = NoBuffer /\ in = NoBuffer
    /\ got = << >> /\ result = Result("none", << >>)
    /\ c2s = << >> /\ s2c = << >>
    /\ far = "read" /\ rd = << >> /\ asked = << >> /\ answer = << >> /\ wr = << >>

ClientStep ==
    \/ Connect \/ SerializeCall \/ SendFails \/ Sent \/ RecvEnds
    \/ \E k \in 1 .. Pipe : Send(k) \/ Recv(k)

FarStep == FarClose \/ \E k \in 1 .. Pipe : FarRead(k) \/ FarWrite(k)

Finished == pc = "return" /\ UNCHANGED vars

Next == ClientStep \/ FarStep \/ FarHangsUp \/ Finished

Spec == Init /\ [][Next]_vars

(* Both threads run; the server need not hang up. *)
FairSpec == Spec /\ WF_vars(ClientStep) /\ WF_vars(FarStep)
=============================================================================

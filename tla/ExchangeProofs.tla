--------------------------- MODULE ExchangeProofs ---------------------------
(***************************************************************************)
(* A call that reaches its end returns what its answer means, for every    *)
(* set of requests that can be sent, every size of a connection and every  *)
(* way in which its bytes are cut up: the inductive invariant IInv says    *)
(* which bytes of the request and of the answer are where.                 *)
(***************************************************************************)
EXTENDS ExchangeCorrect, ByteLemmas

-----------------------------------------------------------------------------
(* Parts of a sequence *)

(* The bytes of s are those of w that follow the first m. *)
PartOf(s, w, m) ==
    /\ s \in Seq(Byte) /\ m + Len(s) <= Len(w)
    /\ \A i \in 1 .. Len(s) : s[i] = w[m + i]

LEMMA PartBegins ==
    ASSUME NEW s, NEW w \in Seq(Byte), NEW m \in Nat, PartOf(s, w, m), NEW k \in 0 .. Len(s)
    PROVE  /\ SubSeq(s, 1, k) \in Seq(Byte) /\ Len(SubSeq(s, 1, k)) = k
           /\ PartOf(SubSeq(s, 1, k), w, m)
<1>1. s \in Seq(Byte) /\ Len(s) \in Nat /\ Len(w) \in Nat BY DEF PartOf
<1>2. /\ SubSeq(s, 1, k) \in Seq(Byte) /\ Len(SubSeq(s, 1, k)) = k
      /\ \A i \in 1 .. k : SubSeq(s, 1, k)[i] = s[i]
  BY <1>1
<1> QED BY <1>1, <1>2 DEF PartOf

LEMMA PartEnds ==
    ASSUME NEW s, NEW w \in Seq(Byte), NEW m \in Nat, PartOf(s, w, m), NEW k \in 0 .. Len(s)
    PROVE  /\ Len(SubSeq(s, k + 1, Len(s))) = Len(s) - k
           /\ PartOf(SubSeq(s, k + 1, Len(s)), w, m + k)
<1> DEFINE t == SubSeq(s, k + 1, Len(s))
<1>1. s \in Seq(Byte) /\ Len(s) \in Nat /\ Len(w) \in Nat /\ m + Len(s) <= Len(w) BY DEF PartOf
<1>2. /\ t \in Seq(Byte) /\ Len(t) = Len(s) - k
      /\ \A i \in 1 .. Len(s) - k : t[i] = s[k + i]
  BY <1>1
<1>3. \A i \in 1 .. Len(s) - k : s[k + i] = w[m + k + i]
  <2> SUFFICES ASSUME NEW i \in 1 .. Len(s) - k PROVE s[k + i] = w[m + k + i] OBVIOUS
  <2>1. k + i \in 1 .. Len(s) /\ m + (k + i) = m + k + i BY <1>1
  <2> QED BY <2>1 DEF PartOf
<1> HIDE DEF t
<1>4. m + k + Len(t) <= Len(w) BY <1>1, <1>2
<1>5. PartOf(t, w, m + k) BY <1>2, <1>3, <1>4 DEF PartOf
<1> QED BY <1>2, <1>5 DEF t

LEMMA PartsJoin ==
    ASSUME NEW s, NEW t, NEW w \in Seq(Byte), NEW m \in Nat,
           PartOf(s, w, m), PartOf(t, w, m + Len(s))
    PROVE  /\ Len(s \o t) = Len(s) + Len(t) /\ PartOf(s \o t, w, m)
<1>1. /\ s \in Seq(Byte) /\ t \in Seq(Byte) /\ Len(s) \in Nat /\ Len(t) \in Nat
      /\ Len(w) \in Nat /\ m + Len(s) + Len(t) <= Len(w)
  BY DEF PartOf
<1>2. /\ s \o t \in Seq(Byte) /\ Len(s \o t) = Len(s) + Len(t)
      /\ \A i \in 1 .. Len(s) : (s \o t)[i] = s[i]
      /\ \A j \in 1 .. Len(t) : (s \o t)[Len(s) + j] = t[j]
  BY <1>1
<1>3. ASSUME NEW i \in 1 .. Len(s) + Len(t) PROVE (s \o t)[i] = w[m + i]
  <2>1. CASE i <= Len(s)
    <3>1. i \in 1 .. Len(s) BY <1>1, <2>1
    <3> QED BY <1>2, <3>1 DEF PartOf
  <2>2. CASE i > Len(s)
    <3>1. PICK j \in 1 .. Len(t) : i = Len(s) + j
      <4>1. i - Len(s) \in 1 .. Len(t) /\ i = Len(s) + (i - Len(s)) BY <1>1, <2>2
      <4> QED BY <4>1
    <3>2. t[j] = w[m + Len(s) + j] BY <3>1 DEF PartOf
    <3>3. m + Len(s) + j = m + i BY <1>1, <3>1
    <3> QED BY <1>2, <3>1, <3>2, <3>3
  <2> QED BY <1>1, <2>1, <2>2
<1> QED BY <1>1, <1>2, <1>3 DEF PartOf

LEMMA PartIsPrefix ==
    ASSUME NEW s, NEW w \in Seq(Byte), PartOf(s, w, 0)
    PROVE  Len(s) \in 0 .. Len(w) /\ s = SubSeq(w, 1, Len(s))
<1>1. s \in Seq(Byte) /\ Len(s) \in Nat /\ Len(w) \in Nat /\ Len(s) <= Len(w) BY DEF PartOf
<1>2. /\ SubSeq(w, 1, Len(s)) \in Seq(Byte) /\ Len(SubSeq(w, 1, Len(s))) = Len(s)
      /\ \A i \in 1 .. Len(s) : SubSeq(w, 1, Len(s))[i] = w[i]
  BY <1>1
<1>3. \A i \in 1 .. Len(s) : s[i] = w[i] BY <1>1 DEF PartOf
<1> QED BY <1>1, <1>2, <1>3

LEMMA NoPart ==
    ASSUME NEW w \in Seq(Byte), NEW m \in 0 .. Len(w)
    PROVE  PartOf(<< >>, w, m)
<1>1. << >> \in Seq(Byte) /\ Len(<< >>) = 0 /\ Len(w) \in Nat OBVIOUS
<1> QED BY <1>1 DEF PartOf

(* What is in use of a buffer, if it is the rest of w *)
LEMMA QueuedIsPart ==
    ASSUME NEW b, Good(b), NEW w \in Seq(Byte), NEW m \in Nat, Queued(b, w, m)
    PROVE  /\ Len(Contents(b)) = b.used /\ m + b.used = Len(w) /\ PartOf(Contents(b), w, m)
           /\ \A k \in 0 .. b.used : PartOf(SubSeq(b.mem, 1, k), w, m) /\ Len(SubSeq(b.mem, 1, k)) = k
<1>1. /\ b.mem \in Seq(Byte \cup {Junk}) /\ b.used \in Nat /\ b.used <= Len(b.mem)
      /\ Len(b.mem) \in Nat /\ Len(w) \in Nat /\ Len(w) = m + b.used
  BY GoodFacts DEF Size, Queued
<1>2. ASSUME NEW k \in 0 .. b.used
      PROVE  PartOf(SubSeq(b.mem, 1, k), w, m) /\ Len(SubSeq(b.mem, 1, k)) = k
  <2>1. /\ SubSeq(b.mem, 1, k) \in Seq(Byte \cup {Junk}) /\ Len(SubSeq(b.mem, 1, k)) = k
        /\ \A i \in 1 .. k : SubSeq(b.mem, 1, k)[i] = b.mem[i]
    BY <1>1
  <2>2. \A i \in 1 .. k : b.mem[i] = w[m + i] /\ w[m + i] \in Byte
    <3> SUFFICES ASSUME NEW i \in 1 .. k PROVE b.mem[i] = w[m + i] /\ w[m + i] \in Byte OBVIOUS
    <3>1. i \in 1 .. b.used /\ m + i \in 1 .. Len(w) BY <1>1
    <3> QED BY <3>1 DEF Queued
  <2> DEFINE s == SubSeq(b.mem, 1, k)
  <2>3. \A i \in 1 .. k : s[i] = w[m + i] /\ s[i] \in Byte BY <2>1, <2>2
  <2>4. s \in Seq(Byte \cup {Junk}) /\ Len(s) = k BY <2>1
  <2> HIDE DEF s
  <2>5. s \in Seq(Byte) BY <2>3, <2>4
  <2>6. PartOf(s, w, m) BY <1>1, <2>3, <2>4, <2>5 DEF PartOf
  <2> QED BY <2>4, <2>6 DEF s
<1> QED BY <1>1, <1>2 DEF Contents

-----------------------------------------------------------------------------
(* Packets *)

LEMMA AnswersSent ==
    ASSUME NEW c \in Calls
    PROVE  c \in Packets /\ \A a \in Answers(c) : a \in Packets
  BY DEF Packets

(* The bytes of a packet *)
LEMMA WireType ==
    ASSUME NEW p \in Packets
    PROVE  Packet(p) /\ Wire[p] = Encoding(p) /\ Wire[p] \in Seq(Octet)
           /\ Wire[p] \in Seq(Byte) /\ Len(Wire[p]) \in Nat \ {0}
<1>1. Packet(p) BY PacketsAssumption
<1>2. Wire[p] = Encoding(p) BY DEF Wire
<1>3. Wire[p] \in Seq(Octet) BY <1>1, <1>2, EncodingPlaces
<1>4. Wire[p] \in Seq(Byte)
  <2>1. Octet \subseteq Byte BY PacketsAssumption DEF Octet
  <2> QED BY <1>3, <2>1, SeqMonotonic
<1>5. Len(Wire[p]) \in Nat \ {0}
  <2>1. Len(Encoding(p)) >= 1 BY <1>1, EncodingBegins
  <2> QED BY <1>2, <1>3, <2>1
<1> QED BY <1>1, <1>2, <1>3, <1>4, <1>5

(* All of a packet arrives, not before its last byte and as it was.        *)
Carried(p, n) ==
    LET d == Decoding[SubSeq(Wire[p], 1, n)] IN
    IF n < Len(Wire[p]) THEN d.used \in Nat \ (0 .. n) ELSE d.used = n /\ d.vals = p

LEMMA PacketsCarried ==
    ASSUME NEW p \in Packets, NEW n \in 0 .. Len(Wire[p])
    PROVE  Carried(p, n)
<1> DEFINE w == Wire[p]
           b == SubSeq(w, 1, n)
           d == DeserializePkt(b)
<1>1. Packet(p) /\ w = Encoding(p) /\ w \in Seq(Octet) /\ Len(w) \in Nat \ {0} BY WireType
<1> HIDE DEF w
<1>2. n \in Nat /\ n <= Len(w) BY <1>1 DEF w
<1>3. b \in Seq(Octet) /\ Len(b) = n /\ \A i \in 1 .. n : b[i] = w[i] BY <1>1, <1>2
<1>4. b \in Beginnings
  <2>1. CASE n = 0
    <3>1. b = << >> BY <1>3, <2>1
    <3> QED BY <3>1 DEF Beginnings
  <2>2. CASE n # 0
    <3>1. n \in DOMAIN w BY <1>1, <1>2, <2>2
    <3> QED BY <3>1 DEF Beginnings, w
  <2> QED BY <2>1, <2>2
<1> HIDE DEF b
<1>5. Alike(b, Encoding(p))
  <2> SUFFICES ASSUME NEW i \in 1 .. Len(b), i <= Len(w) PROVE b[i] = w[i] BY <1>1 DEF Alike
  <2> QED BY <1>3
<1>6. /\ d.used \in Nat
      /\ IF Len(w) <= n THEN d.used = Len(w) /\ d.vals = p ELSE d.used > n
  BY <1>1, <1>3, <1>5, PktDeserialized
<1>7. Decoding[b] = d BY <1>4 DEF Decoding
<1> HIDE DEF d
<1>8. IF n < Len(w) THEN d.used \in Nat \ (0 .. n) ELSE d.used = n /\ d.vals = p
  BY <1>1, <1>2, <1>6
<1> QED BY <1>7, <1>8 DEF Carried, b, w

(* As much of a packet is written as there is room for. *)
Written(c, n) ==
    LET done == Serializing[c][n] IN
    /\ done.out \in Seq(Byte) /\ Len(done.out) <= n
    /\ IF n < Len(Wire[c])
       THEN done.used \in n + 1 .. Len(Wire[c])
       ELSE done.used = n /\ done.out = Wire[c]

LEMMA PacketsWritten ==
    ASSUME NEW c \in Calls, NEW n \in 0 .. Len(Wire[c])
    PROVE  Written(c, n)
<1> DEFINE w == Wire[c]
           done == SerializePkt(c, n)
<1>0. c \in Packets BY DEF Packets
<1>1. Packet(c) /\ w = Encoding(c) /\ Len(w) \in Nat BY <1>0, WireType
<1>2. n \in Nat /\ n <= Len(w) BY <1>1
<1>3. /\ done.used \in Nat /\ done.out \in Seq(Octet) /\ Len(done.out) <= n
      /\ IF Len(w) <= n THEN done.used = Len(w) /\ done.out = w
         ELSE n < done.used /\ done.used <= Len(w)
  BY <1>1, <1>2, PktSerialized
<1>4. done.out \in Seq(Byte)
  <2>1. Octet \subseteq Byte BY PacketsAssumption DEF Octet
  <2> QED BY <1>3, <2>1, SeqMonotonic
<1>5. Serializing[c][n] = done BY DEF Serializing
<1> HIDE DEF w, done
<1>6. IF n < Len(w) THEN done.used \in n + 1 .. Len(w) ELSE done.used = n /\ done.out = w
  BY <1>1, <1>2, <1>3
<1> QED BY <1>3, <1>4, <1>5, <1>6 DEF Written, w

(* A packet is complete with its last byte, and decoded as it was.         *)
LEMMA PrefixDecoded ==
    ASSUME NEW p \in Packets, NEW s, PartOf(s, Wire[p], 0)
    PROVE  /\ Complete(Decoding[s], Len(s)) <=> Len(s) = Len(Wire[p])
           /\ Len(s) = Len(Wire[p]) => Decoding[s].vals = p /\ Decoding[s].used = Len(s)
<1>1. Len(s) \in 0 .. Len(Wire[p]) /\ s = SubSeq(Wire[p], 1, Len(s)) /\ Len(Wire[p]) \in Nat
  BY WireType, PartIsPrefix
<1>2. Carried(p, Len(s)) BY <1>1, PacketsCarried
<1> DEFINE d == Decoding[s]
<1>3. IF Len(s) < Len(Wire[p]) THEN d.used \in Nat \ (0 .. Len(s)) ELSE d.used = Len(s) /\ d.vals = p
  BY <1>1, <1>2 DEF Carried
<1> HIDE DEF d
<1> QED BY <1>1, <1>3 DEF Complete, d

-----------------------------------------------------------------------------
(* What a call returns, given what it received *)

Hows == {"ok", "error", "abort", "crash"}
Types == Plain \cup {GETATTR, READDIR, READ, WRITE}

LEMMA CallTypes ==
    ASSUME call \in Calls
    PROVE  Type \in Types /\ (Type \in {READ, WRITE} => call[7] \in Nat)
  BY CallsAssumption DEF Type, Types

(* Whatever was decoded, a call ends in one of four ways. *)
LEMMA OutcomeHow ==
    ASSUME call \in Calls, NEW p
    PROVE  Outcome(p).how \in Hows
<1>0. Type \in Types BY CallTypes
<1>1. \A v : Failure.how \in Hows /\ Success(v).how \in Hows
             /\ Result("crash", << >>).how \in Hows /\ Result("abort", << >>).how \in Hows
  BY DEF Failure, Success, Result, Hows
<1>2. \A type, v : v.how \in Hows => Validated(p, type, v).how \in Hows
  BY <1>1 DEF Validated
<1>3. ReadResult(p).how \in Hows
  <2>1. CASE IsResponse(p) /\ Field(p, 3) = DATA BY <1>1, <2>1 DEF ReadResult
  <2>2. CASE IsResponse(p) /\ Field(p, 3) = ERROR /\ Field(p, 3) # DATA
    BY <1>1, <2>2 DEF ReadResult
  <2>3. CASE ~ IsResponse(p) BY <1>1, <2>3 DEF ReadResult
  <2>4. CASE IsResponse(p) /\ Field(p, 3) \notin {DATA, ERROR} BY <1>1, <2>4 DEF ReadResult
  <2> QED BY <2>1, <2>2, <2>3, <2>4
<1>4. Entries(p).how \in Hows BY <1>1 DEF Entries
<1>5. WriteResult(p).how \in Hows BY <1>1 DEF WriteResult
<1>6. /\ OpenResult(p).how \in Hows /\ AccessResult(p).how \in Hows
      /\ TruncateResult(p).how \in Hows /\ RenameResult(p).how \in Hows
      /\ StatResult(p).how \in Hows /\ DirResult(p).how \in Hows
  BY <1>1, <1>2, <1>4
     DEF OpenResult, AccessResult, TruncateResult, RenameResult, StatResult, DirResult
<1> QED
  BY <1>0, <1>3, <1>5, <1>6
     DEF Outcome, Types, Plain, OPEN, ACCESS, TRUNCATE, RENAME, GETATTR, READDIR, READ, WRITE

(* With nothing received a call that clears its packet fails, and reads    *)
(* nothing.                                                                *)
LEMMA OutcomeOfNothing ==
    ASSUME call \in Calls, Cleared
    PROVE  Outcome(<< >>).how \notin {"crash", "ok"}
<1>1. Type \in Types /\ Type \notin {GETATTR, WRITE} BY CallTypes DEF Cleared
<1>2. Field(<< >>, 1) = 0
  <2>1. ~ Read(<< >>, 1)
    <3>1. Len(<< >>) = 0 OBVIOUS
    <3> QED BY <3>1 DEF Read
  <2> QED BY <2>1 DEF Field, Before
<1>3. ~ IsResponse(<< >>) BY <1>2 DEF IsResponse, MAGIC
<1>4. \A type : Verdict(<< >>, type) = -1 BY <1>3 DEF Verdict
<1>5. \A type, v : Validated(<< >>, type, v) = Failure BY <1>4 DEF Validated
<1>6. ReadResult(<< >>) = Failure BY <1>3 DEF ReadResult
<1>7. Outcome(<< >>) = Failure
  BY <1>1, <1>5, <1>6
     DEF Outcome, Types, Plain, OPEN, ACCESS, TRUNCATE, RENAME, GETATTR, READDIR, READ, WRITE,
         OpenResult, AccessResult, TruncateResult, RenameResult, DirResult
<1> QED BY <1>7 DEF Failure, Result

(* The outcome of each kind of answer *)
LEMMA FieldsRead ==
    ASSUME NEW p \in Packets, NEW i \in 1 .. Len(p)
    PROVE  Read(p, i) /\ Field(p, i) = p[i]
<1>1. p[i] # NotRead BY PacketsAssumption
<1> QED BY <1>1 DEF Read, Field

LEMMA ErrorOutcome ==
    ASSUME call \in Calls, NEW e \in Errors, NEW p \in Packets, p = <<MAGIC, RESPONSE, ERROR, e>>
    PROVE  Outcome(p) = Failure \/ (Type = WRITE /\ Outcome(p).how = "abort")
<1>0. Type \in Types BY CallTypes
<1>1. e \in Nat \ {0} BY ErrorsAssumption
<1>2. Field(p, 1) = MAGIC /\ Field(p, 2) = RESPONSE /\ Field(p, 3) = ERROR /\ Field(p, 4) = e
  <2>1. \A i \in 1 .. 4 : Field(p, i) = p[i] BY FieldsRead
  <2> QED BY <2>1
<1>3. IsResponse(p) BY <1>2 DEF IsResponse
<1>4. \A type, v : type \in {OK, STAT, DIR} => Validated(p, type, v) = Failure
  <2> SUFFICES ASSUME NEW type \in {OK, STAT, DIR} PROVE Verdict(p, type) < 0 BY DEF Validated
  <2>1. Verdict(p, type) = 0 - e BY <1>2, <1>3 DEF Verdict, OK, STAT, DIR, ERROR
  <2> QED BY <1>1, <2>1
<1>5. ReadResult(p) = Failure BY <1>1, <1>2, <1>3 DEF ReadResult, ERROR, DATA
<1>6. WriteResult(p) = Result("abort", << >>) BY <1>2 DEF WriteResult, ERROR, OK
<1>7. Type # WRITE => Outcome(p) = Failure
  BY <1>0, <1>4, <1>5
     DEF Outcome, Types, Plain, OPEN, ACCESS, TRUNCATE, RENAME, GETATTR, READDIR, READ, WRITE,
         OpenResult, AccessResult, TruncateResult, RenameResult, StatResult, DirResult
<1>8. Type = WRITE => Outcome(p).how = "abort"
  BY <1>6 DEF Outcome, OPEN, ACCESS, TRUNCATE, RENAME, GETATTR, READDIR, READ, WRITE, Result
<1> QED BY <1>7, <1>8

LEMMA PlainOutcome ==
    ASSUME call \in Calls, Type \in Plain \cup {WRITE},
           NEW p \in Packets, p = <<MAGIC, RESPONSE, OK>>
    PROVE  Outcome(p) = Success(IF Type = WRITE THEN call[7] ELSE << >>)
<1>1. Field(p, 1) = MAGIC /\ Field(p, 2) = RESPONSE /\ Field(p, 3) = OK
  <2>1. \A i \in 1 .. 3 : Field(p, i) = p[i] BY FieldsRead
  <2> QED BY <2>1
<1>2. IsResponse(p) BY <1>1 DEF IsResponse
<1>3. \A v : Validated(p, OK, v) = v BY <1>1, <1>2 DEF Validated, Verdict
<1>4. WriteResult(p) = Success(call[7]) BY <1>1, <1>2 DEF WriteResult
<1> QED
  BY <1>3, <1>4
     DEF Outcome, Plain, OPEN, ACCESS, TRUNCATE, RENAME, GETATTR, READDIR, READ, WRITE,
         OpenResult, AccessResult, TruncateResult, RenameResult

LEMMA StatOutcome ==
    ASSUME call \in Calls, Type = GETATTR,
           NEW p \in Packets, p = <<MAGIC, RESPONSE, STAT, 5, 1, 2, 3>>
    PROVE  Outcome(p) = Success(SubSeq(p, 4, Len(p)))
<1>1. \A i \in 1 .. 7 : Field(p, i) = p[i] BY FieldsRead
<1>2. Field(p, 1) = MAGIC /\ Field(p, 2) = RESPONSE /\ Field(p, 3) = STAT BY <1>1
<1>3. IsResponse(p) BY <1>2 DEF IsResponse
<1>4. \A v : Validated(p, STAT, v) = v BY <1>2, <1>3 DEF Validated, Verdict
<1>5. SubSeq(p, 4, Len(p)) = [i \in 1 .. 4 |-> Field(p, i + 3)]
  <2>1. SubSeq(p, 4, Len(p)) = [i \in 1 .. 4 |-> p[i + 3]] OBVIOUS
  <2> QED BY <1>1, <2>1
<1>6. StatResult(p) = Success([i \in 1 .. 4 |-> Field(p, i + 3)]) BY <1>4 DEF StatResult
<1>7. Outcome(p) = StatResult(p)
  BY DEF Outcome, OPEN, ACCESS, TRUNCATE, RENAME, GETATTR, READDIR, READ, WRITE
<1>8. Success([i \in 1 .. 4 |-> Field(p, i + 3)]) = Success(SubSeq(p, 4, Len(p))) BY <1>5
<1> QED BY <1>6, <1>7, <1>8

LEMMA DataFields ==
    ASSUME NEW s, NEW p \in Packets, p = <<MAGIC, RESPONSE, DATA, Len(s), s>>
    PROVE  IsResponse(p) /\ Field(p, 3) = DATA /\ Field(p, 4) = Len(s) /\ Read(p, 5) /\ p[5] = s
<1>1. \A i \in 1 .. 5 : Field(p, i) = p[i] /\ Read(p, i)
  <2>1. Len(p) = 5 OBVIOUS
  <2> QED BY <2>1, FieldsRead
<1>2. p[1] = MAGIC /\ p[2] = RESPONSE /\ p[3] = DATA /\ p[4] = Len(s) /\ p[5] = s OBVIOUS
<1> QED BY <1>1, <1>2 DEF IsResponse

LEMMA DataOutcome ==
    ASSUME call \in Calls, Type = READ, NEW s \in Chunks(call[7]),
           NEW p, IsResponse(p), Field(p, 3) = DATA, Field(p, 4) = Len(s), Read(p, 5), p[5] = s
    PROVE  Outcome(p) = Success(SubSeq(s, 1, Least(call[7], Len(s))))
<1>1. call[7] \in Nat BY CallTypes
<1>2. s \in Seq({0, 7}) /\ Len(s) \in Nat /\ Len(s) <= call[7]
  <2>1. s \in {<< >>, <<7>>, <<0, 7>>} /\ Len(s) <= call[7] BY DEF Chunks
  <2>2. << >> \in Seq({0, 7}) /\ <<7>> \in Seq({0, 7}) /\ <<0, 7>> \in Seq({0, 7}) OBVIOUS
  <2>3. s \in Seq({0, 7}) BY <2>1, <2>2
  <2> QED BY <2>1, <2>3
<1>3. Copied(p) = Len(s) /\ Least(call[7], Len(s)) = Len(s) BY <1>1, <1>2 DEF Copied, Least
<1>4. ReadResult(p) = IF Copied(p) = 0
                      THEN Success(<< >>)
                      ELSE IF Copied(p) <= Len(p[5])
                      THEN Success(SubSeq(p[5], 1, Copied(p)))
                      ELSE Result("crash", << >>)
  BY DEF ReadResult, DATA, ERROR
<1>5. ReadResult(p) = Success(SubSeq(s, 1, Len(s)))
  <2>1. CASE Len(s) = 0
    <3>1. Copied(p) = 0 BY <1>3, <2>1
    <3>2. ReadResult(p) = Success(<< >>) BY <1>4, <3>1
    <3>3. SubSeq(s, 1, Len(s)) = << >> BY <1>2, <2>1
    <3> QED BY <3>2, <3>3
  <2>2. CASE Len(s) # 0
    <3>1. Copied(p) # 0 /\ Copied(p) <= Len(p[5]) BY <1>2, <1>3, <2>2
    <3>2. ReadResult(p) = Success(SubSeq(p[5], 1, Copied(p))) BY <1>4, <3>1
    <3> QED BY <1>3, <3>2
  <2> QED BY <2>1, <2>2
<1>6. Outcome(p) = ReadResult(p)
  BY DEF Outcome, OPEN, ACCESS, TRUNCATE, RENAME, GETATTR, READDIR, READ, WRITE
<1> QED BY <1>3, <1>5, <1>6

(* A listing is passed on entry by entry. *)
LEMMA NoEntries ==
    ASSUME call \in Calls, Type = READDIR, NEW p \in Packets, p = <<MAGIC, RESPONSE, DIR, 0>>
    PROVE  Outcome(p) = Success(SubSeq(p, 5, Len(p)))
<1>1. \A i \in 1 .. 4 : Field(p, i) = p[i] BY FieldsRead
<1>2. Field(p, 1) = MAGIC /\ Field(p, 2) = RESPONSE /\ Field(p, 3) = DIR /\ Field(p, 4) = 0
  BY <1>1
<1>3. DirResult(p) = Entries(p) BY <1>2 DEF DirResult, Validated, Verdict, IsResponse
<1>4. Entries(p) = Success([i \in 1 .. 0 |-> Field(p, i + 4)])
  <2>1. 5 .. 4 + 2 * Field(p, 4) = {} /\ 2 * Field(p, 4) = 0 BY <1>2
  <2> QED BY <2>1 DEF Entries
<1>5. SubSeq(p, 5, Len(p)) = [i \in 1 .. 0 |-> Field(p, i + 4)] OBVIOUS
<1>6. Outcome(p) = DirResult(p)
  BY DEF Outcome, OPEN, ACCESS, TRUNCATE, RENAME, GETATTR, READDIR, READ, WRITE
<1> QED BY <1>3, <1>4, <1>5, <1>6

LEMMA OneEntry ==
    ASSUME call \in Calls, Type = READDIR,
           NEW e, NEW p \in Packets, p = <<MAGIC, RESPONSE, DIR, 1, e, 5>>
    PROVE  Outcome(p) = Success(SubSeq(p, 5, Len(p)))
<1>0. Len(p) = 6 OBVIOUS
<1>1. \A i \in 1 .. 6 : Field(p, i) = p[i] /\ Read(p, i) BY <1>0, FieldsRead
<1>2. Field(p, 1) = MAGIC /\ Field(p, 2) = RESPONSE /\ Field(p, 3) = DIR /\ Field(p, 4) = 1
  BY <1>1
<1>3. DirResult(p) = Entries(p) BY <1>2 DEF DirResult, Validated, Verdict, IsResponse
<1>4. Entries(p) = Success([i \in 1 .. 2 |-> Field(p, i + 4)])
  <2>1. 5 .. 4 + 2 * Field(p, 4) = {5, 6} /\ 2 * Field(p, 4) = 2 BY <1>2
  <2>2. Read(p, 5) /\ Read(p, 6) BY <1>1
  <2> QED BY <2>1, <2>2 DEF Entries
<1>5. SubSeq(p, 5, Len(p)) = [i \in 1 .. 2 |-> Field(p, i + 4)]
  <2>1. SubSeq(p, 5, Len(p)) = [i \in 1 .. 2 |-> p[i + 4]] OBVIOUS
  <2> QED BY <1>1, <2>1
<1>6. Outcome(p) = DirResult(p)
  BY DEF Outcome, OPEN, ACCESS, TRUNCATE, RENAME, GETATTR, READDIR, READ, WRITE
<1> QED BY <1>3, <1>4, <1>5, <1>6

LEMMA HeadedOne ==
    ASSUME NEW x, NEW y, NEW z, NEW u
    PROVE  <<x, y, z>> \o <<u>> = <<x, y, z, u>>
<1> DEFINE S == {x, y, z, u}
           s == <<x, y, z>>
           t == <<u>>
           r == <<x, y, z, u>>
           q == s \o t
<1>1. /\ s \in Seq(S) /\ Len(s) = 3 /\ t \in Seq(S) /\ Len(t) = 1
      /\ r \in Seq(S) /\ Len(r) = 4
  OBVIOUS
<1>2. /\ s[1] = r[1] /\ s[2] = r[2] /\ s[3] = r[3]
      /\ t[1] = r[4]
  OBVIOUS
<1> HIDE DEF S, s, t, r
<1>3. /\ q \in Seq(S) /\ Len(q) = Len(s) + Len(t)
      /\ \A i \in 1 .. Len(s) + Len(t) :
           q[i] = IF i <= Len(s) THEN s[i] ELSE t[i - Len(s)]
  BY <1>1, ConcatProperties
<1> HIDE DEF q
<1>4. q[1] = r[1] /\ q[2] = r[2] /\ q[3] = r[3] /\ q[4] = r[4]
  BY <1>1, <1>2, <1>3
<1>5. \A i \in 1 .. 4 : q[i] = r[i] BY <1>4
<1>6. q = r BY <1>1, <1>3, <1>5, SeqEqual
<1> QED BY <1>6 DEF q, s, t, r

LEMMA HeadedThree ==
    ASSUME NEW x, NEW y, NEW z, NEW u, NEW v, NEW w
    PROVE  <<x, y, z>> \o <<u, v, w>> = <<x, y, z, u, v, w>>
<1> DEFINE S == {x, y, z, u, v, w}
           s == <<x, y, z>>
           t == <<u, v, w>>
           r == <<x, y, z, u, v, w>>
           q == s \o t
<1>1. /\ s \in Seq(S) /\ Len(s) = 3 /\ t \in Seq(S) /\ Len(t) = 3
      /\ r \in Seq(S) /\ Len(r) = 6
  OBVIOUS
<1>2. /\ s[1] = r[1] /\ s[2] = r[2] /\ s[3] = r[3]
      /\ t[1] = r[4] /\ t[2] = r[5] /\ t[3] = r[6]
  OBVIOUS
<1> HIDE DEF S, s, t, r
<1>3. /\ q \in Seq(S) /\ Len(q) = Len(s) + Len(t)
      /\ \A i \in 1 .. Len(s) + Len(t) :
           q[i] = IF i <= Len(s) THEN s[i] ELSE t[i - Len(s)]
  BY <1>1, ConcatProperties
<1> HIDE DEF q
<1>4. q[1] = r[1] /\ q[2] = r[2] /\ q[3] = r[3] /\ q[4] = r[4] /\ q[5] = r[5] /\ q[6] = r[6]
  BY <1>1, <1>2, <1>3
<1>5. ASSUME NEW i \in 1 .. 6 PROVE q[i] = r[i]
  <2>1. i = 1 \/ i = 2 \/ i = 3 \/ i = 4 \/ i = 5 \/ i = 6 OBVIOUS
  <2> QED BY <1>4, <2>1, Zenon
<1>6. q \in Seq(S) /\ Len(q) = 6 BY <1>1, <1>3
<1>7. \A i \in 1 .. Len(q) : q[i] = r[i] BY <1>5, <1>6, Zenon
<1>8. q = r
  <2>1. Len(q) = Len(r) BY <1>1, <1>6
  <2> QED BY <1>1, <1>6, <1>7, <2>1, SeqEqual, Zenon
<1> QED BY <1>8 DEF q, s, t, r

(* The answers there are *)
LEMMA AnswerKinds ==
    ASSUME call \in Calls, NEW a \in Answers(call)
    PROVE  \/ \E e \in Errors : a = <<MAGIC, RESPONSE, ERROR, e>>
           \/ Type \in Plain \cup {WRITE} /\ a = <<MAGIC, RESPONSE, OK>>
           \/ Type = GETATTR /\ a = <<MAGIC, RESPONSE, STAT, 5, 1, 2, 3>>
           \/ Type = READ /\ \E s \in Chunks(call[7]) : a = <<MAGIC, RESPONSE, DATA, Len(s), s>>
           \/ Type = READDIR /\ (\/ a = <<MAGIC, RESPONSE, DIR, 0>>
                                 \/ \E e : a = <<MAGIC, RESPONSE, DIR, 1, e, 5>>)
<1> DEFINE failed == {<<MAGIC, RESPONSE, ERROR, e>> : e \in Errors}
           rest == CASE Type \in Plain \cup {WRITE} -> {<<MAGIC, RESPONSE, OK>>}
                     [] Type = GETATTR -> {<<MAGIC, RESPONSE, STAT, 5, 1, 2, 3>>}
                     [] Type = READ -> {<<MAGIC, RESPONSE, DATA, Len(s), s>> : s \in Chunks(call[7])}
                     [] Type = READDIR -> {<<MAGIC, RESPONSE, DIR>> \o e : e \in Dirs}
<1>0. Type \in Types BY CallTypes
<1>1. a \in failed \/ a \in rest BY DEF Answers, Type
<1>2. a \in failed => \E e \in Errors : a = <<MAGIC, RESPONSE, ERROR, e>> OBVIOUS
<1>3. CASE a \in rest
  <2>1. CASE Type \in Plain \cup {WRITE}
    <3>1. rest = {<<MAGIC, RESPONSE, OK>>}
      BY <2>1 DEF Plain, OPEN, ACCESS, TRUNCATE, RENAME, GETATTR, READDIR, READ, WRITE
    <3> HIDE DEF rest
    <3> QED BY <1>3, <2>1, <3>1
  <2>2. CASE Type = GETATTR
    <3>1. rest = {<<MAGIC, RESPONSE, STAT, 5, 1, 2, 3>>}
      BY <2>2 DEF Plain, OPEN, ACCESS, TRUNCATE, RENAME, GETATTR, READDIR, READ, WRITE
    <3> HIDE DEF rest
    <3> QED BY <1>3, <2>2, <3>1
  <2>3. CASE Type = READ
    <3>1. rest = {<<MAGIC, RESPONSE, DATA, Len(s), s>> : s \in Chunks(call[7])}
      BY <2>3 DEF Plain, OPEN, ACCESS, TRUNCATE, RENAME, GETATTR, READDIR, READ, WRITE
    <3> HIDE DEF rest
    <3> QED BY <1>3, <2>3, <3>1
  <2>4. CASE Type = READDIR
    <3>1. rest = {<<MAGIC, RESPONSE, DIR>> \o e : e \in Dirs}
      BY <2>4 DEF Plain, OPEN, ACCESS, TRUNCATE, RENAME, GETATTR, READDIR, READ, WRITE
    <3>2. PICK e \in Dirs : a = <<MAGIC, RESPONSE, DIR>> \o e
      <4> HIDE DEF rest
      <4> QED BY <1>3, <3>1
    <3>3. e = <<0>> \/ \E f : e = <<1, f, 5>> BY DEF Dirs
    <3>4. <<MAGIC, RESPONSE, DIR>> \o <<0>> = <<MAGIC, RESPONSE, DIR, 0>> BY HeadedOne
    <3>5. \A f : <<MAGIC, RESPONSE, DIR>> \o <<1, f, 5>> = <<MAGIC, RESPONSE, DIR, 1, f, 5>>
      BY HeadedThree
    <3> QED BY <2>4, <3>2, <3>3, <3>4, <3>5
  <2> HIDE DEF rest
  <2> QED BY <1>0, <2>1, <2>2, <2>3, <2>4 DEF Types
<1> HIDE DEF failed, rest
<1> QED BY <1>1, <1>2, <1>3

LEMMA AnswerNotEmpty ==
    ASSUME call \in Calls, NEW a \in Answers(call)
    PROVE  a # << >>
<1>1. \A e : <<MAGIC, RESPONSE, ERROR, e>> # << >> OBVIOUS
<1>2. \A n, s : <<MAGIC, RESPONSE, DATA, n, s>> # << >> OBVIOUS
<1>3. /\ <<MAGIC, RESPONSE, OK>> # << >> /\ <<MAGIC, RESPONSE, STAT, 5, 1, 2, 3>> # << >>
      /\ <<MAGIC, RESPONSE, DIR, 0>> # << >>
      /\ \A e : <<MAGIC, RESPONSE, DIR, 1, e, 5>> # << >>
  OBVIOUS
<1> QED BY <1>1, <1>2, <1>3, AnswerKinds

(* A call that decodes the whole answer returns what it means, but for a   *)
(* write that failed.                                                      *)
Honest(r) ==
    \/ r = Meant /\ r.how # "crash"
    \/ r.how = "abort" /\ Type = WRITE /\ answer[3] = ERROR

LEMMA WholeOutcome ==
    ASSUME call \in Calls, answer \in Answers(call)
    PROVE  Honest(Outcome(answer))
<1>0. answer \in Packets BY AnswersSent
<1>1. /\ Failure.how = "error" /\ \A v : Success(v).how = "ok"
  BY DEF Failure, Success, Result
<1>2. ASSUME NEW e \in Errors, answer = <<MAGIC, RESPONSE, ERROR, e>>
      PROVE  Honest(Outcome(answer))
  <2>1. answer[3] = ERROR BY <1>2
  <2>2. Meant = Failure BY <2>1 DEF Meant, OK, DATA, STAT, DIR, ERROR
  <2>3. Outcome(answer) = Failure \/ (Type = WRITE /\ Outcome(answer).how = "abort")
    BY <1>0, <1>2, ErrorOutcome
  <2> QED BY <1>1, <2>1, <2>2, <2>3 DEF Honest
<1>3. ASSUME Type \in Plain \cup {WRITE}, answer = <<MAGIC, RESPONSE, OK>>
      PROVE  Honest(Outcome(answer))
  <2>1. answer[3] = OK BY <1>3
  <2>2. Meant = Success(IF Type = WRITE THEN call[7] ELSE << >>)
    BY <2>1 DEF Meant, OK, DATA, STAT, DIR, ERROR
  <2>3. Outcome(answer) = Meant BY <1>0, <1>3, <2>2, PlainOutcome
  <2> QED BY <1>1, <2>2, <2>3 DEF Honest
<1>4. ASSUME Type = GETATTR, answer = <<MAGIC, RESPONSE, STAT, 5, 1, 2, 3>>
      PROVE  Honest(Outcome(answer))
  <2>1. answer[3] = STAT BY <1>4
  <2>2. Meant = Success(SubSeq(answer, 4, Len(answer)))
    BY <2>1 DEF Meant, OK, DATA, STAT, DIR, ERROR
  <2>3. Outcome(answer) = Meant BY <1>0, <1>4, <2>2, StatOutcome
  <2> QED BY <1>1, <2>2, <2>3 DEF Honest
<1>5. ASSUME Type = READ, NEW s \in Chunks(call[7]), answer = <<MAGIC, RESPONSE, DATA, Len(s), s>>
      PROVE  Honest(Outcome(answer))
  <2>1. answer[3] = DATA /\ answer[4] = Len(s) /\ answer[5] = s BY <1>5
  <2>2. Meant = Success(SubSeq(answer[5], 1, Least(call[7], answer[4])))
    BY <2>1 DEF Meant, OK, DATA, STAT, DIR, ERROR
  <2>3. /\ IsResponse(answer) /\ Field(answer, 3) = DATA /\ Field(answer, 4) = Len(s)
        /\ Read(answer, 5)
    BY <1>0, <1>5, DataFields
  <2>4. Outcome(answer) = Success(SubSeq(s, 1, Least(call[7], Len(s))))
    BY <1>5, <2>1, <2>3, DataOutcome
  <2>5. Outcome(answer) = Meant BY <2>1, <2>2, <2>4
  <2> QED BY <1>1, <2>2, <2>5 DEF Honest
<1>6. ASSUME Type = READDIR, \/ answer = <<MAGIC, RESPONSE, DIR, 0>>
                             \/ \E e : answer = <<MAGIC, RESPONSE, DIR, 1, e, 5>>
      PROVE  Honest(Outcome(answer))
  <2>1. answer[3] = DIR BY <1>6
  <2>2. Meant = Success(SubSeq(answer, 5, Len(answer)))
    BY <2>1 DEF Meant, OK, DATA, STAT, DIR, ERROR
  <2>3. Outcome(answer) = Meant BY <1>0, <1>6, <2>2, NoEntries, OneEntry
  <2> QED BY <1>1, <2>2, <2>3 DEF Honest
<1> QED BY <1>2, <1>3, <1>4, <1>5, <1>6, AnswerKinds


-----------------------------------------------------------------------------
(* The inductive invariant: of the request, what the server's end has read, *)
(* what is on the connection and what is still in the client's buffer; of  *)
(* the answer the same the other way; and what a call that has returned    *)
(* goes by.                                                                *)

SentBytes == Len(rd) + Len(c2s)

Outgoing ==
    /\ PartOf(rd, Wire[call], 0) /\ PartOf(c2s, Wire[call], Len(rd))
    /\ pc \in {"connect", "serialize"} =>
         SentBytes = 0 /\ IsEmpty(out) /\ room = Size(out) /\ room <= Len(Wire[call])
    /\ pc \in {"send", "recv"} => Queued(out, Wire[call], SentBytes)
    /\ pc = "recv" => IsEmpty(out)
    /\ far = "read" => Len(rd) < Len(Wire[call])

(* Bytes of the answer that the client has read *)
ReadBytes == Len(Wire[answer]) - Len(s2c) - Len(wr)

NotAnswered ==
    /\ far # "write" /\ wr = << >> /\ s2c = << >>
    /\ pc # "return" => IsEmpty(in) /\ got = << >>

Answered ==
    /\ far # "read" /\ asked = call /\ answer \in Answers(call)
    /\ Len(rd) = Len(Wire[call]) /\ pc \in {"send", "recv", "return"}
    /\ ReadBytes \in Nat
    /\ PartOf(s2c, Wire[answer], ReadBytes)
    /\ PartOf(wr, Wire[answer], ReadBytes + Len(s2c))
    /\ pc # "return" =>
         /\ ReadBytes < Len(Wire[answer])
         /\ Queued(in, SubSeq(Wire[answer], 1, ReadBytes), 0)
         /\ ReadBytes = 0 => got = << >>

Incoming == IF answer = << >> THEN NotAnswered ELSE Answered

(* What a call may return that has received nothing *)
Blank(r) == Cleared => r.how \notin {"crash", "ok"}

Returned ==
    pc = "return" =>
        IF answer = << >>
        THEN (far = "closed" \/ c2s = << >>) /\ Blank(result)
        ELSE \/ wr = << >> /\ Honest(result)
             \/ far = "closed" /\ wr # << >> /\ (~ Begun => Blank(result))

IInv == TypeOK /\ Outgoing /\ Incoming /\ Returned

LEMMA Facts ==
    ASSUME IInv
    PROVE  /\ call \in Calls /\ call \in Packets /\ Wire[call] \in Seq(Byte)
           /\ Len(Wire[call]) \in Nat \ {0}
           /\ rd \in Seq(Byte) /\ c2s \in Seq(Byte) /\ s2c \in Seq(Byte) /\ wr \in Seq(Byte)
           /\ Len(rd) \in Nat /\ Len(c2s) \in Nat /\ Len(s2c) \in Nat /\ Len(wr) \in Nat
           /\ Good(out) /\ Good(in) /\ out.used \in Nat /\ in.used \in Nat
<1>1. call \in Calls /\ Good(out) /\ Good(in) BY DEF IInv, TypeOK, InMemory, Good
<1>2. rd \in Seq(Byte) /\ c2s \in Seq(Byte) /\ s2c \in Seq(Byte) /\ wr \in Seq(Byte)
  BY DEF IInv, TypeOK
<1>3. call \in Packets /\ Wire[call] \in Seq(Byte) /\ Len(Wire[call]) \in Nat \ {0}
  BY <1>1, AnswersSent, WireType
<1> QED BY <1>1, <1>2, <1>3, GoodFacts

LEMMA AnsweredFacts ==
    ASSUME IInv, answer # << >>
    PROVE  /\ Answered /\ answer \in Packets /\ Wire[answer] \in Seq(Byte)
           /\ Len(Wire[answer]) \in Nat \ {0}
<1>1. Answered BY DEF IInv, Incoming
<1>2. answer \in Packets BY <1>1, Facts, AnswersSent DEF Answered
<1> QED BY <1>1, <1>2, WireType

LEMMA BlankKept ==
    ASSUME call' = call, Blank(result')
    PROVE  Blank(result)'
  BY DEF Blank, Cleared, Type

LEMMA HonestKept ==
    ASSUME call' = call, answer' = answer, Honest(result')
    PROVE  Honest(result)'
  BY DEF Honest, Meant, Type

LEMMA BlankFailure == Blank(Failure)
  BY DEF Blank, Failure, Result

LEMMA InitIInv == Init => IInv
<1> SUFFICES ASSUME Init PROVE IInv OBVIOUS
<1> USE DEF Init
<1>1. Good(out) /\ Good(in) /\ Size(out) = 0 /\ out.used = 0 /\ in.used = 0
  BY NoBufferGood DEF NoBuffer, Size
<1>2. call \in Packets /\ Wire[call] \in Seq(Byte) /\ Len(Wire[call]) \in Nat \ {0}
  BY AnswersSent, WireType
<1>3. << >> \in Seq(Byte) /\ Len(<< >>) = 0 OBVIOUS
<1>4. TypeOK BY <1>1, <1>3 DEF TypeOK, InMemory, Good, Result
<1>5. PartOf(<< >>, Wire[call], 0) BY <1>2, NoPart
<1>6. Outgoing BY <1>1, <1>2, <1>3, <1>5 DEF Outgoing, SentBytes, IsEmpty
<1>7. Incoming BY <1>1 DEF Incoming, NotAnswered, IsEmpty
<1> QED BY <1>4, <1>6, <1>7 DEF IInv, Returned

-----------------------------------------------------------------------------
(* The client's steps *)

LEMMA ConnectKeeps ==
    ASSUME IInv, Connect
    PROVE  IInv'
<1> USE DEF Connect
<1>1. TypeOK'
  BY DEF IInv, TypeOK, InMemory, Return, Failure, Result, farVars
<1>2. /\ pc = "connect" /\ pc' \in {"serialize", "return"}
      /\ UNCHANGED <<call, room, out, in, got, c2s, s2c, far, rd, asked, answer, wr>>
  BY DEF Return, farVars
<1>3. Outgoing'
  BY <1>2 DEF IInv, Outgoing, SentBytes
<1>4. answer = << >> BY <1>2, AnsweredFacts DEF Answered
<1>5. Incoming' BY <1>2, <1>4 DEF IInv, Incoming, NotAnswered
<1>6. Returned'
  <2> SUFFICES ASSUME pc' = "return" PROVE c2s' = << >> /\ Blank(result)'
    BY <1>2, <1>4 DEF Returned
  <2>1. Len(c2s) = 0 BY <1>2, Facts DEF IInv, Outgoing, SentBytes
  <2>2. result' = Failure BY DEF Return
  <2> QED BY <1>2, <2>1, <2>2, Facts, BlankFailure, BlankKept
<1> QED BY <1>1, <1>3, <1>5, <1>6 DEF IInv

LEMMA SerializeKeeps ==
    ASSUME IInv, SerializeCall
    PROVE  IInv'
<1> DEFINE w == Wire[call]
           done == Serializing[call][room]
           stored == Store(out, done.out)
<1>0. /\ pc = "serialize" /\ pc' \in {"serialize", "send"}
      /\ UNCHANGED <<call, in, got, leftover, result, c2s, s2c, far, rd, asked, answer, wr>>
  BY DEF SerializeCall, farVars
<1>1. /\ SentBytes = 0 /\ out.used = 0 /\ room = Size(out) /\ room \in 0 .. Len(w)
      /\ Rem(out) = room
  BY <1>0, Facts, GoodFacts DEF IInv, Outgoing, TypeOK, IsEmpty
<1>2. Written(call, room) BY <1>1, Facts, PacketsWritten
<1>3. /\ done.out \in Seq(Byte) /\ Len(done.out) <= room
      /\ IF room < Len(w) THEN done.used \in room + 1 .. Len(w)
                          ELSE done.used = room /\ done.out = w
  BY <1>2 DEF Written
<1>4. /\ Good(stored) /\ stored.used = 0
  BY <1>1, <1>3, Facts, StoreKeeps
<1>5. answer = << >> BY <1>0, AnsweredFacts DEF Answered
<1>6. CASE room < Len(w)
  <2>1. done.used \in Nat /\ done.used > room /\ done.used <= Len(w) BY <1>1, <1>3, <1>6, Facts
  <2>2. /\ out' = Resize(stored, done.used) /\ room' = done.used /\ pc' = pc
    BY <1>1, <2>1 DEF SerializeCall
  <2>3. Good(out') /\ Size(out') = done.used /\ out'.used = 0
    BY <1>4, <2>1, <2>2, ResizeKeeps
  <2>4. TypeOK' BY <1>0, <2>1, <2>2, <2>3 DEF IInv, TypeOK, InMemory, Good
  <2>5. Outgoing' BY <1>0, <1>1, <2>1, <2>2, <2>3 DEF IInv, Outgoing, SentBytes, IsEmpty
  <2>6. Incoming' BY <1>0, <1>5 DEF IInv, Incoming, NotAnswered
  <2>7. Returned' BY <1>0, <2>2 DEF Returned
  <2> QED BY <2>4, <2>5, <2>6, <2>7 DEF IInv
<1>7. CASE ~ room < Len(w)
  <2>1. room = Len(w) /\ done.used = Len(w) /\ done.out = w BY <1>1, <1>3, <1>7, Facts
  <2>2. out' = Advance(stored, Len(w)) /\ pc' = "send" /\ room' = room
    BY <1>1, <2>1 DEF SerializeCall
  <2>3. out' = Added(out, w) BY <2>1, <2>2 DEF Added
  <2>4. Good(out') /\ Queued(out', w, 0)
    <3>1. Queued(out, << >>, 0) BY <1>1 DEF Queued
    <3>2. << >> \in Seq(Byte) /\ << >> \o w = w BY Facts
    <3>3. Good(out) /\ w \in Seq(Byte) /\ Len(w) <= Rem(out) BY <1>1, <2>1, Facts
    <3>4. Good(Added(out, w)) /\ Queued(Added(out, w), << >> \o w, 0)
      <4> HIDE DEF w
      <4> QED BY <3>1, <3>2, <3>3, AddedQueue
    <3> QED BY <2>3, <3>2, <3>4
  <2>5. TypeOK' BY <1>0, <2>2, <2>4 DEF IInv, TypeOK, InMemory, Good
  <2>6. Outgoing' BY <1>0, <1>1, <2>2, <2>4 DEF IInv, Outgoing, SentBytes
  <2>7. Incoming' BY <1>0, <1>5, <2>2 DEF IInv, Incoming, NotAnswered
  <2>8. Returned' BY <2>2 DEF Returned
  <2> QED BY <2>5, <2>6, <2>7, <2>8 DEF IInv
<1> QED BY <1>6, <1>7


LEMMA SendKeeps ==
    ASSUME IInv, NEW k \in 1 .. Pipe, Send(k)
    PROVE  IInv'
<1> DEFINE w == Wire[call]
           s == SubSeq(out.mem, 1, k)
<1>0. /\ pc = "send" /\ k <= out.used /\ k \in Nat \ {0}
      /\ c2s' = c2s \o s /\ out' = Shift(out, k)
      /\ UNCHANGED <<call, pc, room, in, got, leftover, result, s2c, far, rd, asked, answer, wr>>
  BY PipeAssumption DEF Send, farVars
<1>1. Queued(out, w, SentBytes) /\ PartOf(rd, w, 0) /\ PartOf(c2s, w, Len(rd))
  BY <1>0 DEF IInv, Outgoing
<1>2. SentBytes \in Nat /\ SentBytes = Len(rd) + Len(c2s) BY Facts DEF SentBytes
<1>3. PartOf(s, w, SentBytes) /\ Len(s) = k BY <1>0, <1>1, <1>2, Facts, QueuedIsPart
<1>4. Len(c2s') = Len(c2s) + k /\ PartOf(c2s', w, Len(rd))
  <2> HIDE DEF w, s
  <2>1. w \in Seq(Byte) BY Facts DEF w
  <2> QED BY <1>0, <1>1, <1>2, <1>3, <2>1, Facts, PartsJoin
<1>5. Good(out') /\ Queued(out', w, SentBytes + k) BY <1>0, <1>1, <1>2, Facts, TakenQueue
<1>6. SentBytes' = SentBytes + k BY <1>0, <1>2, <1>4, Facts DEF SentBytes
<1>7. TypeOK' BY <1>0, <1>4, <1>5 DEF IInv, TypeOK, InMemory, Good, PartOf
<1>8. Outgoing' BY <1>0, <1>1, <1>4, <1>5, <1>6 DEF IInv, Outgoing
<1>9. Incoming' BY <1>0 DEF IInv, Incoming, NotAnswered, Answered, ReadBytes
<1>10. Returned' BY <1>0 DEF Returned
<1> QED BY <1>7, <1>8, <1>9, <1>10 DEF IInv

LEMMA SendFailsKeeps ==
    ASSUME IInv, SendFails
    PROVE  IInv'
<1>0. /\ pc = "send" /\ out.used # 0 /\ far = "closed" /\ pc' = "return" /\ result' = Failure
      /\ UNCHANGED <<call, room, out, in, got, leftover, c2s, s2c, far, rd, asked, answer, wr>>
  BY DEF SendFails, Return, farVars, IsEmpty
<1>1. answer = << >>
  <2> SUFFICES ASSUME answer # << >> PROVE FALSE OBVIOUS
  <2>1. Len(rd) = Len(Wire[call]) BY AnsweredFacts DEF Answered
  <2>2. Len(Wire[call]) = Len(rd) + Len(c2s) + out.used
    BY <1>0 DEF IInv, Outgoing, Queued, SentBytes
  <2> QED BY <1>0, <2>1, <2>2, Facts
<1>2. TypeOK' BY <1>0 DEF IInv, TypeOK, InMemory, Failure, Result
<1>3. Outgoing' BY <1>0 DEF IInv, Outgoing, SentBytes
<1>4. Incoming' BY <1>0, <1>1 DEF IInv, Incoming, NotAnswered
<1>5. Returned' BY <1>0, <1>1, BlankFailure, BlankKept DEF Returned
<1> QED BY <1>2, <1>3, <1>4, <1>5 DEF IInv

LEMMA SentKeeps ==
    ASSUME IInv, Sent
    PROVE  IInv'
<1>0. /\ pc = "send" /\ IsEmpty(out) /\ pc' = "recv"
      /\ UNCHANGED <<call, room, out, in, got, leftover, result, c2s, s2c, far, rd, asked, answer, wr>>
  BY DEF Sent, farVars
<1>1. TypeOK' BY <1>0 DEF IInv, TypeOK, InMemory
<1>2. Outgoing' BY <1>0 DEF IInv, Outgoing, SentBytes
<1>3. Incoming' BY <1>0 DEF IInv, Incoming, NotAnswered, Answered, ReadBytes
<1>4. Returned' BY <1>0 DEF Returned
<1> QED BY <1>1, <1>2, <1>3, <1>4 DEF IInv

(* The bytes received are added to those the client has of the answer. *)
LEMMA Received ==
    ASSUME IInv, answer # << >>, pc = "recv", NEW k \in 1 .. Len(s2c), k <= Rem(Increase(in))
    PROVE  LET b == Advance(Store(Increase(in), SubSeq(s2c, 1, k)), k) IN
           /\ Good(b) /\ b.used = ReadBytes + k /\ ReadBytes + k <= Len(Wire[answer])
           /\ Contents(b) = SubSeq(Wire[answer], 1, ReadBytes + k)
           /\ PartOf(Contents(b), Wire[answer], 0)
           /\ Queued(b, SubSeq(Wire[answer], 1, ReadBytes + k), 0)
<1> DEFINE v == Wire[answer]
           r == ReadBytes
           s == SubSeq(s2c, 1, k)
           t == SubSeq(v, 1, r)
           b == Advance(Store(Increase(in), s), k)
<1>1. /\ r \in Nat /\ r < Len(v) /\ Queued(in, t, 0) /\ PartOf(s2c, v, r)
      /\ v \in Seq(Byte) /\ Len(v) \in Nat
  BY AnsweredFacts DEF Answered
<1> HIDE DEF v, r
<1>2. t \in Seq(Byte) /\ Len(t) = r /\ PartOf(t, v, 0)
  <2>1. t \in Seq(Byte) /\ Len(t) = r /\ \A i \in 1 .. r : t[i] = v[i] BY <1>1
  <2> HIDE DEF t
  <2> QED BY <1>1, <2>1 DEF PartOf
<1>3. s \in Seq(Byte) /\ Len(s) = k /\ PartOf(s, v, r)
  <2>1. k \in 0 .. Len(s2c) BY Facts
  <2> QED BY <1>1, <2>1, PartBegins
<1>4. Len(t \o s) = r + k /\ PartOf(t \o s, v, 0)
  <2> HIDE DEF s, t
  <2>1. 0 + Len(t) = r /\ PartOf(s, v, 0 + Len(t)) BY <1>1, <1>2, <1>3
  <2>2. Len(t \o s) = Len(t) + Len(s) /\ PartOf(t \o s, v, 0)
    BY <1>1, <1>2, <2>1, PartsJoin
  <2> QED BY <1>2, <1>3, <2>2
<1>5. t \o s = SubSeq(v, 1, r + k) /\ r + k <= Len(v)
  <2> DEFINE q == t \o s
  <2>1. Len(q) = r + k /\ PartOf(q, v, 0) BY <1>4
  <2> HIDE DEF q
  <2>2. Len(q) \in 0 .. Len(v) /\ q = SubSeq(v, 1, Len(q)) BY <1>1, <2>1, PartIsPrefix
  <2>3. q = SubSeq(v, 1, r + k) /\ r + k <= Len(v) BY <1>1, <2>1, <2>2
  <2> QED BY <2>3 DEF q
<1>6. /\ Good(Increase(in)) /\ Queued(Increase(in), t, 0)
  <2> HIDE DEF t
  <2> QED BY <1>1, Facts, IncreaseRoom, SameQueue
<1>7. b = Added(Increase(in), s) BY <1>3 DEF Added
<1>8. Good(b) /\ Queued(b, t \o s, 0)
  <2> HIDE DEF s, t, b
  <2> QED BY <1>2, <1>3, <1>6, <1>7, AddedQueue
<1>9. b.used = r + k /\ Contents(b) = t \o s
  <2> HIDE DEF s, t, b
  <2>1. t \o s \in Seq(Byte) BY <1>2, <1>3
  <2>2. Len(Contents(b)) = b.used /\ 0 + b.used = Len(t \o s) /\ PartOf(Contents(b), t \o s, 0)
    BY <1>8, <2>1, QueuedIsPart
  <2>3. b.used = r + k BY <1>4, <1>8, <2>2, GoodFacts
  <2>4. Contents(b) = SubSeq(t \o s, 1, Len(Contents(b))) BY <2>1, <2>2, PartIsPrefix
  <2>5. Len(Contents(b)) = Len(t \o s) BY <1>4, <2>2, <2>3
  <2>6. SubSeq(t \o s, 1, Len(t \o s)) = t \o s BY <2>1
  <2> QED BY <2>3, <2>4, <2>5, <2>6
<1> HIDE DEF b, s, t
<1>10. /\ Good(b) /\ b.used = r + k /\ r + k <= Len(v) /\ Contents(b) = SubSeq(v, 1, r + k)
       /\ PartOf(Contents(b), v, 0) /\ Queued(b, SubSeq(v, 1, r + k), 0)
  BY <1>4, <1>5, <1>8, <1>9
<1> QED BY <1>10 DEF b, s, v, r


LEMMA RecvKeeps ==
    ASSUME IInv, NEW k \in 1 .. Pipe, Recv(k)
    PROVE  IInv'
<1> DEFINE v == Wire[answer]
           b == Advance(Store(Increase(in), SubSeq(s2c, 1, k)), k)
           d == Decoding[Contents(b)]
<1>0. /\ pc = "recv" /\ k \in 1 .. Len(s2c) /\ k <= Rem(Increase(in))
      /\ s2c' = SubSeq(s2c, k + 1, Len(s2c))
      /\ UNCHANGED <<call, room, out, leftover, c2s, far, rd, asked, answer, wr>>
  BY Facts, PipeAssumption DEF Recv, farVars
<1>1. /\ in' = IF Complete(d, b.used) THEN Shift(b, d.used) ELSE b
      /\ IF Complete(d, b.used)
         THEN pc' = "return" /\ result' = Outcome(d.vals)
         ELSE pc' = pc /\ result' = result
  BY DEF Recv, Return
<1>2. answer # << >> BY <1>0, Facts DEF IInv, Incoming, NotAnswered
<1>3. /\ Answered /\ answer \in Packets /\ v \in Seq(Byte) /\ Len(v) \in Nat \ {0}
  BY <1>2, AnsweredFacts
<1>4. /\ answer \in Answers(call) /\ ReadBytes \in Nat
      /\ PartOf(s2c, v, ReadBytes) /\ PartOf(wr, v, ReadBytes + Len(s2c))
      /\ Len(v) = ReadBytes + Len(s2c) + Len(wr)
  BY <1>3, Facts DEF Answered, ReadBytes
<1>5. /\ Good(b) /\ b.used = ReadBytes + k /\ ReadBytes + k <= Len(v)
      /\ PartOf(Contents(b), v, 0) /\ Queued(b, SubSeq(v, 1, ReadBytes + k), 0)
      /\ Len(Contents(b)) = b.used
  <2>1. /\ Good(b) /\ b.used = ReadBytes + k /\ ReadBytes + k <= Len(v)
        /\ Contents(b) = SubSeq(v, 1, ReadBytes + k)
        /\ PartOf(Contents(b), v, 0) /\ Queued(b, SubSeq(v, 1, ReadBytes + k), 0)
    BY <1>0, <1>2, Received
  <2>2. Len(SubSeq(v, 1, ReadBytes + k)) = ReadBytes + k BY <1>0, <1>3, <1>4, <2>1
  <2> QED BY <2>1, <2>2
<1>6. /\ PartOf(s2c', v, ReadBytes + k) /\ Len(s2c') = Len(s2c) - k
  <2>1. k \in 0 .. Len(s2c) BY <1>0, Facts
  <2> QED BY <1>0, <1>3, <1>4, <2>1, PartEnds
<1>7. /\ Complete(d, b.used) <=> ReadBytes + k = Len(v)
      /\ ReadBytes + k = Len(v) => d.vals = answer /\ d.used = b.used
  BY <1>3, <1>5, PrefixDecoded
<1> HIDE DEF b, d, v
<1>u. UNCHANGED <<call, far, rd, asked, answer, wr>> BY <1>0
<1>m. /\ answer \in Answers(call) /\ asked = call /\ far # "read" /\ Len(rd) = Len(Wire[call])
  BY <1>3 DEF Answered
<1>n. /\ k \in Nat \ {0} /\ ReadBytes \in Nat /\ Len(s2c) \in Nat /\ Len(wr) \in Nat
      /\ Len(v) \in Nat /\ Len(s2c') = Len(s2c) - k
  BY <1>0, <1>3, <1>4, <1>6, Facts
<1>8. ReadBytes' = ReadBytes + k
  <2>1. ReadBytes' = Len(v) - Len(s2c') - Len(wr)
    BY <1>0 DEF ReadBytes, v
  <2> QED BY <1>4, <1>n, <2>1
<1>9. PartOf(wr, v, ReadBytes + k + Len(s2c'))
  <2>1. ReadBytes + k + Len(s2c') = ReadBytes + Len(s2c) BY <1>n
  <2> QED BY <1>4, <2>1
<1>10. Outgoing'
  <2>1. pc' \in {"recv", "return"} BY <1>0, <1>1
  <2> QED BY <1>0, <2>1 DEF IInv, Outgoing, SentBytes
<1>11. s2c' \in Seq(Byte) BY <1>6 DEF PartOf
<1>12. CASE ReadBytes + k = Len(v)
  <2>1. pc' = "return" /\ result' = Outcome(answer) /\ in' = Shift(b, b.used)
    BY <1>1, <1>7, <1>12
  <2>2. Good(in') BY <1>5, <2>1, GoodFacts, ShiftKeeps
  <2>3. Outcome(answer).how \in Hows BY Facts, OutcomeHow
  <2>4. TypeOK' BY <1>0, <1>11, <2>1, <2>2, <2>3 DEF IInv, TypeOK, InMemory, Good, Hows
  <2>5. Incoming'
    <3>1. Answered' BY <1>u, <1>m, <1>n, <1>6, <1>8, <1>9, <2>1 DEF Answered, v
    <3> QED BY <1>2, <1>u, <3>1 DEF Incoming
  <2>6. wr = << >>
    <3>1. Len(wr) = 0 BY <1>0, <1>4, <1>12, Facts
    <3> QED BY <3>1, Facts
  <2>7. Honest(result')
    BY <1>4, <2>1, Facts, WholeOutcome
  <2>8. Returned' BY <1>0, <1>2, <2>6, <2>7, HonestKept DEF Returned
  <2> QED BY <1>10, <2>4, <2>5, <2>8 DEF IInv
<1>13. CASE ReadBytes + k # Len(v)
  <2>1. pc' = "recv" /\ result' = result /\ in' = b BY <1>0, <1>1, <1>7, <1>13
  <2>2. TypeOK' BY <1>0, <1>5, <1>11, <2>1 DEF IInv, TypeOK, InMemory, Good
  <2>3. ReadBytes + k < Len(v) /\ ReadBytes + k # 0 BY <1>0, <1>3, <1>4, <1>5, <1>13
  <2>4. Incoming'
    <3>1. Queued(in', SubSeq(v, 1, ReadBytes'), 0) /\ ReadBytes' < Len(v) /\ ReadBytes' # 0
      BY <1>5, <1>8, <2>1, <2>3
    <3>2. ReadBytes' \in Nat /\ PartOf(s2c', v, ReadBytes') /\ PartOf(wr, v, ReadBytes' + Len(s2c'))
      BY <1>6, <1>8, <1>9, <1>n
    <3>3. Answered' BY <1>u, <1>m, <2>1, <3>1, <3>2 DEF Answered, v
    <3> QED BY <1>2, <1>u, <3>3 DEF Incoming
  <2>5. Returned' BY <2>1 DEF Returned
  <2> QED BY <1>10, <2>2, <2>4, <2>5 DEF IInv
<1> QED BY <1>12, <1>13

LEMMA RecvEndsKeeps ==
    ASSUME IInv, RecvEnds
    PROVE  IInv'
<1>0. /\ pc = "recv" /\ pc' = "return"
      /\ result' = Outcome(got) \/ (~ Cleared /\ result' = Result("crash", << >>))
      /\ UNCHANGED <<call, room, out, in, got, leftover, c2s, s2c, far, rd, asked, answer, wr>>
  BY DEF RecvEnds, Return, farVars
<1>1. far = "closed" /\ s2c = << >>
  <2>1. Rem(Increase(in)) > 0 /\ Rem(Increase(in)) \in Int BY Facts, IncreaseRoom, GoodFacts
  <2> QED BY <2>1 DEF RecvEnds
<1>2. result'.how \in Hows BY <1>0, Facts, OutcomeHow DEF Result, Hows
<1>3. TypeOK' BY <1>0, <1>2 DEF IInv, TypeOK, InMemory, Hows
<1>4. Outgoing' BY <1>0 DEF IInv, Outgoing, SentBytes
<1>5. Incoming' BY <1>0 DEF IInv, Incoming, NotAnswered, Answered, ReadBytes
<1>6. got = << >> => Blank(result') BY <1>0, Facts, OutcomeOfNothing DEF Blank
<1>7. CASE answer = << >>
  <2>1. got = << >> BY <1>0, <1>7 DEF IInv, Incoming, NotAnswered
  <2>2. Returned' BY <1>0, <1>1, <1>6, <1>7, <2>1, BlankKept DEF Returned
  <2> QED BY <1>3, <1>4, <1>5, <2>2 DEF IInv
<1>8. CASE answer # << >>
  <2>1. ReadBytes < Len(Wire[answer]) /\ (ReadBytes = 0 => got = << >>)
    BY <1>0, <1>8, AnsweredFacts DEF Answered
  <2>2. ReadBytes = Len(Wire[answer]) - Len(wr)
    BY <1>1, <1>8, Facts, AnsweredFacts DEF ReadBytes
  <2>3. wr # << >>
    <3>1. Len(wr) # 0 BY <1>8, <2>1, <2>2, Facts, AnsweredFacts
    <3> QED BY <3>1
  <2>4. ~ Begun => ReadBytes = 0 BY <1>8, <2>2, Facts, AnsweredFacts DEF Begun
  <2>5. (~ Begun)' => ~ Begun BY <1>0 DEF Begun
  <2>6. Returned'
    BY <1>0, <1>1, <1>6, <1>8, <2>1, <2>3, <2>4, <2>5, BlankKept DEF Returned
  <2> QED BY <1>3, <1>4, <1>5, <2>6 DEF IInv
<1> QED BY <1>7, <1>8

-----------------------------------------------------------------------------
(* The steps of the server's end *)

(* What has been returned still holds. *)
LEMMA ReturnedKept ==
    ASSUME UNCHANGED <<call, answer, result>>
    PROVE  (Blank(result) => Blank(result)') /\ (Honest(result) => Honest(result)')
<1>1. Blank(result) => Blank(result') OBVIOUS
<1>2. Honest(result) => Honest(result') OBVIOUS
<1> QED BY <1>1, <1>2, BlankKept, HonestKept

LEMMA FarReadKeeps ==
    ASSUME IInv, NEW k \in 1 .. Pipe, FarRead(k)
    PROVE  IInv'
<1> DEFINE w == Wire[call]
           s == SubSeq(c2s, 1, k)
           d == Decoding[rd']
<1>0. /\ far = "read" /\ k \in 1 .. Len(c2s)
      /\ c2s' = SubSeq(c2s, k + 1, Len(c2s)) /\ rd' = rd \o s
      /\ UNCHANGED <<call, pc, room, out, in, got, leftover, result, s2c>>
  BY Facts, PipeAssumption DEF FarRead, clientVars
<1>1. IF Complete(d, Len(rd'))
      THEN /\ asked' = d.vals /\ far' = "write"
           /\ \E a \in Answers(d.vals) : answer' = a /\ wr' = Wire[a]
      ELSE UNCHANGED <<far, asked, answer, wr>>
  BY DEF FarRead
<1>2. answer = << >> BY <1>0, AnsweredFacts DEF Answered
<1>3. /\ wr = << >> /\ s2c = << >> /\ PartOf(rd, w, 0) /\ PartOf(c2s, w, Len(rd))
      /\ SentBytes # 0
  BY <1>0, <1>2, Facts DEF IInv, Incoming, NotAnswered, Outgoing, SentBytes
<1>4. /\ pc \in {"send", "recv"} /\ IsEmpty(in) /\ got = << >>
  <2>1. pc # "return" BY <1>0, <1>2, Facts DEF IInv, Returned
  <2>2. pc \notin {"connect", "serialize"} BY <1>3 DEF IInv, Outgoing
  <2> QED BY <1>2, <2>1, <2>2 DEF IInv, TypeOK, Incoming, NotAnswered
<1>5. /\ PartOf(s, w, Len(rd)) /\ Len(s) = k
      /\ PartOf(c2s', w, Len(rd) + k) /\ Len(c2s') = Len(c2s) - k
  <2>1. k \in 0 .. Len(c2s) BY <1>0, Facts
  <2> QED BY <1>0, <1>3, <2>1, Facts, PartBegins, PartEnds
<1>6. Len(rd') = Len(rd) + k /\ PartOf(rd', w, 0)
  <2> HIDE DEF w, s
  <2>1. w \in Seq(Byte) /\ Len(rd) \in Nat BY Facts DEF w
  <2>2. 0 + Len(rd) = Len(rd) /\ PartOf(s, w, 0 + Len(rd)) BY <1>5, <2>1
  <2> QED BY <1>0, <1>3, <1>5, <2>1, <2>2, PartsJoin
<1>7. SentBytes' = SentBytes
  <2>1. SentBytes' = Len(rd') + Len(c2s') BY DEF SentBytes
  <2>2. Len(rd') = Len(rd) + k /\ Len(c2s') = Len(c2s) - k BY <1>5, <1>6
  <2>3. k \in Nat /\ Len(rd) \in Nat /\ Len(c2s) \in Nat BY <1>0, Facts
  <2> HIDE DEF s
  <2> QED BY <2>1, <2>2, <2>3 DEF SentBytes
<1>8. /\ Complete(d, Len(rd')) <=> Len(rd') = Len(w)
      /\ Len(rd') = Len(w) => d.vals = call
  BY <1>6, Facts, PrefixDecoded
<1> HIDE DEF d
<1>9. rd' \in Seq(Byte) /\ c2s' \in Seq(Byte) BY <1>5, <1>6 DEF PartOf
<1>10. Len(rd') <= Len(w) BY <1>6 DEF PartOf
<1>11. /\ PartOf(rd', w, 0) /\ PartOf(c2s', w, Len(rd'))
       /\ Queued(out', w, SentBytes') /\ (pc' = "recv" => IsEmpty(out'))
       /\ pc' \in {"send", "recv"}
  BY <1>0, <1>4, <1>5, <1>6, <1>7 DEF IInv, Outgoing
<1>12. Returned' BY <1>0, <1>4 DEF Returned
<1>13. CASE Len(rd') = Len(w)
  <2>1. PICK a \in Answers(call) : answer' = a /\ wr' = Wire[a] BY <1>1, <1>8, <1>13
  <2>2. asked' = call /\ far' = "write" BY <1>1, <1>8, <1>13
  <2>3. /\ a # << >> /\ Wire[a] \in Seq(Byte) /\ Len(Wire[a]) \in Nat \ {0}
    BY Facts, AnswerNotEmpty, AnswersSent, WireType
  <2>4. TypeOK' BY <1>0, <1>9, <2>1, <2>2, <2>3 DEF IInv, TypeOK, InMemory
  <2>5. Outgoing' BY <1>0, <1>11, <2>2 DEF Outgoing
  <2>6. ReadBytes' = 0 /\ s2c' = << >> /\ Len(s2c') = 0
    BY <1>0, <1>3, <2>1, <2>3 DEF ReadBytes
  <2>7. PartOf(wr', Wire[answer'], 0) /\ PartOf(s2c', Wire[answer'], 0)
    <3>1. PartOf(Wire[a], Wire[a], 0) BY <2>3 DEF PartOf
    <3>2. PartOf(<< >>, Wire[a], 0) BY <2>3, NoPart
    <3> QED BY <2>1, <2>6, <3>1, <3>2
  <2>8. Queued(in, SubSeq(Wire[a], 1, 0), 0)
    <3>1. Len(SubSeq(Wire[a], 1, 0)) = 0 BY <2>3
    <3> QED BY <1>4, <3>1 DEF Queued, IsEmpty
  <2>9. Answered'
    BY <1>0, <1>4, <1>11, <1>13, <2>1, <2>2, <2>3, <2>6, <2>7, <2>8 DEF Answered
  <2>10. Incoming' BY <2>1, <2>3, <2>9 DEF Incoming
  <2> QED BY <1>12, <2>4, <2>5, <2>10 DEF IInv
<1>14. CASE Len(rd') # Len(w)
  <2>1. UNCHANGED <<far, asked, answer, wr>> BY <1>1, <1>8, <1>14
  <2>2. TypeOK' BY <1>0, <1>9, <2>1 DEF IInv, TypeOK, InMemory
  <2>3. Len(rd') < Len(w)
    <3>1. Len(rd') \in Nat /\ Len(w) \in Nat BY <1>9, Facts
    <3> QED BY <1>10, <1>14, <3>1
  <2>4. Outgoing' BY <1>0, <1>11, <2>3 DEF Outgoing
  <2>5. Incoming' BY <1>0, <1>2, <2>1 DEF IInv, Incoming, NotAnswered
  <2> QED BY <1>12, <2>2, <2>4, <2>5 DEF IInv
<1> QED BY <1>13, <1>14


LEMMA FarWriteKeeps ==
    ASSUME IInv, NEW k \in 1 .. Pipe, FarWrite(k)
    PROVE  IInv'
<1> DEFINE v == Wire[answer]
           s == SubSeq(wr, 1, k)
<1>0. /\ far = "write" /\ k \in 1 .. Len(wr)
      /\ s2c' = s2c \o s /\ wr' = SubSeq(wr, k + 1, Len(wr))
      /\ UNCHANGED <<call, pc, room, out, in, got, leftover, result, c2s, far, rd, asked, answer>>
  BY Facts, PipeAssumption DEF FarWrite, clientVars
<1>1. answer # << >> BY <1>0 DEF IInv, Incoming, NotAnswered
<1>2. /\ Answered /\ v \in Seq(Byte) /\ Len(v) \in Nat /\ ReadBytes \in Nat
      /\ PartOf(s2c, v, ReadBytes) /\ PartOf(wr, v, ReadBytes + Len(s2c))
  BY <1>1, AnsweredFacts DEF Answered
<1>n. k \in 0 .. Len(wr) /\ k \in Nat \ {0} /\ Len(wr) \in Nat /\ Len(s2c) \in Nat
  BY <1>0, Facts
<1>3. /\ PartOf(s, v, ReadBytes + Len(s2c)) /\ Len(s) = k
      /\ PartOf(wr', v, ReadBytes + Len(s2c) + k) /\ Len(wr') = Len(wr) - k
  <2>1. ReadBytes + Len(s2c) \in Nat BY <1>2, <1>n
  <2> QED BY <1>0, <1>2, <1>n, <2>1, PartBegins, PartEnds
<1>4. Len(s2c') = Len(s2c) + k /\ PartOf(s2c', v, ReadBytes)
  <2> HIDE DEF v, s
  <2> QED BY <1>0, <1>2, <1>3, PartsJoin
<1>u. UNCHANGED <<call, pc, in, got, result, far, rd, asked, answer, c2s, out, room>> BY <1>0
<1> HIDE DEF v, s
<1>5. ReadBytes' = ReadBytes
  <2>1. ReadBytes' = Len(v) - Len(s2c') - Len(wr') BY <1>u DEF ReadBytes, v
  <2>2. ReadBytes = Len(v) - Len(s2c) - Len(wr) BY DEF ReadBytes, v
  <2> QED BY <1>2, <1>3, <1>4, <1>n, <2>1, <2>2
<1>6. PartOf(wr', v, ReadBytes + Len(s2c'))
  <2>1. ReadBytes + Len(s2c') = ReadBytes + Len(s2c) + k BY <1>2, <1>4, <1>n
  <2> QED BY <1>3, <2>1
<1>7. s2c' \in Seq(Byte) /\ wr' \in Seq(Byte) BY <1>3, <1>4 DEF PartOf
<1>8. TypeOK' BY <1>0, <1>7 DEF IInv, TypeOK, InMemory
<1>9. Outgoing' BY <1>u DEF IInv, Outgoing, SentBytes
<1>10. Incoming'
  <2>1. Answered' BY <1>u, <1>2, <1>4, <1>5, <1>6 DEF Answered, v
  <2> QED BY <1>1, <1>u, <2>1 DEF Incoming
<1>11. Returned'
  <2>1. pc # "return" BY <1>0, <1>1, <1>n DEF IInv, Returned
  <2> QED BY <1>u, <2>1 DEF Returned
<1> QED BY <1>8, <1>9, <1>10, <1>11 DEF IInv

LEMMA FarCloseKeeps ==
    ASSUME IInv, FarClose
    PROVE  IInv'
<1>0. /\ far = "write" /\ wr = << >> /\ far' = "closed"
      /\ UNCHANGED <<call, pc, room, out, in, got, leftover, result, c2s, s2c, rd, asked, answer, wr>>
  BY DEF FarClose, clientVars
<1>1. answer # << >> BY <1>0 DEF IInv, Incoming, NotAnswered
<1>2. TypeOK' BY <1>0 DEF IInv, TypeOK, InMemory
<1>3. Outgoing' BY <1>0 DEF IInv, Outgoing, SentBytes
<1>4. Incoming' BY <1>0, <1>1 DEF IInv, Incoming, Answered, ReadBytes
<1>5. Returned' BY <1>0, <1>1, ReturnedKept DEF IInv, Returned
<1> QED BY <1>2, <1>3, <1>4, <1>5 DEF IInv

LEMMA FarHangsUpKeeps ==
    ASSUME IInv, FarHangsUp
    PROVE  IInv'
<1>0. /\ far \in {"read", "write"} /\ far' = "closed"
      /\ UNCHANGED <<call, pc, room, out, in, got, leftover, result, c2s, s2c, rd, asked, answer, wr>>
  BY DEF FarHangsUp, clientVars
<1>1. TypeOK' BY <1>0 DEF IInv, TypeOK, InMemory
<1>2. Outgoing' BY <1>0 DEF IInv, Outgoing, SentBytes
<1>3. Incoming' BY <1>0 DEF IInv, Incoming, NotAnswered, Answered, ReadBytes
<1>4. Returned' BY <1>0, ReturnedKept DEF IInv, Returned
<1> QED BY <1>1, <1>2, <1>3, <1>4 DEF IInv

LEMMA NextIInv == IInv /\ [Next]_vars => IInv'
<1> SUFFICES ASSUME IInv, [Next]_vars PROVE IInv' OBVIOUS
<1>1. CASE Connect BY <1>1, ConnectKeeps
<1>2. CASE SerializeCall BY <1>2, SerializeKeeps
<1>3. CASE SendFails BY <1>3, SendFailsKeeps
<1>4. CASE Sent BY <1>4, SentKeeps
<1>5. CASE RecvEnds BY <1>5, RecvEndsKeeps
<1>6. CASE \E k \in 1 .. Pipe : Send(k) \/ Recv(k) BY <1>6, SendKeeps, RecvKeeps
<1>7. CASE FarClose BY <1>7, FarCloseKeeps
<1>8. CASE \E k \in 1 .. Pipe : FarRead(k) \/ FarWrite(k) BY <1>8, FarReadKeeps, FarWriteKeeps
<1>9. CASE FarHangsUp BY <1>9, FarHangsUpKeeps
<1>10. CASE UNCHANGED vars
  <2>1. UNCHANGED <<call, pc, room, out, in, got, leftover, result, c2s, s2c,
                    far, rd, asked, answer, wr>>
    BY <1>10 DEF vars, clientVars, farVars
  <2>2. TypeOK' BY <2>1 DEF IInv, TypeOK, InMemory
  <2>3. Outgoing' BY <2>1 DEF IInv, Outgoing, SentBytes
  <2>4. Incoming' BY <2>1 DEF IInv, Incoming, NotAnswered, Answered, ReadBytes
  <2>5. Returned' BY <2>1, ReturnedKept DEF IInv, Returned, Begun
  <2> QED BY <2>2, <2>3, <2>4, <2>5 DEF IInv
<1> QED
  BY <1>1, <1>2, <1>3, <1>4, <1>5, <1>6, <1>7, <1>8, <1>9, <1>10
     DEF Next, ClientStep, FarStep, Finished

LEMMA Invariant == Spec => []IInv
  BY InitIInv, NextIInv, PTL DEF Spec

-----------------------------------------------------------------------------
(* The variables keep their types; ptr of either buffer stays within its    *)
(* memory while a request is serialized into it, sent out of it, and an    *)
(* answer read into it.                                                    *)
THEOREM TypeCorrect == Spec => []TypeOK
<1>1. IInv => TypeOK BY DEF IInv
<1> QED BY <1>1, Invariant, PTL

(* A call that clears its packet succeeds only with the answer to its own   *)
(* request and with what that answer says, unless the connection broke off *)
(* within the answer (packet_xchg, response_validate).                     *)
THEOREM CallsTrue == Spec => []CallTrue
<1>1. IInv => CallTrue
  <2> SUFFICES ASSUME IInv, ~ Cut, result.how = "ok", Cleared
               PROVE  asked = call /\ answer # << >> /\ result = Meant
    BY DEF CallTrue, Truly
  <2>1. pc = "return" BY DEF IInv, TypeOK
  <2>2. ~ Blank(result) BY DEF Blank
  <2>3. answer # << >> BY <2>1, <2>2 DEF IInv, Returned
  <2>4. asked = call BY <2>3, AnsweredFacts DEF Answered
  <2>5. Honest(result) BY <2>1, <2>2, <2>3 DEF IInv, Returned, Cut
  <2> QED BY <2>3, <2>4, <2>5 DEF Honest
<1> QED BY <1>1, Invariant, PTL

(* An answer sent to its end is what the call returns, however its bytes    *)
(* were cut up and wherever the client was in its loop when they came; the *)
(* exception is the assertion of client_rsrc_write.                        *)
THEOREM AnswersDelivered == Spec => []Delivered
<1>1. IInv => Delivered
  <2> SUFFICES ASSUME IInv, pc = "return", answer # << >>, wr = << >>
               PROVE  result = Meant \/ (Type = WRITE /\ answer[3] = ERROR)
    BY DEF Delivered
  <2>1. Honest(result) BY DEF IInv, Returned
  <2> QED BY <2>1 DEF Honest
<1> QED BY <1>1, Invariant, PTL

(* No call that clears its packet reads beyond what its answer has filled,  *)
(* unless the connection broke off within it (the memcpy of                *)
(* client_rsrc_read, the names that client_rsrc_readdir passes on).        *)
THEOREM NoCallCrashes == Spec => []NoCrash
<1>1. IInv => NoCrash
  <2> SUFFICES ASSUME IInv, Cleared, ~ Cut PROVE result.how # "crash" BY DEF NoCrash
  <2>1. CASE pc # "return" BY <2>1 DEF IInv, TypeOK
  <2>2. CASE pc = "return" /\ answer = << >> BY <2>2 DEF IInv, Returned, Blank
  <2>3. CASE pc = "return" /\ answer # << >>
    <3>1. Honest(result) \/ Blank(result) BY <2>3 DEF IInv, Returned, Cut
    <3> QED BY <3>1 DEF Honest, Blank
  <2> QED BY <2>1, <2>2, <2>3
<1> QED BY <1>1, Invariant, PTL

=============================================================================

------------------------------- MODULE Codec -------------------------------
(***************************************************************************)
(* Packets on the wire (lib/middfs-serial.c, lib/middfs-pkt.h).            *)
(*                                                                         *)
(* A packet is the sequence of its fields in the order they are sent.  The *)
(* first two are magic and type; what follows depends on the fields before *)
(* and is decoded in stages, each only if the ones before were complete.   *)
(* Words have Word digits of base Base (four of base 256 in the code),     *)
(* long fields two words, strings end in a zero byte.                      *)
(***************************************************************************)
EXTENDS Integers, Sequences

CONSTANTS
    Word, Base,
    NotRead     \* a field of the struct that no byte has reached yet

ASSUME WordAssumption == Word \in Nat \ {0} /\ Base \in Nat \ {0, 1}

MAGIC == 1800
\* enum middfs_packet_type
CONNECT == 1
REQUEST == 3
RESPONSE == 4
\* enum middfs_response_type
OK == 0
DATA == 1
STAT == 2
DIR == 3
ERROR == 4
\* enum middfs_request_type
GETATTR == 1
ACCESS == 2
READLINK == 3
SYMLINK == 5
RENAME == 8
CHMOD == 9
TRUNCATE == 10
OPEN == 11
CREATE == 12
READ == 13
WRITE == 14
READDIR == 15

(* What start has become after each of n steps *)
Steps(Step(_, _), start, n) ==
    LET after[i \in 0 .. n] == IF i = 0 THEN start ELSE Step(after[i - 1], i)
    IN after

Powers == Steps(LAMBDA m, i : Base * m, 1, 2 * Word)
Modulus == Powers[Word]

Has(type, types, kinds) == IF type \in types THEN kinds ELSE << >>

(* req_has_mode, _size, _to, _off; size and off pass through int32_t *)
RequestKinds(type) ==
    Has(type, {ACCESS, CHMOD, CREATE, OPEN}, <<"word">>)
    \o Has(type, {READLINK, TRUNCATE, READ, WRITE}, <<"cast">>)
    \o Has(type, {SYMLINK, RENAME}, <<"str", "str">>)
    \o Has(type, {READ, WRITE}, <<"cast">>)

ResponseKinds(type) ==
    CASE type = OK           -> << >>
      [] type \in {DATA, DIR} -> <<"long">>
      [] type = STAT         -> <<"word", "long", "long", "long">>
      [] type = ERROR        -> <<"word">>

(* The kinds of the fields of one stage, given the fields before: type and  *)
(* name of a request, requester, owner and path; of a connect packet port  *)
(* and name; of an answer its type; then what these ask for; then as many   *)
(* bytes or directory entries as a field said.                             *)
Kinds(stage, v) ==
    CASE stage = 1 -> <<"word", "word">>
      [] stage = 2 /\ v[2] = CONNECT  -> <<"word", "str">>
      [] stage = 2 /\ v[2] = REQUEST  -> <<"word", "str", "str", "str">>
      [] stage = 2 /\ v[2] = RESPONSE -> <<"word">>
      [] stage = 3 /\ v[2] = REQUEST  -> RequestKinds(v[3])
      [] stage = 3 /\ v[2] = RESPONSE -> ResponseKinds(v[3])
      [] stage = 4 /\ v[2] = REQUEST /\ v[3] = WRITE -> <<"data">>
      [] stage = 4 /\ v[2] = RESPONSE /\ v[3] = DATA -> <<"data">>
      [] stage = 4 /\ v[2] = RESPONSE /\ v[3] = DIR ->
           [i \in 1 .. 2 * v[4] |-> IF i % 2 = 1 THEN "str" ELSE "word"]
      [] OTHER -> << >>

(* mreq_size of a write request, mdata_nbytes of an answer *)
DataLength(v) == IF v[2] = REQUEST THEN v[7] ELSE v[4]

KindsOf(p) == Kinds(1, p) \o Kinds(2, p) \o Kinds(3, p) \o Kinds(4, p)

(* What the fields of a packet may hold.  Sizes and offsets stay below half *)
(* a word: larger ones do not survive the cast.                            *)
Fits(kind, v, p) ==
    CASE kind = "word" -> v \in 0 .. Modulus - 1
      [] kind = "long" -> v \in 0 .. Powers[2 * Word] - 1
      [] kind = "cast" -> v \in 0 .. Modulus \div 2 - 1
      [] kind = "str"  -> v \in Seq(1 .. Base - 1)
      [] kind = "data" -> v \in Seq(0 .. Base - 1) /\ Len(v) = DataLength(p)

Packet(p) ==
    /\ Len(p) \in Nat /\ p = [i \in 1 .. Len(p) |-> p[i]]
    /\ p[2] \in {CONNECT, REQUEST, RESPONSE}
    /\ p[2] = RESPONSE => p[3] \in {OK, DATA, STAT, DIR, ERROR}
    /\ p[2] = RESPONSE /\ p[3] = DIR => p[4] \in Nat
    /\ Len(p) = Len(KindsOf(p))
    /\ \A i \in 1 .. Len(p) : Fits(KindsOf(p)[i], p[i], p)

-----------------------------------------------------------------------------
(* Serialization *)

SizeRem(space, used) == IF space < used THEN 0 ELSE space - used

(* A number as n digits, the most significant first (htonl) *)
Digits(v, n) == [i \in 1 .. n |-> (v \div Powers[n - i]) % Base]

(* (int32_t) of a uint64_t, then sign-extended to uint64_t *)
Cast(v) ==
    LET w == v % Modulus IN
    IF w < Modulus \div 2 THEN w ELSE Powers[2 * Word] - Modulus + w

Encoded(kind, v) ==
    CASE kind = "word" -> Digits(v, Word)
      [] kind = "long" -> Digits(v, 2 * Word)
      [] kind = "cast" -> Digits(Cast(v), 2 * Word)
      [] kind = "str"  -> v \o <<0>>
      [] kind = "data" -> v

(* The bytes of a packet up to the end of each of its fields *)
Through(p) == Steps(LAMBDA s, i : s \o Encoded(KindsOf(p)[i], p[i]), << >>, Len(p))
Encoding(p) == Through(p)[Len(p)]

(* Slips: a string and its zero need one byte less; one word of a long     *)
Stored_NoZero(kind, v, rem) ==
    IF kind = "str" THEN (IF Len(v) <= rem THEN Encoded(kind, v) ELSE << >>)
    ELSE IF Len(Encoded(kind, v)) <= rem THEN Encoded(kind, v) ELSE << >>

(* What is written of a field into rem bytes: all of it if it fits, and of  *)
(* two words that do not fit the first if it does                          *)
Stored(kind, v, rem) ==
    CASE Len(Encoded(kind, v)) <= rem -> Encoded(kind, v)
      [] kind \in {"long", "cast"} /\ Word <= rem /\ rem < 2 * Word ->
           SubSeq(Encoded(kind, v), 1, Word)
      [] OTHER -> << >>

(* What it is said to need: strnlen looks at no more of a string than rem. *)
Need(kind, v, rem) ==
    IF kind = "str" /\ Len(v) > rem THEN rem + 1 ELSE Len(Encoded(kind, v))

(* One field, of which used tells how many bytes the ones before needed *)
PutField(st, kind, v, space) ==
    LET rem == SizeRem(space, st.used) IN
    [used |-> st.used + Need(kind, v, rem), out |-> st.out \o Stored(kind, v, rem)]

(* serialize_pkt: the bytes written into a buffer and the value returned,   *)
(* after each field                                                        *)
PutFields(p, space) ==
    Steps(LAMBDA st, i : PutField(st, KindsOf(p)[i], p[i], space),
          [used |-> 0, out |-> << >>], Len(p))
SerializePkt(p, space) == PutFields(p, space)[Len(p)]

-----------------------------------------------------------------------------
(* Deserialization *)

(* Slip: ntohl is forgotten *)
Number_Host(s) == Steps(LAMBDA n, i : n * Base + s[Len(s) + 1 - i], 0, Len(s))[Len(s)]

(* The number of which these are the digits (ntohl) *)
Number(s) == Steps(LAMBDA m, i : m * Base + s[i], 0, Len(s))[Len(s)]

Zeros(s) == {i \in 1 .. Len(s) : s[i] = 0}
FirstZero(s) == CHOOSE i \in Zeros(s) : \A j \in Zeros(s) : i <= j

(* Slip: data is counted only once it is all there *)
Wanted_Data(kind, s, n) ==
    CASE kind = "word" -> Word
      [] kind \in {"long", "cast"} -> 2 * Word
      [] kind = "str"  -> IF Zeros(s) = {} THEN Len(s) + 2 ELSE FirstZero(s)
      [] kind = "data" -> IF n <= Len(s) THEN n ELSE 0

(* The bytes a field takes of those left, more than there are if it is not *)
(* complete; n is the length of data.                                      *)
Wanted(kind, s, n) ==
    CASE kind = "word" -> Word
      [] kind \in {"long", "cast"} -> 2 * Word
      [] kind = "str"  -> IF Zeros(s) = {} THEN Len(s) + 2 ELSE FirstZero(s)
      [] kind = "data" -> n

(* Slip: what has come of a string is copied *)
Decoded_Str(kind, s, n) ==
    IF kind = "str" THEN SubSeq(s, 1, IF Zeros(s) = {} THEN Len(s) ELSE FirstZero(s) - 1)
    ELSE IF Wanted(kind, s, n) > Len(s) THEN NotRead
    ELSE IF kind = "data" THEN SubSeq(s, 1, Wanted(kind, s, n))
    ELSE Number(SubSeq(s, 1, Wanted(kind, s, n)))

Decoded(kind, s, n) ==
    IF Wanted(kind, s, n) > Len(s) THEN NotRead
    ELSE CASE kind = "str"  -> SubSeq(s, 1, FirstZero(s) - 1)
           [] kind = "data" -> SubSeq(s, 1, Wanted(kind, s, n))
           [] OTHER -> Number(SubSeq(s, 1, Wanted(kind, s, n)))

(* One field, taken from what is left of b after those before it *)
TakeField(b, st, kind) ==
    LET s == SubSeq(b, st.used + 1, Len(b))
        n == IF kind = "data" THEN DataLength(st.vals) ELSE 0 IN
    [used |-> st.used + Wanted(kind, s, n), vals |-> Append(st.vals, Decoded(kind, s, n))]

TakeFields(b, st, kinds) == Steps(LAMBDA so, i : TakeField(b, so, kinds[i]), st, Len(kinds))

(* A stage is left out once more bytes are needed than there are. *)
Stage(b, st, stage) ==
    IF st.used > Len(b) THEN st
    ELSE LET kinds == Kinds(stage, st.vals) IN TakeFields(b, st, kinds)[Len(kinds)]

(* deserialize_pkt: the fields as far as they were decoded and the value    *)
(* returned                                                                *)
DeserializePkt(b) ==
    LET header == Stage(b, [used |-> 0, vals |-> << >>], 1)
        fixed  == Stage(b, header, 2)
        varied == Stage(b, fixed, 3)
    IN Stage(b, varied, 4)
=============================================================================

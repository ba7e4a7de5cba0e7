---------------------------- MODULE CodecProofs ----------------------------
(***************************************************************************)
(* Packets arrive as they were sent and are written as far as there is     *)
(* room, for every set of packets, every base and length of a word and     *)
(* whatever follows a packet.  The lemmas about the functions of module    *)
(* Codec say so for any room and any number of bytes; here they are the    *)
(* properties that the runs check.                                         *)
(***************************************************************************)
EXTENDS CodecCorrect, ByteLemmas

(* The inductive invariant: a packet was chosen, of which n bytes are there. *)
Chosen == pkt \in Sent /\ n \in Nat /\ n <= Len(Wire)

(* The bytes that come begin with those of the packet. *)
LEMMA WireType ==
    ASSUME Chosen
    PROVE  /\ Packet(pkt) /\ Whole \in Nat /\ Encoding(pkt) \in Seq(Octet)
           /\ Wire \in Seq(Octet) /\ Whole <= Len(Wire)
           /\ \A i \in 1 .. Whole : Wire[i] = Encoding(pkt)[i]
<1>1. Packet(pkt) BY SentAssumption DEF Chosen
<1>2. Encoding(pkt) \in Seq(Octet) BY <1>1, EncodingPlaces
<1>3. More \in Seq(Octet) BY SentAssumption DEF Octet
<1> DEFINE E == Encoding(pkt)
<1>4. Wire = E \o More /\ Whole = Len(E) BY DEF Wire, Whole
<1> HIDE DEF E
<1>5. /\ Wire \in Seq(Octet) /\ Len(Wire) = Len(E) + Len(More) /\ Len(E) \in Nat /\ Len(More) \in Nat
      /\ \A i \in 1 .. Len(E) : Wire[i] = E[i]
  BY <1>2, <1>3, <1>4, ConcatProperties DEF E
<1>6. Len(E) <= Len(Wire) BY <1>5
<1> QED BY <1>1, <1>2, <1>4, <1>5, <1>6 DEF E

(* What has come of them *)
LEMMA BytesArrived ==
    ASSUME Chosen
    PROVE  LET b == SubSeq(Wire, 1, n) IN
           b \in Seq(Octet) /\ Len(b) = n /\ Alike(b, Encoding(pkt))
<1> DEFINE E == Encoding(pkt)
           b == SubSeq(Wire, 1, n)
<1>1. /\ Wire \in Seq(Octet) /\ Whole = Len(E)
      /\ \A i \in 1 .. Len(E) : Wire[i] = E[i]
      /\ n \in Nat /\ n <= Len(Wire)
  BY WireType DEF Chosen, Whole
<1> HIDE DEF E
<1>2. b \in Seq(Octet) /\ Len(b) = n /\ \A i \in 1 .. n : b[i] = Wire[i]
  <2> DEFINE w == Wire
  <2>1. w \in Seq(Octet) /\ n \in Nat /\ n <= Len(w) BY <1>1
  <2> HIDE DEF w
  <2>2. SubSeq(w, 1, n) \in Seq(Octet) /\ Len(SubSeq(w, 1, n)) = n /\ \A i \in 1 .. n : SubSeq(w, 1, n)[i] = w[i]
    BY <2>1
  <2> QED BY <2>2 DEF w
<1>3. Alike(b, E)
  <2> SUFFICES ASSUME NEW i \in 1 .. Len(b), i <= Len(E) PROVE b[i] = E[i] BY DEF Alike
  <2> HIDE DEF b
  <2>1. i \in Nat /\ i >= 1 /\ i \in 1 .. n BY <1>1, <1>2
  <2>2. Len(E) \in Nat BY WireType, <1>1
  <2>3. i \in 1 .. Len(E) BY <2>1, <2>2
  <2> QED BY <1>1, <1>2, <2>1, <2>3
<1> QED BY <1>2, <1>3 DEF E

(* The properties of deserialize_pkt in one state *)
LEMMA Decodes ==
    ASSUME Chosen
    PROVE  WholeOnly /\ RoundTrip /\ PrefixHonest
<1> DEFINE b == SubSeq(Wire, 1, n)
           total == Len(Encoding(pkt))
           got == DeserializePkt(b)
<1>0. n \in Nat BY DEF Chosen
<1>1. /\ total \in Nat /\ got.used \in Nat
      /\ \A j \in 1 .. Len(got.vals) : got.vals[j] \in {NotRead, pkt[j]}
      /\ IF total <= Len(b) THEN got.used = total /\ got.vals = pkt ELSE got.used > Len(b)
  BY WireType, BytesArrived, PktDeserialized
<1>2. Len(b) = n BY BytesArrived
<1>3. Got = got /\ Whole = total BY DEF Got, Whole
<1> HIDE DEF got, total, b
<1> QED BY <1>0, <1>1, <1>2, <1>3 DEF WholeOnly, RoundTrip, PrefixHonest

(* The property of serialize_pkt in one state *)
LEMMA Serializes ==
    ASSUME Chosen
    PROVE  SerializerContract
<1> DEFINE st == SerializePkt(pkt, n)
           E == Encoding(pkt)
<1>0. n \in Nat BY DEF Chosen
<1>1. /\ st.used \in Nat /\ st.out \in Seq(Octet) /\ Len(E) \in Nat
      /\ Len(st.out) <= n /\ Len(st.out) <= Len(E)
      /\ \A j \in 1 .. Len(st.out) : st.out[j] = E[j]
      /\ IF Len(E) <= n THEN st.used = Len(E) /\ st.out = E
         ELSE n < st.used /\ st.used <= Len(E)
  BY <1>0, WireType, PktSerialized
<1>2. E \in Seq(Octet) /\ Whole = Len(E) BY WireType DEF Whole
<1>3. IsPrefixOf(st.out, E)
  <2> DEFINE o == st.out
  <2>1. o \in Seq(Octet) /\ Len(o) <= Len(E) /\ \A j \in 1 .. Len(o) : o[j] = E[j] BY <1>1
  <2> HIDE DEF o, st, E
  <2>2. /\ SubSeq(E, 1, Len(o)) \in Seq(Octet) /\ Len(SubSeq(E, 1, Len(o))) = Len(o)
        /\ \A j \in 1 .. Len(o) : SubSeq(E, 1, Len(o))[j] = E[j]
    BY <1>2, <2>1
  <2>3. SubSeq(E, 1, Len(o)) = o BY <2>1, <2>2, SeqEqual
  <2> QED BY <2>1, <2>3 DEF IsPrefixOf, o
<1>4. /\ n < Len(E) => n < st.used /\ st.used <= Len(E)
      /\ n >= Len(E) => st.used = Len(E) /\ st.out = E
  <2> DEFINE u == st.used
             o == st.out
             l == Len(E)
  <2>1. l \in Nat /\ IF l <= n THEN u = l /\ o = E ELSE n < u /\ u <= l BY <1>1
  <2> HIDE DEF u, o, l
  <2>2. (n < l => n < u /\ u <= l) /\ (n >= l => u = l /\ o = E) BY <1>0, <2>1
  <2> QED BY <2>2 DEF u, o, l
<1>5. Len(st.out) <= n BY <1>1
<1>6. /\ n < Whole => n < st.used /\ st.used <= Whole
      /\ n >= Whole => st.used = Whole /\ st.out = E
  BY <1>2, <1>4
<1> HIDE DEF st, E
<1> QED BY <1>3, <1>5, <1>6, Zenon DEF SerializerContract, st, E

-----------------------------------------------------------------------------
LEMMA ChosenInvariant == Spec => []Chosen
<1>1. Init => Chosen
  <2> SUFFICES ASSUME Init PROVE Chosen OBVIOUS
  <2>1. pkt \in Sent /\ n = 0 BY DEF Init
  <2>2. Packet(pkt) BY <2>1, SentAssumption
  <2>3. Encoding(pkt) \in Seq(Octet) BY <2>2, EncodingPlaces
  <2>4. More \in Seq(Octet) BY SentAssumption DEF Octet
  <2>5. Wire \in Seq(Octet) BY <2>3, <2>4 DEF Wire
  <2>6. Len(Wire) \in Nat
    <3> DEFINE w == Wire
    <3>1. w \in Seq(Octet) BY <2>5
    <3> HIDE DEF w
    <3>2. Len(w) \in Nat BY <3>1
    <3> QED BY <3>2 DEF w
  <2> QED BY <2>1, <2>6 DEF Chosen
<1>2. Chosen /\ [Next]_vars => Chosen'
  <2> SUFFICES ASSUME Chosen, [Next]_vars PROVE Chosen' OBVIOUS
  <2>1. CASE Arrive
    <3>1. pkt' = pkt /\ n' = n + 1 /\ n < Len(Wire) BY <2>1 DEF Arrive
    <3>2. Wire' = Wire BY <3>1 DEF Wire
    <3> QED BY <3>1, <3>2, WireType DEF Chosen
  <2>2. CASE Arrived \/ UNCHANGED vars
    <3>1. pkt' = pkt /\ n' = n BY <2>2 DEF Arrived, vars
    <3>2. Wire' = Wire BY <3>1 DEF Wire
    <3> QED BY <3>1, <3>2 DEF Chosen
  <2> QED BY <2>1, <2>2 DEF Next
<1> QED BY <1>1, <1>2, PTL DEF Spec

(* deserialize_pkt takes a packet for complete with its last byte, not      *)
(* sooner and not later, and takes none of the bytes behind it, for every  *)
(* packet and whatever follows: what packet_recv and handle_pkt_rd rely on. *)
THEOREM WholeOnlyHolds == Spec => []WholeOnly
<1>1. Chosen => WholeOnly BY Decodes
<1> QED BY <1>1, ChosenInvariant, PTL

(* What deserialize_pkt decodes of all the bytes that serialize_pkt writes  *)
(* is the packet that was sent, for every packet whose fields are in the   *)
(* range of their types (sizes and offsets below 2^31, the cast's limit).  *)
THEOREM RoundTripHolds == Spec => []RoundTrip
<1>1. Chosen => RoundTrip BY Decodes
<1> QED BY <1>1, ChosenInvariant, PTL

(* Of an incomplete packet deserialize_pkt decodes fields rightly or not    *)
(* at all: packet_recv calls it again with every read, into one struct.    *)
THEOREM PrefixHonestHolds == Spec => []PrefixHonest
<1>1. Chosen => PrefixHonest BY Decodes
<1> QED BY <1>1, ChosenInvariant, PTL

(* serialize_pkt writes a beginning of the packet within the room it is     *)
(* given, and returns more than the room exactly as long as the packet     *)
(* does not fit: the loop of buffer_serialize ends with all of it.         *)
THEOREM SerializerContractHolds == Spec => []SerializerContract
<1>1. Chosen => SerializerContract BY Serializes
<1> QED BY <1>1, ChosenInvariant, PTL
=============================================================================

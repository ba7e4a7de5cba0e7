---------------------------- MODULE CodecCorrect ----------------------------
(* What makes the serialization of packets correct: a packet is chosen, and *)
(* its bytes arrive, or room is found for them, one by one.                *)
EXTENDS Codec

CONSTANTS
    Sent,       \* packets that are sent
    More        \* bytes that may follow a packet

ASSUME SentAssumption == (\A p \in Sent : Packet(p)) /\ More \in Seq(0 .. Base - 1)

VARIABLES
    pkt,        \* the packet
    n           \* bytes arrived, or bytes of room

vars == <<pkt, n>>

Wire == Encoding(pkt) \o More
Whole == Len(Encoding(pkt))
Got == DeserializePkt(SubSeq(Wire, 1, n))

Init == pkt \in Sent /\ n = 0
Arrive == n < Len(Wire) /\ n' = n + 1 /\ UNCHANGED pkt
Arrived == n = Len(Wire) /\ UNCHANGED vars
Next == Arrive \/ Arrived
Spec == Init /\ [][Next]_vars

-----------------------------------------------------------------------------
(* A packet is taken for complete when its last byte is there, not sooner   *)
(* and not later, and none of the bytes after it are taken.                *)
WholeOnly ==
    /\ n < Whole => Got.used > n
    /\ n >= Whole => Got.used = Whole

(* The receiver decodes the packet that was sent. *)
RoundTrip == n >= Whole => Got.vals = pkt

(* No field that is set before the packet is complete is set wrong.  The    *)
(* receiver decodes again and again into one struct (client-pkt.c:62).     *)
PrefixHonest == \A i \in 1 .. Len(Got.vals) : Got.vals[i] \in {NotRead, pkt[i]}

IsPrefixOf(s, t) == s = SubSeq(t, 1, Len(s)) /\ Len(s) <= Len(t)

(* What buffer_serialize relies on: nothing is written beyond the room, and *)
(* the value returned is beyond the room, but not beyond what is needed,   *)
(* exactly as long as the packet does not fit.                             *)
SerializerContract ==
    LET done == SerializePkt(pkt, n) IN
    /\ IsPrefixOf(done.out, Encoding(pkt)) /\ Len(done.out) <= n
    /\ n < Whole => n < done.used /\ done.used <= Whole
    /\ n >= Whole => done.used = Whole /\ done.out = Encoding(pkt)
=============================================================================

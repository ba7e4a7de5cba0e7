--------------------------- MODULE ExchangeCorrect ---------------------------
(* What makes the calls of module Exchange correct. *)
EXTENDS Exchange

(* The types of the variables; ptr of a buffer is within its memory. *)
InMemory(b) == b \in Buffers /\ b.used <= Size(b)
TypeOK ==
    /\ call \in Calls /\ leftover \in Leftovers
    /\ pc \in {"connect", "serialize", "send", "recv", "return"}
    /\ room \in Nat
    /\ InMemory(out) /\ InMemory(in)
    /\ result.how \in {"none", "ok", "error", "abort", "crash"}
    /\ (result.how = "none") = (pc # "return")
    /\ c2s \in Seq(Byte) /\ s2c \in Seq(Byte) /\ rd \in Seq(Byte) /\ wr \in Seq(Byte)
    /\ far \in {"read", "write", "closed"}

(* What the answer means for the caller *)
Meant ==
    CASE answer[3] = ERROR -> Failure
      [] answer[3] = OK    -> Success(IF Type = WRITE THEN call[7] ELSE << >>)
      [] answer[3] = STAT  -> Success(SubSeq(answer, 4, Len(answer)))
      [] answer[3] = DIR   -> Success(SubSeq(answer, 5, Len(answer)))
      [] answer[3] = DATA  -> Success(SubSeq(answer[5], 1, Least(call[7], answer[4])))

(* The server's end stopped within the answer. *)
Cut == far = "closed" /\ wr # << >> /\ Begun

(* A call that clears its packet succeeds only if the very request it made  *)
(* was answered, the answer says so, and the result is what the answer      *)
(* means, whatever the server's end does but stop within it.               *)
Truly ==
    result.how = "ok" /\ Cleared => asked = call /\ answer # << >> /\ result = Meant
CallTrue == ~ Cut => Truly

(* An answer that was sent to its end is what the call returns, however its *)
(* bytes were cut up on the way; a write that failed is the exception.     *)
Delivered ==
    pc = "return" /\ far = "closed" /\ answer # << >> /\ wr = << >>
      => result = Meant \/ (Type = WRITE /\ answer[3] = ERROR)

(* No call that clears its packet reads memory that its answer has not      *)
(* filled (client-rsrc.c:569, :687): lengths and counts come with as many   *)
(* bytes and names, and without an answer there is nothing to follow.      *)
NoCrash == Cleared /\ ~ Cut => result.how # "crash"

(* Every call returns, whether or not the server hangs up. *)
Returns == <>(pc = "return")

-----------------------------------------------------------------------------
(* What comments of the code say and the code does not do. *)

(* packet_recv: "RETV: 0 on success; negated error code on error"           *)
(* (client-pkt.c:54).  An end of file within the answer is no success.     *)
CutFails == Cleared => Truly /\ result.how # "crash"
=============================================================================

----------------------------- MODULE ByteLemmas -----------------------------
(***************************************************************************)
(* What the operations of buffers and packets do, whatever they are used   *)
(* for.  Buffers: the bytes in use are a queue, and the memory is as long  *)
(* as it says.  Packets: what is written of one into any room, and what is *)
(* decoded of any number of its bytes, for every length of a word, every   *)
(* base and every packet.                                                  *)
(***************************************************************************)
EXTENDS Buffer, Codec, WellFoundedInduction, SequenceTheorems, TLAPS

-----------------------------------------------------------------------------
(* Buffers *)

(* Buffers whose ptr is between begin and end *)
Good(b) == b \in Buffers /\ b.used <= Size(b)

LEMMA NoBufferGood == Good(NoBuffer)
  BY DEF Good, NoBuffer, Buffers, Size

LEMMA GoodFacts ==
  ASSUME NEW b, Good(b)
  PROVE  /\ b.mem \in Seq(Byte \cup {Junk}) /\ b.used \in Nat
         /\ Size(b) \in Nat /\ b.used <= Size(b)
         /\ Rem(b) \in Nat /\ Rem(b) = Size(b) - b.used
         /\ DOMAIN b.mem = 1 .. Size(b)
         /\ \A i \in 1 .. Size(b) : b.mem[i] \in Byte \cup {Junk}
         /\ b = [mem |-> b.mem, used |-> b.used]
  BY DEF Good, Buffers, Size, Rem

(* A function on 1 .. n is a sequence of length n. *)
LEMMA BufferOf ==
  ASSUME NEW n \in Nat, NEW u \in Nat, u <= n,
         NEW mem \in [1 .. n -> Byte \cup {Junk}]
  PROVE  LET b == [mem |-> mem, used |-> u] IN
         Good(b) /\ Size(b) = n /\ b.used = u /\ b.mem = mem /\ Rem(b) = n - u
<1>1. mem \in Seq(Byte \cup {Junk}) /\ Len(mem) = n
  OBVIOUS
<1> QED
  BY <1>1 DEF Good, Buffers, Size, Rem

(* buffer_resize to no less than is in use keeps what is in use, and gives  *)
(* exactly the room asked for.                                             *)
LEMMA ResizeKeeps ==
  ASSUME NEW b, Good(b), NEW n \in Nat, b.used <= n
  PROVE  /\ Good(Resize(b, n)) /\ Size(Resize(b, n)) = n
         /\ Resize(b, n).used = b.used /\ Rem(Resize(b, n)) = n - b.used
         /\ \A i \in 1 .. b.used : Resize(b, n).mem[i] = b.mem[i]
<1> DEFINE mem == [i \in 1 .. n |-> IF i <= Size(b) THEN b.mem[i] ELSE Junk]
           r == [mem |-> mem, used |-> b.used]
<1>1. b.used \in Nat /\ b.used <= Size(b) /\ Size(b) \in Nat
  BY GoodFacts
<1>2. mem \in [1 .. n -> Byte \cup {Junk}]
  BY GoodFacts
<1>3. Resize(b, n) = r
  BY <1>1 DEF Resize, Least
<1>4. \A i \in 1 .. b.used : mem[i] = b.mem[i]
  BY <1>1
<1> HIDE DEF mem
<1>5. Good(r) /\ Size(r) = n /\ r.used = b.used /\ r.mem = mem /\ Rem(r) = n - b.used
  BY <1>1, <1>2, BufferOf
<1> QED
  BY <1>3, <1>4, <1>5

(* buffer_increase makes room and keeps what is in use. *)
LEMMA IncreaseRoom ==
  ASSUME NEW b, Good(b)
  PROVE  /\ Good(Increase(b)) /\ Increase(b).used = b.used /\ Rem(Increase(b)) > 0
         /\ \A i \in 1 .. b.used : Increase(b).mem[i] = b.mem[i]
<1>1. CASE Rem(b) = 0
  <2> DEFINE n == Most(1, 2 * Size(b))
  <2>1. n \in Nat /\ b.used <= n /\ n - b.used > 0
    BY <1>1, GoodFacts DEF Most
  <2>2. Increase(b) = Resize(b, n)
    BY <1>1 DEF Increase
  <2> QED
    BY <2>1, <2>2, ResizeKeeps
<1>2. CASE Rem(b) # 0
  BY <1>2, GoodFacts DEF Increase
<1> QED
  BY <1>1, <1>2

(* memmove by less than is in use: byte i was byte i + n. *)
LEMMA ShiftKeeps ==
  ASSUME NEW b, Good(b), NEW n \in Nat, n <= b.used
  PROVE  /\ Good(Shift(b, n)) /\ Shift(b, n).used = b.used - n
         /\ \A i \in 1 .. b.used - n : Shift(b, n).mem[i] = b.mem[i + n]
<1>1. CASE n = b.used
  BY <1>1, GoodFacts DEF Shift, Good, Buffers, Size
<1>2. CASE n < b.used
  <2> DEFINE mem == [i \in 1 .. Size(b) |->
                       IF i <= b.used - n THEN b.mem[i + n] ELSE b.mem[i]]
             r == [mem |-> mem, used |-> b.used - n]
  <2>1. Shift(b, n) = r
    BY <1>2, GoodFacts DEF Shift
  <2>2. /\ Size(b) \in Nat /\ b.used - n \in Nat /\ b.used - n <= Size(b)
    BY <1>2, GoodFacts
  <2>3. mem \in [1 .. Size(b) -> Byte \cup {Junk}]
    BY <2>2, GoodFacts
  <2>4. \A i \in 1 .. b.used - n : mem[i] = b.mem[i + n]
    BY <2>2
  <2> HIDE DEF mem
  <2>5. Good(r) /\ r.used = b.used - n /\ r.mem = mem
    BY <2>2, <2>3, BufferOf
  <2> QED
    BY <2>1, <2>4, <2>5
<1> QED
  BY <1>1, <1>2, GoodFacts

(* Bytes that fit are stored in the free part only. *)
LEMMA StoreKeeps ==
  ASSUME NEW b, Good(b), NEW s \in Seq(Byte), Len(s) <= Rem(b)
  PROVE  /\ Good(Store(b, s)) /\ Store(b, s).used = b.used
         /\ Size(Store(b, s)) = Size(b) /\ Rem(Store(b, s)) = Rem(b)
         /\ \A i \in 1 .. b.used : Store(b, s).mem[i] = b.mem[i]
         /\ \A i \in 1 .. Len(s) : Store(b, s).mem[b.used + i] = s[i]
<1> DEFINE mem == [i \in 1 .. Size(b) |->
                     IF b.used < i /\ i <= b.used + Len(s) THEN s[i - b.used] ELSE b.mem[i]]
           r == [mem |-> mem, used |-> b.used]
<1>1. Store(b, s) = r
  BY DEF Store
<1>2. /\ Size(b) \in Nat /\ b.used \in Nat /\ b.used <= Size(b)
      /\ Rem(b) = Size(b) - b.used /\ Len(s) \in Nat
  BY GoodFacts
<1>3. mem \in [1 .. Size(b) -> Byte \cup {Junk}]
  BY <1>2, GoodFacts
<1>4. /\ \A i \in 1 .. b.used : mem[i] = b.mem[i]
      /\ \A i \in 1 .. Len(s) : mem[b.used + i] = s[i]
  <2>1. ASSUME NEW i \in 1 .. b.used PROVE mem[i] = b.mem[i]
    <3>1. i \in 1 .. Size(b) /\ ~ (b.used < i) BY <1>2
    <3> QED BY <3>1
  <2>2. ASSUME NEW i \in 1 .. Len(s) PROVE mem[b.used + i] = s[i]
    <3>1. /\ b.used + i \in 1 .. Size(b) /\ b.used < b.used + i /\ b.used + i <= b.used + Len(s)
          /\ (b.used + i) - b.used = i
      BY <1>2
    <3> QED BY <3>1
  <2> QED BY <2>1, <2>2
<1> HIDE DEF mem
<1>5. Good(r) /\ Size(r) = Size(b) /\ r.used = b.used /\ r.mem = mem /\ Rem(r) = Rem(b)
  BY <1>2, <1>3, BufferOf
<1> QED
  BY <1>1, <1>4, <1>5

-----------------------------------------------------------------------------
(* Fifo, of any buffer and any history *)
Queued(b, c, t) ==
    /\ Len(c) = t + b.used
    /\ \A i \in 1 .. b.used : b.mem[i] = c[t + i]

(* A buffer with the same bytes in use is the same queue. *)
LEMMA SameQueue ==
  ASSUME NEW b, NEW d, NEW c, NEW t, Queued(b, c, t), d.used = b.used,
         \A i \in 1 .. b.used : d.mem[i] = b.mem[i]
  PROVE  Queued(d, c, t)
  BY DEF Queued

(* Bytes added at the end are the last of the history. *)
LEMMA AddedQueue ==
  ASSUME NEW b, Good(b), NEW s \in Seq(Byte), Len(s) <= Rem(b),
         NEW c \in Seq(Byte), NEW t \in Nat, Queued(b, c, t)
  PROVE  /\ Good(Added(b, s)) /\ Queued(Added(b, s), c \o s, t)
         /\ Rem(Added(b, s)) = Rem(b) - Len(s)
<1> DEFINE r == Store(b, s)
<1>1. /\ Good(r) /\ r.used = b.used /\ Size(r) = Size(b) /\ Rem(r) = Rem(b)
      /\ \A i \in 1 .. b.used : r.mem[i] = b.mem[i]
      /\ \A i \in 1 .. Len(s) : r.mem[b.used + i] = s[i]
  BY StoreKeeps
<1>2. Added(b, s) = [mem |-> r.mem, used |-> b.used + Len(s)]
  BY <1>1 DEF Added, Advance
<1>3. /\ b.used \in Nat /\ Len(s) \in Nat /\ Size(b) \in Nat
      /\ Rem(b) = Size(b) - b.used /\ Rem(r) = Size(b) - b.used
      /\ r.mem \in Seq(Byte \cup {Junk}) /\ Size(r) = Len(r.mem)
  BY <1>1, GoodFacts DEF Size
<1> HIDE DEF r
<1>4. Good(Added(b, s)) /\ Rem(Added(b, s)) = Rem(b) - Len(s)
  BY <1>1, <1>2, <1>3 DEF Good, Buffers, Size, Rem
<1>5. Queued(Added(b, s), c \o s, t)
  <2>0. /\ Len(c \o s) = Len(c) + Len(s) /\ Len(c) \in Nat
        /\ \A i \in 1 .. Len(c) : (c \o s)[i] = c[i]
        /\ \A j \in 1 .. Len(s) : (c \o s)[Len(c) + j] = s[j]
    OBVIOUS
  <2>1. Len(c \o s) = t + (b.used + Len(s)) /\ Len(c) = t + b.used
    BY <1>3, <2>0 DEF Queued
  <2>2. ASSUME NEW i \in 1 .. b.used + Len(s)
        PROVE  r.mem[i] = (c \o s)[t + i]
    <3>1. CASE i <= b.used
      <4>1. t + i \in 1 .. Len(c) /\ i \in 1 .. b.used
        BY <1>3, <2>1, <3>1
      <4>2. r.mem[i] = c[t + i]
        BY <1>1, <4>1 DEF Queued
      <4>3. (c \o s)[t + i] = c[t + i]
        BY <2>0, <4>1
      <4> QED
        BY <4>2, <4>3
    <3>2. CASE i > b.used
      <4>1. PICK j \in 1 .. Len(s) : i = b.used + j
        <5>1. i - b.used \in 1 .. Len(s) /\ i = b.used + (i - b.used)
          BY <1>3, <3>2
        <5> QED
          BY <5>1
      <4>2. t + i = Len(c) + j
        BY <1>3, <2>1, <4>1
      <4> QED
        BY <1>1, <2>0, <4>1, <4>2
    <3>3. i <= b.used \/ i > b.used
      BY <1>3
    <3> QED
      BY <3>1, <3>2, <3>3
  <2>3. Added(b, s).mem = r.mem /\ Added(b, s).used = b.used + Len(s)
    BY <1>2
  <2> QED
    BY <2>1, <2>2, <2>3 DEF Queued
<1> QED
  BY <1>4, <1>5

(* Taking n bytes out moves the rest of the history to the front. *)
LEMMA TakenQueue ==
  ASSUME NEW b, Good(b), NEW n \in Nat, n <= b.used,
         NEW c, NEW t \in Nat, Queued(b, c, t)
  PROVE  Good(Shift(b, n)) /\ Queued(Shift(b, n), c, t + n)
<1>1. /\ Good(Shift(b, n)) /\ Shift(b, n).used = b.used - n
      /\ \A i \in 1 .. b.used - n : Shift(b, n).mem[i] = b.mem[i + n]
  BY ShiftKeeps
<1>2. b.used \in Nat
  BY GoodFacts
<1>3. Len(c) = t + n + (b.used - n)
  BY <1>2 DEF Queued
<1>4. \A i \in 1 .. b.used - n : i + n \in 1 .. b.used /\ t + (i + n) = t + n + i
  BY <1>2
<1>5. \A i \in 1 .. b.used - n : b.mem[i + n] = c[t + n + i]
  BY <1>4 DEF Queued
<1> QED
  BY <1>1, <1>3, <1>5 DEF Queued

-----------------------------------------------------------------------------
(* Induction over the natural numbers, for sets of them *)

(* Induction: the least number outside T would have one before it.         *)
LEMMA InductionOnSets ==
    ASSUME NEW T, 0 \in T, \A n \in T \cap Nat : n + 1 \in T
    PROVE  Nat \subseteq T
<1> DEFINE R == OpToRel(<, Nat)
           D == Nat \ T
<1>0. IsWellFoundedOn(R, Nat) BY NatLessThanWellFounded
<1>1. \A x \in Nat : x # 0 => <<x - 1, x>> \in R BY DEF OpToRel
<1> HIDE DEF R
<1>2. SUFFICES ASSUME D # {} PROVE FALSE OBVIOUS
<1>3. PICK x \in D : \A y \in D : ~ (<<y, x>> \in R)
  <2>1. D \subseteq Nat OBVIOUS
  <2> HIDE DEF D
  <2> QED BY <1>0, <1>2, <2>1, WFMin
<1>4. x # 0 /\ x \in Nat /\ x - 1 \in Nat BY <1>3
<1>5. x - 1 \in D
  <2>1. x = (x - 1) + 1 BY <1>4
  <2> QED BY <1>3, <1>4, <2>1
<1> QED BY <1>1, <1>3, <1>4, <1>5

-----------------------------------------------------------------------------
(* The recursive functions of module Codec satisfy their equations.  A       *)
(* function that does exists by induction over its length; then CHOOSE, by *)
(* which a recursive function is defined, picks one.                       *)

(* The steps of Number *)
Numbers(s) == Steps(LAMBDA m, i : m * Base + s[i], 0, Len(s))

LEMMA PowersSteps ==
    ASSUME 2 * Word \in Nat
    PROVE  /\ Powers[0] = 1
           /\ \A i \in 1 .. 2 * Word : Powers[i] = Base * Powers[i - 1]
<1> DEFINE E(m, i) == Base * m
           P(g, k) == g = [i \in 0 .. k |-> IF i = 0 THEN 1 ELSE E(g[i - 1], i)]
           T == {k \in Nat : \E g : P(g, k)}
<1> HIDE DEF E
<1>1. 0 \in T
  <2> DEFINE g == [i \in 0 .. 0 |-> 1]
  <2>1. g = [i \in 0 .. 0 |-> IF i = 0 THEN 1 ELSE E(g[i - 1], i)] OBVIOUS
  <2> QED BY <2>1
<1>2. ASSUME NEW k \in T \cap Nat PROVE k + 1 \in T
  <2>1. PICK g : P(g, k) OBVIOUS
  <2> DEFINE h == [i \in 0 .. k + 1 |-> IF i <= k THEN g[i] ELSE E(g[k], k + 1)]
             H(i) == IF i = 0 THEN 1 ELSE E(h[i - 1], i)
  <2>2. ASSUME NEW i \in 0 .. k + 1 PROVE h[i] = H(i)
    <3>0. k \in Nat /\ \A j \in 0 .. k : h[j] = g[j] OBVIOUS
    <3>1. CASE i = 0
      <4>1. i \in 0 .. k /\ g[i] = 1 BY <2>1, <3>0, <3>1
      <4> QED BY <3>0, <3>1, <4>1
    <3>2. CASE i # 0 /\ i <= k
      <4>1. i \in 0 .. k /\ i - 1 \in 0 .. k BY <3>0, <3>2
      <4>2. g[i] = E(g[i - 1], i) BY <2>1, <3>2, <4>1
      <4>3. h[i] = g[i] /\ h[i - 1] = g[i - 1] BY <3>0, <4>1
      <4> QED BY <3>2, <4>2, <4>3
    <3>3. CASE i = k + 1
      <4>1. h[i] = E(g[k], k + 1) /\ h[i - 1] = g[k] /\ i # 0 BY <3>0, <3>3
      <4> QED BY <3>3, <4>1
    <3> QED BY <3>0, <3>1, <3>2, <3>3
  <2>3. h = [i \in 0 .. k + 1 |-> H(i)] BY <2>2
  <2>4. P(h, k + 1) BY <2>3
  <2> HIDE DEF h, P
  <2> QED BY <2>4
<1> HIDE DEF T
<1>3. Nat \subseteq T BY <1>1, <1>2, InductionOnSets
<1>4. \E g : P(g, 2 * Word) BY <1>3 DEF T
<1>5. P(Powers, 2 * Word) BY <1>4 DEF Powers, Steps, E
<1>6. \A i \in 0 .. 2 * Word : Powers[i] = IF i = 0 THEN 1 ELSE E(Powers[i - 1], i)
  <2> DEFINE G == Powers
  <2> HIDE DEF G
  <2>1. P(G, 2 * Word) BY <1>5 DEF G
  <2>2. \A i \in 0 .. 2 * Word : G[i] = IF i = 0 THEN 1 ELSE E(G[i - 1], i) BY <2>1
  <2> QED BY <2>2 DEF G
<1>7. Powers[0] = 1
  <2> DEFINE G == Powers
  <2> HIDE DEF G
  <2>1. G[0] = 1 BY <1>6 DEF G
  <2> QED BY <2>1 DEF G
<1>8. \A i \in 1 .. 2 * Word : Powers[i] = E(Powers[i - 1], i)
  <2> DEFINE G == Powers
  <2> HIDE DEF G
  <2>1. \A i \in 1 .. 2 * Word : G[i] = E(G[i - 1], i) BY <1>6 DEF G
  <2> QED BY <2>1 DEF G
<1> HIDE DEF P
<1> QED BY <1>7, <1>8, Zenon DEF E

LEMMA NumberSteps ==
    ASSUME NEW s, Len(s) \in Nat
    PROVE  /\ Numbers(s)[0] = 0
           /\ \A i \in 1 .. Len(s) : Numbers(s)[i] = Numbers(s)[i - 1] * Base + s[i]
<1> DEFINE E(m, i) == m * Base + s[i]
           P(g, k) == g = [i \in 0 .. k |-> IF i = 0 THEN 0 ELSE E(g[i - 1], i)]
           T == {k \in Nat : \E g : P(g, k)}
<1> HIDE DEF E
<1>1. 0 \in T
  <2> DEFINE g == [i \in 0 .. 0 |-> 0]
  <2>1. g = [i \in 0 .. 0 |-> IF i = 0 THEN 0 ELSE E(g[i - 1], i)] OBVIOUS
  <2> QED BY <2>1
<1>2. ASSUME NEW k \in T \cap Nat PROVE k + 1 \in T
  <2>1. PICK g : P(g, k) OBVIOUS
  <2> DEFINE h == [i \in 0 .. k + 1 |-> IF i <= k THEN g[i] ELSE E(g[k], k + 1)]
             H(i) == IF i = 0 THEN 0 ELSE E(h[i - 1], i)
  <2>2. ASSUME NEW i \in 0 .. k + 1 PROVE h[i] = H(i)
    <3>0. k \in Nat /\ \A j \in 0 .. k : h[j] = g[j] OBVIOUS
    <3>1. CASE i = 0
      <4>1. i \in 0 .. k /\ g[i] = 0 BY <2>1, <3>0, <3>1
      <4> QED BY <3>0, <3>1, <4>1
    <3>2. CASE i # 0 /\ i <= k
      <4>1. i \in 0 .. k /\ i - 1 \in 0 .. k BY <3>0, <3>2
      <4>2. g[i] = E(g[i - 1], i) BY <2>1, <3>2, <4>1
      <4>3. h[i] = g[i] /\ h[i - 1] = g[i - 1] BY <3>0, <4>1
      <4> QED BY <3>2, <4>2, <4>3
    <3>3. CASE i = k + 1
      <4>1. h[i] = E(g[k], k + 1) /\ h[i - 1] = g[k] /\ i # 0 BY <3>0, <3>3
      <4> QED BY <3>3, <4>1
    <3> QED BY <3>0, <3>1, <3>2, <3>3
  <2>3. h = [i \in 0 .. k + 1 |-> H(i)] BY <2>2
  <2>4. P(h, k + 1) BY <2>3
  <2> HIDE DEF h, P
  <2> QED BY <2>4
<1> HIDE DEF T
<1>3. Nat \subseteq T BY <1>1, <1>2, InductionOnSets
<1>4. \E g : P(g, Len(s)) BY <1>3 DEF T
<1>5. P(Numbers(s), Len(s)) BY <1>4 DEF Numbers, Steps, E
<1>6. \A i \in 0 .. Len(s) : Numbers(s)[i] = IF i = 0 THEN 0 ELSE E(Numbers(s)[i - 1], i)
  <2> DEFINE G == Numbers(s)
  <2> HIDE DEF G
  <2>1. P(G, Len(s)) BY <1>5 DEF G
  <2>2. \A i \in 0 .. Len(s) : G[i] = IF i = 0 THEN 0 ELSE E(G[i - 1], i) BY <2>1
  <2> QED BY <2>2 DEF G
<1>7. Numbers(s)[0] = 0
  <2> DEFINE G == Numbers(s)
  <2> HIDE DEF G
  <2>1. G[0] = 0 BY <1>6 DEF G
  <2> QED BY <2>1 DEF G
<1>8. \A i \in 1 .. Len(s) : Numbers(s)[i] = E(Numbers(s)[i - 1], i)
  <2> DEFINE G == Numbers(s)
  <2> HIDE DEF G
  <2>1. \A i \in 1 .. Len(s) : G[i] = E(G[i - 1], i) BY <1>6 DEF G
  <2> QED BY <2>1 DEF G
<1> HIDE DEF P
<1> QED BY <1>7, <1>8, Zenon DEF E

LEMMA ThroughSteps ==
    ASSUME NEW p, Len(p) \in Nat
    PROVE  /\ Through(p)[0] = << >>
           /\ \A i \in 1 .. Len(p) : Through(p)[i] = Through(p)[i - 1] \o Encoded(KindsOf(p)[i], p[i])
<1> DEFINE E(m, i) == m \o Encoded(KindsOf(p)[i], p[i])
           P(g, k) == g = [i \in 0 .. k |-> IF i = 0 THEN << >> ELSE E(g[i - 1], i)]
           T == {k \in Nat : \E g : P(g, k)}
<1> HIDE DEF E
<1>1. 0 \in T
  <2> DEFINE g == [i \in 0 .. 0 |-> << >>]
  <2>1. g = [i \in 0 .. 0 |-> IF i = 0 THEN << >> ELSE E(g[i - 1], i)] OBVIOUS
  <2> QED BY <2>1
<1>2. ASSUME NEW k \in T \cap Nat PROVE k + 1 \in T
  <2>1. PICK g : P(g, k) OBVIOUS
  <2> DEFINE h == [i \in 0 .. k + 1 |-> IF i <= k THEN g[i] ELSE E(g[k], k + 1)]
             H(i) == IF i = 0 THEN << >> ELSE E(h[i - 1], i)
  <2>2. ASSUME NEW i \in 0 .. k + 1 PROVE h[i] = H(i)
    <3>0. k \in Nat /\ \A j \in 0 .. k : h[j] = g[j] OBVIOUS
    <3>1. CASE i = 0
      <4>1. i \in 0 .. k /\ g[i] = << >> BY <2>1, <3>0, <3>1
      <4> QED BY <3>0, <3>1, <4>1
    <3>2. CASE i # 0 /\ i <= k
      <4>1. i \in 0 .. k /\ i - 1 \in 0 .. k BY <3>0, <3>2
      <4>2. g[i] = E(g[i - 1], i) BY <2>1, <3>2, <4>1
      <4>3. h[i] = g[i] /\ h[i - 1] = g[i - 1] BY <3>0, <4>1
      <4> QED BY <3>2, <4>2, <4>3
    <3>3. CASE i = k + 1
      <4>1. h[i] = E(g[k], k + 1) /\ h[i - 1] = g[k] /\ i # 0 BY <3>0, <3>3
      <4> QED BY <3>3, <4>1
    <3> QED BY <3>0, <3>1, <3>2, <3>3
  <2>3. h = [i \in 0 .. k + 1 |-> H(i)] BY <2>2
  <2>4. P(h, k + 1) BY <2>3
  <2> HIDE DEF h, P
  <2> QED BY <2>4
<1> HIDE DEF T
<1>3. Nat \subseteq T BY <1>1, <1>2, InductionOnSets
<1>4. \E g : P(g, Len(p)) BY <1>3 DEF T
<1>5. P(Through(p), Len(p)) BY <1>4 DEF Through, Steps, E
<1>6. \A i \in 0 .. Len(p) : Through(p)[i] = IF i = 0 THEN << >> ELSE E(Through(p)[i - 1], i)
  <2> DEFINE G == Through(p)
  <2> HIDE DEF G
  <2>1. P(G, Len(p)) BY <1>5 DEF G
  <2>2. \A i \in 0 .. Len(p) : G[i] = IF i = 0 THEN << >> ELSE E(G[i - 1], i) BY <2>1
  <2> QED BY <2>2 DEF G
<1>7. Through(p)[0] = << >>
  <2> DEFINE G == Through(p)
  <2> HIDE DEF G
  <2>1. G[0] = << >> BY <1>6 DEF G
  <2> QED BY <2>1 DEF G
<1>8. \A i \in 1 .. Len(p) : Through(p)[i] = E(Through(p)[i - 1], i)
  <2> DEFINE G == Through(p)
  <2> HIDE DEF G
  <2>1. \A i \in 1 .. Len(p) : G[i] = E(G[i - 1], i) BY <1>6 DEF G
  <2> QED BY <2>1 DEF G
<1> HIDE DEF P
<1> QED BY <1>7, <1>8, Zenon DEF E

LEMMA PutsSteps ==
    ASSUME NEW p, NEW space, Len(p) \in Nat
    PROVE  /\ PutFields(p, space)[0] = [used |-> 0, out |-> << >>]
           /\ \A i \in 1 .. Len(p) : PutFields(p, space)[i] = PutField(PutFields(p, space)[i - 1], KindsOf(p)[i], p[i], space)
<1> DEFINE E(m, i) == PutField(m, KindsOf(p)[i], p[i], space)
           P(g, k) == g = [i \in 0 .. k |-> IF i = 0 THEN [used |-> 0, out |-> << >>] ELSE E(g[i - 1], i)]
           T == {k \in Nat : \E g : P(g, k)}
<1> HIDE DEF E
<1>1. 0 \in T
  <2> DEFINE g == [i \in 0 .. 0 |-> [used |-> 0, out |-> << >>]]
  <2>1. g = [i \in 0 .. 0 |-> IF i = 0 THEN [used |-> 0, out |-> << >>] ELSE E(g[i - 1], i)] OBVIOUS
  <2> QED BY <2>1
<1>2. ASSUME NEW k \in T \cap Nat PROVE k + 1 \in T
  <2>1. PICK g : P(g, k) OBVIOUS
  <2> DEFINE h == [i \in 0 .. k + 1 |-> IF i <= k THEN g[i] ELSE E(g[k], k + 1)]
             H(i) == IF i = 0 THEN [used |-> 0, out |-> << >>] ELSE E(h[i - 1], i)
  <2>2. ASSUME NEW i \in 0 .. k + 1 PROVE h[i] = H(i)
    <3>0. k \in Nat /\ \A j \in 0 .. k : h[j] = g[j] OBVIOUS
    <3>1. CASE i = 0
      <4>1. i \in 0 .. k /\ g[i] = [used |-> 0, out |-> << >>] BY <2>1, <3>0, <3>1
      <4> QED BY <3>0, <3>1, <4>1
    <3>2. CASE i # 0 /\ i <= k
      <4>1. i \in 0 .. k /\ i - 1 \in 0 .. k BY <3>0, <3>2
      <4>2. g[i] = E(g[i - 1], i) BY <2>1, <3>2, <4>1
      <4>3. h[i] = g[i] /\ h[i - 1] = g[i - 1] BY <3>0, <4>1
      <4> QED BY <3>2, <4>2, <4>3
    <3>3. CASE i = k + 1
      <4>1. h[i] = E(g[k], k + 1) /\ h[i - 1] = g[k] /\ i # 0 BY <3>0, <3>3
      <4> QED BY <3>3, <4>1
    <3> QED BY <3>0, <3>1, <3>2, <3>3
  <2>3. h = [i \in 0 .. k + 1 |-> H(i)] BY <2>2
  <2>4. P(h, k + 1) BY <2>3
  <2> HIDE DEF h, P
  <2> QED BY <2>4
<1> HIDE DEF T
<1>3. Nat \subseteq T BY <1>1, <1>2, InductionOnSets
<1>4. \E g : P(g, Len(p)) BY <1>3 DEF T
<1>5. P(PutFields(p, space), Len(p)) BY <1>4 DEF PutFields, Steps, E
<1>6. \A i \in 0 .. Len(p) : PutFields(p, space)[i] = IF i = 0 THEN [used |-> 0, out |-> << >>] ELSE E(PutFields(p, space)[i - 1], i)
  <2> DEFINE G == PutFields(p, space)
  <2> HIDE DEF G
  <2>1. P(G, Len(p)) BY <1>5 DEF G
  <2>2. \A i \in 0 .. Len(p) : G[i] = IF i = 0 THEN [used |-> 0, out |-> << >>] ELSE E(G[i - 1], i) BY <2>1
  <2> QED BY <2>2 DEF G
<1>7. PutFields(p, space)[0] = [used |-> 0, out |-> << >>]
  <2> DEFINE G == PutFields(p, space)
  <2> HIDE DEF G
  <2>1. G[0] = [used |-> 0, out |-> << >>] BY <1>6 DEF G
  <2> QED BY <2>1 DEF G
<1>8. \A i \in 1 .. Len(p) : PutFields(p, space)[i] = E(PutFields(p, space)[i - 1], i)
  <2> DEFINE G == PutFields(p, space)
  <2> HIDE DEF G
  <2>1. \A i \in 1 .. Len(p) : G[i] = E(G[i - 1], i) BY <1>6 DEF G
  <2> QED BY <2>1 DEF G
<1> HIDE DEF P
<1> QED BY <1>7, <1>8, Zenon DEF E

LEMMA TakesSteps ==
    ASSUME NEW b, NEW st, NEW kinds, Len(kinds) \in Nat
    PROVE  /\ TakeFields(b, st, kinds)[0] = st
           /\ \A i \in 1 .. Len(kinds) : TakeFields(b, st, kinds)[i] = TakeField(b, TakeFields(b, st, kinds)[i - 1], kinds[i])
<1> DEFINE E(m, i) == TakeField(b, m, kinds[i])
           P(g, k) == g = [i \in 0 .. k |-> IF i = 0 THEN st ELSE E(g[i - 1], i)]
           T == {k \in Nat : \E g : P(g, k)}
<1> HIDE DEF E
<1>1. 0 \in T
  <2> DEFINE g == [i \in 0 .. 0 |-> st]
  <2>1. g = [i \in 0 .. 0 |-> IF i = 0 THEN st ELSE E(g[i - 1], i)] OBVIOUS
  <2> QED BY <2>1
<1>2. ASSUME NEW k \in T \cap Nat PROVE k + 1 \in T
  <2>1. PICK g : P(g, k) OBVIOUS
  <2> DEFINE h == [i \in 0 .. k + 1 |-> IF i <= k THEN g[i] ELSE E(g[k], k + 1)]
             H(i) == IF i = 0 THEN st ELSE E(h[i - 1], i)
  <2>2. ASSUME NEW i \in 0 .. k + 1 PROVE h[i] = H(i)
    <3>0. k \in Nat /\ \A j \in 0 .. k : h[j] = g[j] OBVIOUS
    <3>1. CASE i = 0
      <4>1. i \in 0 .. k /\ g[i] = st BY <2>1, <3>0, <3>1
      <4> QED BY <3>0, <3>1, <4>1
    <3>2. CASE i # 0 /\ i <= k
      <4>1. i \in 0 .. k /\ i - 1 \in 0 .. k BY <3>0, <3>2
      <4>2. g[i] = E(g[i - 1], i) BY <2>1, <3>2, <4>1
      <4>3. h[i] = g[i] /\ h[i - 1] = g[i - 1] BY <3>0, <4>1
      <4> QED BY <3>2, <4>2, <4>3
    <3>3. CASE i = k + 1
      <4>1. h[i] = E(g[k], k + 1) /\ h[i - 1] = g[k] /\ i # 0 BY <3>0, <3>3
      <4> QED BY <3>3, <4>1
    <3> QED BY <3>0, <3>1, <3>2, <3>3
  <2>3. h = [i \in 0 .. k + 1 |-> H(i)] BY <2>2
  <2>4. P(h, k + 1) BY <2>3
  <2> HIDE DEF h, P
  <2> QED BY <2>4
<1> HIDE DEF T
<1>3. Nat \subseteq T BY <1>1, <1>2, InductionOnSets
<1>4. \E g : P(g, Len(kinds)) BY <1>3 DEF T
<1>5. P(TakeFields(b, st, kinds), Len(kinds)) BY <1>4 DEF TakeFields, Steps, E
<1>6. \A i \in 0 .. Len(kinds) : TakeFields(b, st, kinds)[i] = IF i = 0 THEN st ELSE E(TakeFields(b, st, kinds)[i - 1], i)
  <2> DEFINE G == TakeFields(b, st, kinds)
  <2> HIDE DEF G
  <2>1. P(G, Len(kinds)) BY <1>5 DEF G
  <2>2. \A i \in 0 .. Len(kinds) : G[i] = IF i = 0 THEN st ELSE E(G[i - 1], i) BY <2>1
  <2> QED BY <2>2 DEF G
<1>7. TakeFields(b, st, kinds)[0] = st
  <2> DEFINE G == TakeFields(b, st, kinds)
  <2> HIDE DEF G
  <2>1. G[0] = st BY <1>6 DEF G
  <2> QED BY <2>1 DEF G
<1>8. \A i \in 1 .. Len(kinds) : TakeFields(b, st, kinds)[i] = E(TakeFields(b, st, kinds)[i - 1], i)
  <2> DEFINE G == TakeFields(b, st, kinds)
  <2> HIDE DEF G
  <2>1. \A i \in 1 .. Len(kinds) : G[i] = E(G[i - 1], i) BY <1>6 DEF G
  <2> QED BY <2>1 DEF G
<1> HIDE DEF P
<1> QED BY <1>7, <1>8, Zenon DEF E

Octet == 0 .. Base - 1

LEMMA WordFacts ==
    /\ Word \in Nat /\ Word >= 1 /\ 2 * Word \in Nat /\ Base \in Nat /\ Base >= 2
  BY WordAssumption

(* Powers of the base are positive.    *)
LEMMA PowersPositive ==
    \A k \in 0 .. 2 * Word : Powers[k] \in Nat \ {0}
<1> DEFINE T == {k \in Nat : k <= 2 * Word => Powers[k] \in Nat \ {0}}
<1>0. 2 * Word \in Nat /\ Base \in Nat \ {0} BY WordFacts
<1>1. 0 \in T BY <1>0, PowersSteps
<1>2. ASSUME NEW k \in T \cap Nat PROVE k + 1 \in T
  <2> SUFFICES ASSUME k + 1 <= 2 * Word PROVE Powers[k + 1] \in Nat \ {0} OBVIOUS
  <2>1. k + 1 \in 1 .. 2 * Word /\ (k + 1) - 1 = k BY <1>0
  <2>2. Powers[k + 1] = Base * Powers[k] BY <1>0, <2>1, PowersSteps
  <2>3. Powers[k] \in Nat \ {0} BY <1>0, <2>1
  <2> QED BY <1>0, <2>2, <2>3
<1> HIDE DEF T
<1>3. Nat \subseteq T BY <1>1, <1>2, InductionOnSets
<1> QED BY <1>0, <1>3 DEF T

(* The quotient is the only one with a remainder below the divisor. *)
LEMMA Quotient ==
    ASSUME NEW a \in Nat, NEW d \in Nat \ {0}, NEW q \in Nat, NEW r \in Nat, r < d, a = d * q + r
    PROVE  a \div d = q
<1> DEFINE e == a \div d
           m == a % d
<1>1. e \in Int /\ m \in Int /\ 0 <= m /\ m < d /\ a = d * e + m OBVIOUS
<1> HIDE DEF e, m
<1>2. d * (q - e) = m - r BY <1>1
<1>3. ~ (q - e >= 1)
  <2> SUFFICES ASSUME q - e >= 1 PROVE FALSE OBVIOUS
  <2>1. d * (q - e) >= d BY <1>1
  <2> QED BY <1>1, <1>2, <2>1
<1>4. ~ (q - e <= -1)
  <2> SUFFICES ASSUME q - e <= -1 PROVE FALSE OBVIOUS
  <2>1. d * (q - e) <= -d BY <1>1
  <2> QED BY <1>1, <1>2, <2>1
<1> QED BY <1>1, <1>3, <1>4 DEF e

(* One digit more of a quotient                                            *)
LEMMA QuotientOfQuotient ==
    ASSUME NEW a \in Nat, NEW d \in Nat \ {0}
    PROVE  /\ a \div d \in Nat
           /\ a \div d = Base * (a \div (Base * d)) + ((a \div d) % Base)
           /\ ((a \div d) % Base) \in Octet
<1> DEFINE q == a \div d
           r == a % d
           u == q \div Base
           m == q % Base
<1>0. Base \in Nat \ {0} BY WordFacts
<1>1. q \in Nat /\ r \in Nat /\ r < d /\ a = d * q + r OBVIOUS
<1> HIDE DEF q, r
<1>2. u \in Nat /\ m \in Nat /\ m < Base /\ q = Base * u + m BY <1>0, <1>1
<1> HIDE DEF u, m
<1>3. a \div (Base * d) = u
  <2>1. Base * d \in Nat \ {0} BY <1>0
  <2>2. a = (Base * d) * u + (d * m + r)
    <3>1. d * q = d * (Base * u) + d * m BY <1>0, <1>1, <1>2
    <3>2. d * (Base * u) = (Base * d) * u BY <1>0, <1>2
    <3>3. d * (Base * u) \in Nat /\ d * m \in Nat /\ d * q \in Nat BY <1>0, <1>1, <1>2
    <3> QED BY <1>1, <3>1, <3>2, <3>3
  <2>3. d * m + r \in Nat /\ d * m + r < Base * d
    <3>1. d * m <= d * (Base - 1) BY <1>0, <1>2
    <3>2. d * (Base - 1) = Base * d - d BY <1>0
    <3>3. d * m \in Nat /\ Base * d \in Nat BY <1>0, <1>2
    <3> QED BY <1>1, <3>1, <3>2, <3>3
  <2> QED BY <1>2, <2>1, <2>2, <2>3, Quotient
<1>4. m \in Octet BY <1>0, <1>2 DEF Octet
<1>5. q = Base * (a \div (Base * d)) + m BY <1>2, <1>3, Zenon
<1>6. q \in Nat /\ m = q % Base BY <1>1 DEF m
<1> HIDE DEF Octet
<1> QED BY <1>4, <1>5, <1>6, Zenon DEF q

LEMMA DigitsType ==
    ASSUME NEW v \in Nat, NEW n \in 0 .. 2 * Word
    PROVE  Digits(v, n) \in Seq(Octet) /\ Len(Digits(v, n)) = n
<1>1. n \in Nat /\ 2 * Word \in Nat BY WordFacts
<1>2. \A i \in 1 .. n : (v \div Powers[n - i]) % Base \in Octet
  <2> TAKE i \in 1 .. n
  <2>1. n - i \in 0 .. 2 * Word BY <1>1
  <2>2. Powers[n - i] \in Nat \ {0} BY <2>1, PowersPositive
  <2> QED BY <2>2, QuotientOfQuotient
<1> QED BY <1>1, <1>2 DEF Digits

(* ntohl undoes htonl. *)
LEMMA NumberOfDigits ==
    ASSUME NEW n \in 0 .. 2 * Word, NEW v \in 0 .. Powers[n] - 1
    PROVE  Number(Digits(v, n)) = v
<1> DEFINE s == Digits(v, n)
           N == Numbers(s)
           T == {i \in Nat : i <= n => N[i] = v \div Powers[n - i]}
<1>0. /\ n \in Nat /\ 2 * Word \in Nat /\ Base \in Nat /\ v \in Nat
      /\ Powers[n] \in Nat \ {0} /\ v < Powers[n]
  BY WordFacts, PowersPositive
<1>1. Len(s) = n /\ \A i \in 1 .. n : s[i] = (v \div Powers[n - i]) % Base
  BY <1>0, DigitsType DEF Digits
<1>2. N[0] = 0 /\ \A i \in 1 .. n : N[i] = N[i - 1] * Base + s[i]
  BY <1>0, <1>1, NumberSteps
<1> HIDE DEF s, N
<1>3. 0 \in T
  <2>1. v \div Powers[n] = 0 BY <1>0, Quotient
  <2> QED BY <1>0, <1>2, <2>1
<1>4. ASSUME NEW i \in T \cap Nat PROVE i + 1 \in T
  <2> SUFFICES ASSUME i + 1 <= n PROVE N[i + 1] = v \div Powers[n - (i + 1)] OBVIOUS
  <2> DEFINE k == n - (i + 1)
  <2>1. /\ i + 1 \in 1 .. n /\ (i + 1) - 1 = i /\ k \in 0 .. 2 * Word
        /\ k + 1 \in 1 .. 2 * Word /\ (k + 1) - 1 = k /\ n - i = k + 1
    BY <1>0
  <2>2. Powers[k + 1] = Base * Powers[k] BY <1>0, <2>1, PowersSteps
  <2>3. Powers[k] \in Nat \ {0} BY <2>1, PowersPositive
  <2>4. N[i] = v \div (Base * Powers[k]) BY <1>0, <2>1, <2>2
  <2>5. N[i + 1] = N[i] * Base + ((v \div Powers[k]) % Base) BY <1>1, <1>2, <2>1
  <2> DEFINE d == Powers[k]
             w == v \div (Base * d)
             m == (v \div d) % Base
  <2> HIDE DEF k, d
  <2>6. v \div d \in Nat /\ v \div d = Base * w + m /\ m \in Octet
    BY <1>0, <2>3, QuotientOfQuotient DEF d
  <2>7. w \in Nat
    <3>1. Base * d \in Nat \ {0} BY <2>3, WordFacts DEF d
    <3> QED BY <1>0, <3>1, QuotientOfQuotient
  <2>8. m \in Nat BY <2>6, WordFacts DEF Octet
  <2>9. N[i] = w /\ N[i + 1] = N[i] * Base + m BY <2>4, <2>5 DEF d
  <2> HIDE DEF w, m
  <2>10. w * Base = Base * w BY <1>0, <2>7
  <2> QED BY <1>0, <2>6, <2>7, <2>8, <2>9, <2>10 DEF d, k
<1> HIDE DEF T
<1>5. Nat \subseteq T BY <1>3, <1>4, InductionOnSets
<1>6. N[n] = v \div Powers[0] BY <1>0, <1>5 DEF T
<1>7. v \div Powers[0] = v BY <1>0, PowersSteps, Quotient
<1>8. Number(s) = N[n] BY <1>1 DEF Number, N, Numbers
<1> QED BY <1>6, <1>7, <1>8 DEF s

ShortKinds == {"word", "long", "cast", "str"}
AllKinds == ShortKinds \cup {"data"}

(* One word holds less than two.                                           *)
LEMMA PowersGrow ==
    Modulus \in Nat /\ Powers[2 * Word] \in Nat /\ Modulus <= Powers[2 * Word]
<1> DEFINE T == {k \in Nat : k <= Word => Powers[Word] <= Powers[Word + k]}
<1>0. Word \in Nat /\ 2 * Word \in Nat /\ Base \in Nat /\ Base >= 2 BY WordFacts
<1>1. \A k \in 0 .. 2 * Word : Powers[k] \in Nat BY PowersPositive
<1>2. 0 \in T BY <1>0, <1>1
<1>3. ASSUME NEW k \in T \cap Nat PROVE k + 1 \in T
  <2> SUFFICES ASSUME k + 1 <= Word PROVE Powers[Word] <= Powers[Word + (k + 1)] OBVIOUS
  <2> DEFINE j == Word + k
  <2>1. j + 1 \in 1 .. 2 * Word /\ (j + 1) - 1 = j /\ j \in 0 .. 2 * Word /\ Word \in 0 .. 2 * Word
        /\ j + 1 = Word + (k + 1)
    BY <1>0
  <2>2. Powers[j + 1] = Base * Powers[j] BY <1>0, <2>1, PowersSteps
  <2>3. Powers[Word] <= Powers[j] BY <1>0
  <2> HIDE DEF j
  <2>4. Powers[j] \in Nat /\ Powers[Word] \in Nat BY <1>1, <2>1
  <2>5. Base * Powers[j] >= Powers[j] BY <1>0, <2>4
  <2>6. Powers[Word + (k + 1)] = Powers[j + 1] BY <2>1
  <2>7. Base * Powers[j] \in Nat BY <1>0, <2>4
  <2> QED BY <2>2, <2>3, <2>4, <2>5, <2>6, <2>7
<1> HIDE DEF T
<1>4. Nat \subseteq T BY <1>2, <1>3, InductionOnSets
<1>5. Powers[Word] <= Powers[Word + Word] BY <1>0, <1>4 DEF T
<1>6. Word + Word = 2 * Word /\ Word \in 0 .. 2 * Word /\ 2 * Word \in 0 .. 2 * Word BY <1>0
<1> QED BY <1>1, <1>5, <1>6 DEF Modulus

(* What a number of a packet is sent as *)
LEMMA NumberSent ==
    ASSUME NEW kind \in {"word", "long", "cast"}, NEW v, NEW p, Fits(kind, v, p)
    PROVE  LET n == IF kind = "word" THEN Word ELSE 2 * Word IN
           /\ n \in 0 .. 2 * Word /\ v \in 0 .. Powers[n] - 1
           /\ Encoded(kind, v) = Digits(v, n)
<1>0. Word \in 0 .. 2 * Word /\ 2 * Word \in 0 .. 2 * Word BY WordFacts
<1>1. CASE kind = "word"
  BY <1>0, <1>1 DEF Fits, Encoded, Modulus
<1>2. CASE kind = "long"
  BY <1>0, <1>2 DEF Fits, Encoded
<1>3. CASE kind = "cast"
  <2>1. v \in 0 .. Modulus \div 2 - 1 BY <1>3 DEF Fits
  <2>2. Modulus \in Nat /\ Powers[2 * Word] \in Nat /\ Modulus <= Powers[2 * Word] BY PowersGrow
  <2>3. v \in Nat /\ v < Modulus \div 2 /\ v < Modulus BY <2>1, <2>2
  <2>4. v % Modulus = v
    <3>1. v = Modulus * 0 + v /\ Modulus \in Nat \ {0} BY <2>2, <2>3
    <3>2. v \div Modulus = 0 BY <2>2, <2>3, <3>1, Quotient
    <3>3. v = Modulus * (v \div Modulus) + (v % Modulus) BY <2>3, <3>1
    <3>4. v % Modulus \in Nat BY <2>3, <3>1
    <3> QED BY <2>3, <3>2, <3>3, <3>4, <2>2
  <2>5. Cast(v) = v BY <2>3, <2>4 DEF Cast
  <2>6. v \in 0 .. Powers[2 * Word] - 1 BY <2>2, <2>3
  <2> QED BY <1>0, <1>3, <2>5, <2>6 DEF Encoded
<1> QED BY <1>1, <1>2, <1>3

LEMMA OctetFacts == 0 \in Octet /\ 1 .. Base - 1 \subseteq Octet /\ 0 \notin 1 .. Base - 1
  BY WordFacts DEF Octet

(* Where the elements of two sequences are when they are joined            *)
Joined(S, a, b, s) ==
    /\ s \in Seq(S) /\ Len(s) = Len(a) + Len(b)
    /\ \A i \in 1 .. Len(a) : s[i] = a[i]
    /\ \A i \in 1 .. Len(b) : s[Len(a) + i] = b[i]

LEMMA ConcatTwo ==
    ASSUME NEW S, NEW a \in Seq(S), NEW b \in Seq(S)
    PROVE  Joined(S, a, b, a \o b)
<1> DEFINE k == Len(a)
           l == Len(b)
           s == a \o b
<1>1. \A i \in 1 .. k + l : s[i] = IF i <= k THEN a[i] ELSE b[i - k] BY ConcatProperties
<1>2. s \in Seq(S) /\ Len(s) = k + l BY ConcatProperties
<1>3. k \in Nat /\ l \in Nat OBVIOUS
<1> HIDE DEF k, l, s
<1>4. ASSUME NEW i \in 1 .. k PROVE s[i] = a[i]
  <2>1. i \in 1 .. k + l /\ i <= k BY <1>3
  <2> QED BY <1>1, <2>1
<1>5. ASSUME NEW i \in 1 .. l PROVE s[k + i] = b[i]
  <2>1. k + i \in 1 .. k + l /\ ~ (k + i <= k) /\ (k + i) - k = i BY <1>3
  <2> QED BY <1>1, <2>1
<1>6. Joined(S, a, b, s) BY <1>2, <1>4, <1>5 DEF Joined, k, l
<1> QED BY <1>6 DEF s

(* What a field is sent as                                                 *)
LEMMA EncodedType ==
    ASSUME NEW kind \in AllKinds, NEW v, NEW p, Fits(kind, v, p)
    PROVE  /\ Encoded(kind, v) \in Seq(Octet)
           /\ kind = "word" => Len(Encoded(kind, v)) = Word
           /\ kind \in {"long", "cast"} => Len(Encoded(kind, v)) = 2 * Word
           /\ kind = "str" => /\ v \in Seq(1 .. Base - 1) /\ Encoded(kind, v) = v \o <<0>>
                              /\ Len(Encoded(kind, v)) = Len(v) + 1
                              /\ \A i \in 1 .. Len(v) : Encoded(kind, v)[i] = v[i]
                              /\ Encoded(kind, v)[Len(v) + 1] = 0
           /\ kind = "data" => v \in Seq(Octet) /\ Encoded(kind, v) = v /\ Len(v) = DataLength(p)
<1>1. CASE kind \in {"word", "long", "cast"}
  <2> DEFINE n == IF kind = "word" THEN Word ELSE 2 * Word
  <2>1. n \in 0 .. 2 * Word /\ v \in 0 .. Powers[n] - 1 /\ Encoded(kind, v) = Digits(v, n)
    BY <1>1, NumberSent
  <2>2. Powers[n] \in Nat BY <2>1, PowersPositive
  <2>3. v \in Nat
    <3> HIDE DEF n
    <3> QED BY <2>1, <2>2
  <2>4. Digits(v, n) \in Seq(Octet) /\ Len(Digits(v, n)) = n
    <3> HIDE DEF n
    <3> QED BY <2>1, <2>3, DigitsType
  <2> QED BY <1>1, <2>1, <2>4
<1>2. CASE kind = "str"
  <2>1. v \in Seq(1 .. Base - 1) /\ Encoded(kind, v) = v \o <<0>> BY <1>2 DEF Fits, Encoded
  <2>2. v \in Seq(Octet) BY <2>1, OctetFacts, SeqMonotonic
  <2>3. <<0>> \in Seq(Octet) /\ Len(<<0>>) = 1 /\ <<0>>[1] = 0 BY OctetFacts
  <2> DEFINE z == <<0>>
  <2> HIDE DEF z
  <2>4. z \in Seq(Octet) /\ Len(z) = 1 /\ z[1] = 0 /\ Len(v) \in Nat BY <2>2, <2>3 DEF z
  <2> DEFINE vz == v \o z
  <2>5. /\ vz \in Seq(Octet) /\ Len(vz) = Len(v) + Len(z)
        /\ \A i \in 1 .. Len(v) : vz[i] = v[i]
        /\ \A i \in 1 .. Len(z) : vz[Len(v) + i] = z[i]
    <3>1. Joined(Octet, v, z, vz) BY <2>2, <2>4, ConcatTwo
    <3> HIDE DEF vz
    <3> QED BY <3>1 DEF Joined
  <2> HIDE DEF vz
  <2>6. Len(vz) = Len(v) + 1 /\ vz[Len(v) + 1] = 0 BY <2>4, <2>5
  <2>7. Encoded(kind, v) = vz BY <2>1 DEF vz, z
  <2> QED BY <1>2, <2>1, <2>5, <2>6, <2>7
<1>3. CASE kind = "data"
  <2>1. v \in Seq(Octet) /\ Len(v) = DataLength(p) /\ Encoded(kind, v) = v
    BY <1>3 DEF Fits, Encoded, Octet
  <2> QED BY <1>3, <2>1
<1> QED BY <1>1, <1>2, <1>3 DEF AllKinds, ShortKinds

-----------------------------------------------------------------------------
(* One field *)

(* s begins like t, as far as both go *)
Alike(s, t) == \A i \in 1 .. Len(s) : i <= Len(t) => s[i] = t[i]

LEMMA AlikeBegins ==
    ASSUME NEW s \in Seq(Octet), NEW t \in Seq(Octet), Alike(s, t), Len(t) <= Len(s)
    PROVE  SubSeq(s, 1, Len(t)) = t
<1>1. Len(s) \in Nat /\ Len(t) \in Nat /\ \A i \in 1 .. Len(t) : s[i] \in Octet /\ s[i] = t[i]
  BY DEF Alike
<1>2. /\ SubSeq(s, 1, Len(t)) \in Seq(Octet) /\ Len(SubSeq(s, 1, Len(t))) = Len(t)
      /\ \A i \in 1 .. Len(t) : SubSeq(s, 1, Len(t))[i] = t[i]
  BY <1>1
<1> QED BY <1>2, SeqEqual

(* A string ends at its zero byte, which is its first. *)
LEMMA StringEnds ==
    ASSUME NEW s \in Seq(Octet), NEW v \in Seq(1 .. Base - 1), NEW e \in Seq(Octet),
           Len(e) = Len(v) + 1, \A i \in 1 .. Len(v) : e[i] = v[i], e[Len(v) + 1] = 0, Alike(s, e)
    PROVE  IF Len(v) + 1 <= Len(s)
           THEN Zeros(s) # {} /\ FirstZero(s) = Len(v) + 1
           ELSE Zeros(s) = {}
<1>0. Len(s) \in Nat /\ Len(v) \in Nat /\ \A i \in 1 .. Len(v) : v[i] # 0
  <2>1. \A i \in 1 .. Len(v) : v[i] \in 1 .. Base - 1 BY ElementOfSeq
  <2>2. \A i \in 1 .. Len(v) : v[i] # 0 BY <2>1, OctetFacts, Zenon
  <2> QED BY <2>2
<1>1. \A i \in 1 .. Len(s) : i <= Len(v) => s[i] # 0 BY <1>0 DEF Alike
<1>2. CASE Len(v) + 1 <= Len(s)
  <2>1. s[Len(v) + 1] = 0 BY <1>0, <1>2 DEF Alike
  <2>2. Len(v) + 1 \in Zeros(s) BY <1>0, <1>2, <2>1 DEF Zeros
  <2>3. \A j \in Zeros(s) : j \in Nat /\ Len(v) + 1 <= j BY <1>0, <1>1 DEF Zeros
  <2>4. \A i \in Zeros(s) : (\A j \in Zeros(s) : i <= j) => i = Len(v) + 1
    BY <1>0, <2>2, <2>3
  <2>5. FirstZero(s) = Len(v) + 1 BY <2>2, <2>3, <2>4 DEF FirstZero
  <2> QED BY <1>2, <2>2, <2>5
<1>3. CASE ~ (Len(v) + 1 <= Len(s))
  <2>1. Zeros(s) = {} BY <1>0, <1>1, <1>3 DEF Zeros
  <2> QED BY <1>3, <2>1
<1> QED BY <1>2, <1>3

(* A field is decoded if all of it has come, and as it was. *)
LEMMA FieldDecoded ==
    ASSUME NEW kind \in AllKinds, NEW v, NEW p, Fits(kind, v, p),
           NEW s \in Seq(Octet), Alike(s, Encoded(kind, v)),
           NEW n, kind = "data" => n = Len(v)
    PROVE  IF Len(Encoded(kind, v)) <= Len(s)
           THEN Wanted(kind, s, n) = Len(Encoded(kind, v)) /\ Decoded(kind, s, n) = v
           ELSE /\ Wanted(kind, s, n) \in Nat /\ Wanted(kind, s, n) > Len(s)
                /\ Decoded(kind, s, n) = NotRead
<1> DEFINE e == Encoded(kind, v)
           w == Wanted(kind, s, n)
<1>0. e \in Seq(Octet) /\ Len(e) \in Nat /\ Len(s) \in Nat BY EncodedType
<1>1. CASE kind \in {"word", "long", "cast"}
  <2> DEFINE m == IF kind = "word" THEN Word ELSE 2 * Word
  <2>1. m \in 0 .. 2 * Word /\ v \in 0 .. Powers[m] - 1 /\ e = Digits(v, m) BY <1>1, NumberSent
  <2>2. w = m BY <1>1 DEF Wanted
  <2>3. Len(e) = m BY <1>1, EncodedType
  <2>4. CASE Len(e) <= Len(s)
    <3>1. SubSeq(s, 1, m) = e BY <1>0, <2>3, <2>4, AlikeBegins
    <3>2. Number(e) = v
      <4> HIDE DEF m, e
      <4> QED BY <2>1, NumberOfDigits
    <3>3. ~ (w > Len(s)) BY <1>0, <2>2, <2>3, <2>4
    <3>4. Decoded(kind, s, n) = Number(SubSeq(s, 1, w)) BY <1>1, <3>3 DEF Decoded
    <3> QED BY <2>2, <2>3, <2>4, <3>1, <3>2, <3>4
  <2>5. CASE ~ (Len(e) <= Len(s))
    <3>1. w > Len(s) /\ w \in Nat BY <1>0, <2>2, <2>3, <2>5
    <3>2. Decoded(kind, s, n) = NotRead BY <1>1, <3>1 DEF Decoded
    <3> QED BY <2>5, <3>1, <3>2
  <2> QED BY <2>4, <2>5
<1>2. CASE kind = "str"
  <2>1. /\ v \in Seq(1 .. Base - 1) /\ Len(e) = Len(v) + 1
        /\ \A i \in 1 .. Len(v) : e[i] = v[i]
        /\ e[Len(v) + 1] = 0
    BY <1>2, EncodedType
  <2>2. IF Len(v) + 1 <= Len(s)
        THEN Zeros(s) # {} /\ FirstZero(s) = Len(v) + 1
        ELSE Zeros(s) = {}
    BY <1>0, <2>1, StringEnds
  <2>3. CASE Len(e) <= Len(s)
    <3>1. w = Len(v) + 1 /\ FirstZero(s) = Len(v) + 1 BY <1>2, <2>1, <2>2, <2>3 DEF Wanted
    <3>2. ~ (w > Len(s)) BY <1>0, <2>1, <2>3, <3>1
    <3>3. Decoded(kind, s, n) = SubSeq(s, 1, FirstZero(s) - 1) BY <1>2, <3>2 DEF Decoded
    <3>4. Len(v) \in Nat /\ FirstZero(s) - 1 = Len(v) BY <2>1, <3>1
    <3>5. v \in Seq(Octet) BY <2>1, OctetFacts, SeqMonotonic
    <3>6. Alike(s, v) /\ Len(v) <= Len(s) BY <1>0, <2>1, <2>3, <3>4 DEF Alike
    <3>7. SubSeq(s, 1, Len(v)) = v BY <3>5, <3>6, AlikeBegins
    <3> QED BY <2>1, <2>3, <3>1, <3>3, <3>4, <3>7
  <2>4. CASE ~ (Len(e) <= Len(s))
    <3>1. Zeros(s) = {} BY <2>1, <2>2, <2>4
    <3>2. w = Len(s) + 2 BY <1>2, <3>1 DEF Wanted
    <3>3. w > Len(s) /\ w \in Nat BY <1>0, <3>2
    <3>4. Decoded(kind, s, n) = NotRead BY <1>2, <3>3 DEF Decoded
    <3> QED BY <2>4, <3>3, <3>4
  <2> QED BY <2>3, <2>4
<1>3. CASE kind = "data"
  <2>1. v \in Seq(Octet) /\ e = v BY <1>3, EncodedType
  <2>2. w = Len(v) BY <1>3 DEF Wanted
  <2>3. CASE Len(e) <= Len(s)
    <3>1. ~ (w > Len(s)) BY <1>0, <2>1, <2>2, <2>3
    <3>2. Decoded(kind, s, n) = SubSeq(s, 1, w) BY <1>3, <3>1 DEF Decoded
    <3>3. SubSeq(s, 1, Len(v)) = v BY <2>1, <2>3, AlikeBegins
    <3> QED BY <2>1, <2>2, <2>3, <3>2, <3>3
  <2>4. CASE ~ (Len(e) <= Len(s))
    <3>1. w > Len(s) /\ w \in Nat BY <1>0, <2>1, <2>2, <2>4
    <3>2. Decoded(kind, s, n) = NotRead BY <1>3, <3>1 DEF Decoded
    <3> QED BY <2>4, <3>1, <3>2
  <2> QED BY <2>3, <2>4
<1> QED BY <1>1, <1>2, <1>3 DEF AllKinds, ShortKinds

-----------------------------------------------------------------------------
(* The fields of a packet *)

(* The number of fields before a stage *)
FieldsBefore(p, stage) ==
    IF stage = 1 THEN 0
    ELSE IF stage = 2 THEN Len(Kinds(1, p))
    ELSE IF stage = 3 THEN Len(Kinds(1, p)) + Len(Kinds(2, p))
    ELSE IF stage = 4 THEN Len(Kinds(1, p)) + Len(Kinds(2, p)) + Len(Kinds(3, p))
    ELSE Len(Kinds(1, p)) + Len(Kinds(2, p)) + Len(Kinds(3, p)) + Len(Kinds(4, p))

(* The sequences of kinds there are *)
LEMMA Tuples ==
    /\ << >> \in Seq(ShortKinds) /\ Len(<< >>) = 0
    /\ <<"word">> \in Seq(ShortKinds) /\ Len(<<"word">>) = 1
    /\ <<"cast">> \in Seq(ShortKinds) /\ Len(<<"cast">>) = 1
    /\ <<"long">> \in Seq(ShortKinds) /\ Len(<<"long">>) = 1
    /\ <<"word", "word">> \in Seq(ShortKinds) /\ Len(<<"word", "word">>) = 2
    /\ <<"word", "str">> \in Seq(ShortKinds) /\ Len(<<"word", "str">>) = 2
    /\ <<"str", "str">> \in Seq(ShortKinds) /\ Len(<<"str", "str">>) = 2
    /\ <<"word", "str", "str", "str">> \in Seq(ShortKinds) /\ Len(<<"word", "str", "str", "str">>) = 4
    /\ <<"word", "long", "long", "long">> \in Seq(ShortKinds) /\ Len(<<"word", "long", "long", "long">>) = 4
    /\ <<"data">> \in Seq(AllKinds) /\ Len(<<"data">>) = 1 /\ <<"data">>[1] = "data"
  BY DEF ShortKinds, AllKinds

LEMMA HasKinds ==
    ASSUME NEW type, NEW types, NEW kinds \in Seq(ShortKinds)
    PROVE  Has(type, types, kinds) \in Seq(ShortKinds)
  BY Tuples DEF Has

LEMMA ConcatSize ==
    ASSUME NEW S, NEW s \in Seq(S), NEW t \in Seq(S)
    PROVE  (s \o t) \in Seq(S) /\ Len(s \o t) = Len(s) + Len(t)
  BY ConcatProperties

LEMMA RequestKindsType ==
    ASSUME NEW type
    PROVE  RequestKinds(type) \in Seq(ShortKinds)
<1> DEFINE a == Has(type, {ACCESS, CHMOD, CREATE, OPEN}, <<"word">>)
           b == Has(type, {READLINK, TRUNCATE, READ, WRITE}, <<"cast">>)
           c == Has(type, {SYMLINK, RENAME}, <<"str", "str">>)
           d == Has(type, {READ, WRITE}, <<"cast">>)
<1>1. a \in Seq(ShortKinds) /\ b \in Seq(ShortKinds) /\ c \in Seq(ShortKinds) /\ d \in Seq(ShortKinds)
  BY HasKinds, Tuples, Zenon
<1>2. RequestKinds(type) = ((a \o b) \o c) \o d BY Zenon DEF RequestKinds
<1> HIDE DEF a, b, c, d
<1> QED BY <1>1, <1>2

(* A write request has a size and an offset. *)
LEMMA WriteKinds == Len(RequestKinds(WRITE)) = 2
<1>1. /\ Has(WRITE, {ACCESS, CHMOD, CREATE, OPEN}, <<"word">>) = << >>
      /\ Has(WRITE, {READLINK, TRUNCATE, READ, WRITE}, <<"cast">>) = <<"cast">>
      /\ Has(WRITE, {SYMLINK, RENAME}, <<"str", "str">>) = << >>
      /\ Has(WRITE, {READ, WRITE}, <<"cast">>) = <<"cast">>
  BY DEF Has, WRITE, ACCESS, CHMOD, CREATE, OPEN, READLINK, TRUNCATE, READ, SYMLINK, RENAME
<1>2. RequestKinds(WRITE) = ((<< >> \o <<"cast">>) \o << >>) \o <<"cast">>
  BY <1>1, Zenon DEF RequestKinds
<1> DEFINE z == << >>
           c == <<"cast">>
<1>3. z \in Seq(ShortKinds) /\ Len(z) = 0 /\ c \in Seq(ShortKinds) /\ Len(c) = 1 BY Tuples
<1>4. RequestKinds(WRITE) = ((z \o c) \o z) \o c BY <1>2
<1> HIDE DEF z, c
<1>5. (z \o c) \in Seq(ShortKinds) /\ Len(z \o c) = 0 + 1 BY <1>3, ConcatSize, Zenon
<1>6. ((z \o c) \o z) \in Seq(ShortKinds) /\ Len((z \o c) \o z) = (0 + 1) + 0
  BY <1>3, <1>5, ConcatSize, Zenon
<1>7. Len(((z \o c) \o z) \o c) = ((0 + 1) + 0) + 1
  <2> DEFINE y == (z \o c) \o z
  <2>1. y \in Seq(ShortKinds) /\ Len(y) = (0 + 1) + 0 BY <1>6
  <2> HIDE DEF y
  <2>2. Len(y \o c) = Len(y) + Len(c) BY <1>3, <2>1, ConcatSize, Zenon
  <2>3. Len(y \o c) = ((0 + 1) + 0) + 1 BY <1>3, <2>1, <2>2, Zenon
  <2> QED BY <2>3 DEF y
<1>8. Len(RequestKinds(WRITE)) = ((0 + 1) + 0) + 1 BY <1>4, <1>7, Zenon
<1> QED BY <1>8

LEMMA ResponseKindsType ==
    ASSUME NEW type \in {OK, DATA, STAT, DIR, ERROR}
    PROVE  /\ ResponseKinds(type) \in Seq(ShortKinds)
           /\ type \in {DATA, DIR} => Len(ResponseKinds(type)) = 1
<1>1. CASE type = OK
  <2>1. ResponseKinds(type) = << >>
    BY <1>1 DEF ResponseKinds, OK, DATA, STAT, DIR, ERROR
  <2>2. type \notin {DATA, DIR} BY <1>1 DEF OK, DATA, DIR
  <2> QED BY <2>1, <2>2, Tuples, Zenon
<1>2. CASE type \in {DATA, DIR}
  <2>1. ResponseKinds(type) = <<"long">>
    BY <1>2 DEF ResponseKinds, OK, DATA, STAT, DIR, ERROR
  <2> QED BY <2>1, Tuples, Zenon
<1>3. CASE type = STAT
  <2>1. ResponseKinds(type) = <<"word", "long", "long", "long">>
    BY <1>3 DEF ResponseKinds, OK, DATA, STAT, DIR, ERROR
  <2>2. type \notin {DATA, DIR} BY <1>3 DEF STAT, DATA, DIR
  <2> QED BY <2>1, <2>2, Tuples, Zenon
<1>4. CASE type = ERROR
  <2>1. ResponseKinds(type) = <<"word">>
    BY <1>4 DEF ResponseKinds, OK, DATA, STAT, DIR, ERROR
  <2>2. type \notin {DATA, DIR} BY <1>4 DEF ERROR, DATA, DIR
  <2> QED BY <2>1, <2>2, Tuples, Zenon
<1> QED BY <1>1, <1>2, <1>3, <1>4

(* The stages of a packet: what fields they may have, what the ones that    *)
(* the others depend on are, and where they are                            *)
LEMMA StageKinds ==
    ASSUME NEW p, Packet(p)
    PROVE  /\ \A stage \in 1 .. 3 : Kinds(stage, p) \in Seq(ShortKinds)
           /\ Kinds(4, p) \in Seq(AllKinds)
           /\ Len(Kinds(1, p)) = 2 /\ Len(Kinds(2, p)) >= 1
           /\ p[2] = REQUEST => Len(Kinds(2, p)) = 4
           /\ p[2] = REQUEST /\ p[3] = WRITE => Len(Kinds(3, p)) = 2
           /\ p[2] = RESPONSE /\ p[3] \in {DATA, DIR} => Len(Kinds(3, p)) = 1
           /\ \/ Kinds(4, p) \in Seq(ShortKinds)
              \/ /\ Kinds(4, p) = <<"data">>
                 /\ \/ p[2] = REQUEST /\ p[3] = WRITE
                    \/ p[2] = RESPONSE /\ p[3] = DATA
<1>0. /\ p[2] \in {CONNECT, REQUEST, RESPONSE}
      /\ p[2] = RESPONSE => p[3] \in {OK, DATA, STAT, DIR, ERROR}
      /\ p[2] = RESPONSE /\ p[3] = DIR => p[4] \in Nat
  BY DEF Packet
<1>1. Kinds(1, p) = <<"word", "word">> BY DEF Kinds
<1>2. Kinds(1, p) \in Seq(ShortKinds) /\ Len(Kinds(1, p)) = 2 BY <1>1, Tuples
<1>3. CASE p[2] = CONNECT
  <2>1. Kinds(2, p) = <<"word", "str">> /\ Kinds(3, p) = << >> /\ Kinds(4, p) = << >>
    BY <1>3 DEF Kinds, CONNECT, REQUEST, RESPONSE
  <2>2. Kinds(2, p) \in Seq(ShortKinds) /\ Len(Kinds(2, p)) = 2 BY <2>1, Tuples
  <2>3. Kinds(3, p) \in Seq(ShortKinds) /\ Kinds(4, p) \in Seq(ShortKinds) BY <2>1, Tuples
  <2>4. p[2] # REQUEST /\ p[2] # RESPONSE BY <1>3 DEF CONNECT, REQUEST, RESPONSE
  <2>5. Seq(ShortKinds) \subseteq Seq(AllKinds) BY SeqMonotonic DEF AllKinds
  <2>6. Len(Kinds(2, p)) >= 1 BY <2>2
  <2>7. \A stage \in 1 .. 3 : Kinds(stage, p) \in Seq(ShortKinds) BY <1>2, <2>2, <2>3
  <2> QED BY <1>2, <2>3, <2>4, <2>5, <2>6, <2>7, Zenon
<1>4. CASE p[2] = REQUEST
  <2>1. Kinds(2, p) = <<"word", "str", "str", "str">> /\ Kinds(3, p) = RequestKinds(p[3])
    BY <1>4 DEF Kinds, CONNECT, REQUEST, RESPONSE
  <2>2. Kinds(4, p) = IF p[3] = WRITE THEN <<"data">> ELSE << >>
    BY <1>4 DEF Kinds, CONNECT, REQUEST, RESPONSE
  <2>3. Kinds(2, p) \in Seq(ShortKinds) /\ Len(Kinds(2, p)) = 4 BY <2>1, Tuples
  <2>4. Kinds(3, p) \in Seq(ShortKinds) BY <2>1, RequestKindsType
  <2>5. p[3] = WRITE => Len(Kinds(3, p)) = 2 BY <2>1, WriteKinds
  <2>6. /\ Kinds(4, p) \in Seq(AllKinds)
        /\ \/ Kinds(4, p) \in Seq(ShortKinds)
           \/ Kinds(4, p) = <<"data">> /\ p[3] = WRITE
    <3>1. Seq(ShortKinds) \subseteq Seq(AllKinds) BY SeqMonotonic DEF AllKinds
    <3> QED BY <2>2, <3>1, Tuples, Zenon
  <2>7. p[2] # RESPONSE BY <1>4 DEF REQUEST, RESPONSE
  <2>8. Len(Kinds(2, p)) >= 1 BY <2>3
  <2>9. \A stage \in 1 .. 3 : Kinds(stage, p) \in Seq(ShortKinds) BY <1>2, <2>3, <2>4
  <2> QED BY <1>2, <1>4, <2>3, <2>5, <2>6, <2>7, <2>8, <2>9, Zenon
<1>5. CASE p[2] = RESPONSE
  <2>1. Kinds(2, p) = <<"word">> /\ Kinds(3, p) = ResponseKinds(p[3])
    BY <1>5 DEF Kinds, CONNECT, REQUEST, RESPONSE
  <2>2. Kinds(2, p) \in Seq(ShortKinds) /\ Len(Kinds(2, p)) = 1 BY <2>1, Tuples
  <2>3. /\ Kinds(3, p) \in Seq(ShortKinds)
        /\ p[3] \in {DATA, DIR} => Len(Kinds(3, p)) = 1
    BY <1>0, <1>5, <2>1, ResponseKindsType
  <2>4. /\ Kinds(4, p) \in Seq(AllKinds)
        /\ \/ Kinds(4, p) \in Seq(ShortKinds)
           \/ Kinds(4, p) = <<"data">> /\ p[3] = DATA
    <3>1. Seq(ShortKinds) \subseteq Seq(AllKinds) BY SeqMonotonic DEF AllKinds
    <3>2. CASE p[3] = DATA
      <4>1. Kinds(4, p) = <<"data">>
        BY <1>5, <3>2 DEF Kinds, CONNECT, REQUEST, RESPONSE, DATA, DIR
      <4> QED BY <3>2, <4>1, Tuples, Zenon
    <3>3. CASE p[3] = DIR
      <4>1. Kinds(4, p) = [i \in 1 .. 2 * p[4] |-> IF i % 2 = 1 THEN "str" ELSE "word"]
        BY <1>5, <3>3 DEF Kinds, CONNECT, REQUEST, RESPONSE, DATA, DIR
      <4>2. 2 * p[4] \in Nat BY <1>0, <1>5, <3>3
      <4>3. Kinds(4, p) \in Seq(ShortKinds) BY <4>1, <4>2 DEF ShortKinds
      <4> QED BY <3>1, <4>3, Zenon
    <3>4. CASE p[3] \notin {DATA, DIR}
      <4>1. Kinds(4, p) = << >>
        BY <1>5, <3>4 DEF Kinds, CONNECT, REQUEST, RESPONSE
      <4> QED BY <3>1, <4>1, Tuples, Zenon
    <3> QED BY <3>2, <3>3, <3>4
  <2>5. p[2] # REQUEST BY <1>5 DEF REQUEST, RESPONSE
  <2>6. Len(Kinds(2, p)) >= 1
    <3> DEFINE l == Len(Kinds(2, p))
    <3>1. l = 1 BY <2>2
    <3> HIDE DEF l
    <3>2. l >= 1 BY <3>1
    <3> QED BY <3>2 DEF l
  <2>7. \A stage \in 1 .. 3 : Kinds(stage, p) \in Seq(ShortKinds) BY <1>2, <2>2, <2>3
  <2>8. /\ p[2] = REQUEST => Len(Kinds(2, p)) = 4
        /\ p[2] = REQUEST /\ p[3] = WRITE => Len(Kinds(3, p)) = 2
    BY <2>5, Zenon
  <2>9. \/ Kinds(4, p) \in Seq(ShortKinds)
        \/ /\ Kinds(4, p) = <<"data">>
           /\ \/ p[2] = REQUEST /\ p[3] = WRITE
              \/ p[2] = RESPONSE /\ p[3] = DATA
    BY <1>5, <2>4, Zenon
  <2>10. Kinds(4, p) \in Seq(AllKinds) BY <2>4, Zenon
  <2>11. p[2] = RESPONSE /\ p[3] \in {DATA, DIR} => Len(Kinds(3, p)) = 1 BY <2>3, Zenon
  <2> QED BY <1>2, <2>6, <2>7, <2>8, <2>9, <2>10, <2>11, Zenon
<1> QED BY <1>0, <1>3, <1>4, <1>5

(* Where the elements of four sequences are when they are joined           *)
LEMMA ConcatFour ==
    ASSUME NEW S, NEW a \in Seq(S), NEW b \in Seq(S), NEW c \in Seq(S), NEW d \in Seq(S),
           NEW s, s = ((a \o b) \o c) \o d
    PROVE  /\ s \in Seq(S)
           /\ Len(s) = Len(a) + Len(b) + Len(c) + Len(d)
           /\ \A i \in 1 .. Len(a) : s[i] = a[i]
           /\ \A i \in 1 .. Len(b) : s[Len(a) + i] = b[i]
           /\ \A i \in 1 .. Len(c) : s[Len(a) + Len(b) + i] = c[i]
           /\ \A i \in 1 .. Len(d) : s[Len(a) + Len(b) + Len(c) + i] = d[i]
<1>0. Len(a) \in Nat /\ Len(b) \in Nat /\ Len(c) \in Nat /\ Len(d) \in Nat OBVIOUS
<1> DEFINE ab == a \o b
           abc == ab \o c
<1>1. /\ ab \in Seq(S) /\ Len(ab) = Len(a) + Len(b)
      /\ \A i \in 1 .. Len(a) : ab[i] = a[i]
      /\ \A i \in 1 .. Len(b) : ab[Len(a) + i] = b[i]
  <2>1. Joined(S, a, b, ab) BY ConcatTwo
  <2> HIDE DEF ab
  <2> QED BY <2>1 DEF Joined
<1>2. /\ abc \in Seq(S) /\ Len(abc) = Len(ab) + Len(c)
      /\ \A i \in 1 .. Len(ab) : abc[i] = ab[i]
      /\ \A i \in 1 .. Len(c) : abc[Len(ab) + i] = c[i]
  <2> HIDE DEF ab
  <2>1. Joined(S, ab, c, abc) BY <1>1, ConcatTwo
  <2> HIDE DEF abc
  <2> QED BY <2>1 DEF Joined
<1>3. /\ s \in Seq(S) /\ Len(s) = Len(abc) + Len(d)
      /\ \A i \in 1 .. Len(abc) : s[i] = abc[i]
      /\ \A i \in 1 .. Len(d) : s[Len(abc) + i] = d[i]
  <2>1. s = abc \o d OBVIOUS
  <2> HIDE DEF abc
  <2>2. Joined(S, abc, d, s) BY <1>2, <2>1, ConcatTwo
  <2> QED BY <2>2 DEF Joined
<1> HIDE DEF ab, abc
<1>4. Len(ab) \in Nat /\ Len(abc) \in Nat BY <1>0, <1>1, <1>2
<1>5. Len(ab) = Len(a) + Len(b) /\ Len(abc) = Len(a) + Len(b) + Len(c) BY <1>0, <1>1, <1>2
<1>6. ASSUME NEW i \in 1 .. Len(a) PROVE s[i] = a[i]
  <2>1. i \in 1 .. Len(ab) /\ i \in 1 .. Len(abc) BY <1>0, <1>5
  <2> QED BY <1>1, <1>2, <1>3, <2>1
<1>7. ASSUME NEW i \in 1 .. Len(b) PROVE s[Len(a) + i] = b[i]
  <2>1. Len(a) + i \in 1 .. Len(ab) /\ Len(a) + i \in 1 .. Len(abc) BY <1>0, <1>5
  <2> QED BY <1>1, <1>2, <1>3, <2>1
<1>8. ASSUME NEW i \in 1 .. Len(c) PROVE s[Len(a) + Len(b) + i] = c[i]
  <2>1. Len(ab) + i \in 1 .. Len(abc) /\ Len(a) + Len(b) + i = Len(ab) + i BY <1>0, <1>5
  <2>2. s[Len(ab) + i] = c[i] BY <1>2, <1>3, <2>1
  <2> QED BY <2>1, <2>2
<1>9. ASSUME NEW i \in 1 .. Len(d) PROVE s[Len(a) + Len(b) + Len(c) + i] = d[i]
  <2>1. Len(a) + Len(b) + Len(c) + i = Len(abc) + i BY <1>0, <1>5
  <2>2. s[Len(abc) + i] = d[i] BY <1>3
  <2> QED BY <2>1, <2>2
<1>10. Len(s) = Len(a) + Len(b) + Len(c) + Len(d) BY <1>0, <1>3, <1>5
<1> QED BY <1>3, <1>6, <1>7, <1>8, <1>9, <1>10

(* Where the fields of a stage are *)
LEMMA StagePlaces ==
    ASSUME NEW p, Packet(p)
    PROVE  /\ Len(p) \in Nat /\ FieldsBefore(p, 1) = 0 /\ FieldsBefore(p, 5) = Len(p)
           /\ \A stage \in 1 .. 4 :
                /\ FieldsBefore(p, stage) \in Nat /\ Len(Kinds(stage, p)) \in Nat
                /\ FieldsBefore(p, stage + 1) = FieldsBefore(p, stage) + Len(Kinds(stage, p))
                /\ FieldsBefore(p, stage + 1) <= Len(p)
                /\ \A i \in 1 .. Len(Kinds(stage, p)) :
                     /\ Kinds(stage, p)[i] \in AllKinds
                     /\ KindsOf(p)[FieldsBefore(p, stage) + i] = Kinds(stage, p)[i]
           /\ \A i \in 1 .. Len(p) : KindsOf(p)[i] \in AllKinds
<1> DEFINE a == Kinds(1, p)
           b == Kinds(2, p)
           c == Kinds(3, p)
           d == Kinds(4, p)
           s == KindsOf(p)
<1>1. a \in Seq(AllKinds) /\ b \in Seq(AllKinds) /\ c \in Seq(AllKinds) /\ d \in Seq(AllKinds)
  <2>1. Seq(ShortKinds) \subseteq Seq(AllKinds) BY SeqMonotonic DEF AllKinds
  <2> QED BY <2>1, StageKinds
<1>2. s = ((a \o b) \o c) \o d BY DEF KindsOf
<1>3. /\ FieldsBefore(p, 1) = 0 /\ FieldsBefore(p, 2) = Len(a) /\ FieldsBefore(p, 3) = Len(a) + Len(b)
      /\ FieldsBefore(p, 4) = Len(a) + Len(b) + Len(c) /\ FieldsBefore(p, 5) = Len(a) + Len(b) + Len(c) + Len(d)
  BY DEF FieldsBefore
<1>4. Len(p) = Len(s) BY DEF Packet
<1> HIDE DEF a, b, c, d, s
<1>5. /\ s \in Seq(AllKinds)
      /\ Len(s) = Len(a) + Len(b) + Len(c) + Len(d)
      /\ \A i \in 1 .. Len(a) : s[i] = a[i]
      /\ \A i \in 1 .. Len(b) : s[Len(a) + i] = b[i]
      /\ \A i \in 1 .. Len(c) : s[Len(a) + Len(b) + i] = c[i]
      /\ \A i \in 1 .. Len(d) : s[Len(a) + Len(b) + Len(c) + i] = d[i]
  BY <1>1, <1>2, ConcatFour
<1>6. Len(a) \in Nat /\ Len(b) \in Nat /\ Len(c) \in Nat /\ Len(d) \in Nat /\ Len(s) \in Nat
  BY <1>1, <1>5
<1>7. /\ \A i \in 1 .. Len(a) : a[i] \in AllKinds
      /\ \A i \in 1 .. Len(b) : b[i] \in AllKinds
      /\ \A i \in 1 .. Len(c) : c[i] \in AllKinds
      /\ \A i \in 1 .. Len(d) : d[i] \in AllKinds
      /\ \A i \in 1 .. Len(s) : s[i] \in AllKinds
  BY <1>1, <1>5
<1>8. ASSUME NEW stage \in 1 .. 4
      PROVE  /\ FieldsBefore(p, stage) \in Nat /\ Len(Kinds(stage, p)) \in Nat
             /\ FieldsBefore(p, stage + 1) = FieldsBefore(p, stage) + Len(Kinds(stage, p))
             /\ FieldsBefore(p, stage + 1) <= Len(p)
             /\ \A i \in 1 .. Len(Kinds(stage, p)) :
                  /\ Kinds(stage, p)[i] \in AllKinds
                  /\ s[FieldsBefore(p, stage) + i] = Kinds(stage, p)[i]
  <2>1. CASE stage = 1
    <3>1. Kinds(stage, p) = a /\ FieldsBefore(p, stage) = 0 /\ FieldsBefore(p, stage + 1) = Len(a)
      BY <1>3, <2>1 DEF a
    <3>2. \A i \in 1 .. Len(a) : 0 + i = i OBVIOUS
    <3> QED BY <1>4, <1>5, <1>6, <1>7, <3>1, <3>2
  <2>2. CASE stage = 2
    <3>1. Kinds(stage, p) = b /\ FieldsBefore(p, stage) = Len(a) /\ FieldsBefore(p, stage + 1) = Len(a) + Len(b)
      BY <1>3, <2>2 DEF b
    <3> QED BY <1>4, <1>5, <1>6, <1>7, <3>1
  <2>3. CASE stage = 3
    <3>1. /\ Kinds(stage, p) = c /\ FieldsBefore(p, stage) = Len(a) + Len(b)
          /\ FieldsBefore(p, stage + 1) = Len(a) + Len(b) + Len(c)
      BY <1>3, <2>3 DEF c
    <3> QED BY <1>4, <1>5, <1>6, <1>7, <3>1
  <2>4. CASE stage = 4
    <3>1. /\ Kinds(stage, p) = d /\ FieldsBefore(p, stage) = Len(a) + Len(b) + Len(c)
          /\ FieldsBefore(p, stage + 1) = Len(a) + Len(b) + Len(c) + Len(d)
      BY <1>3, <2>4 DEF d
    <3> QED BY <1>4, <1>5, <1>6, <1>7, <3>1
  <2> QED BY <2>1, <2>2, <2>3, <2>4
<1> QED BY <1>3, <1>4, <1>5, <1>6, <1>7, <1>8 DEF s

(* Which fields come before a stage *)
LEMMA Starts ==
    ASSUME NEW p, Packet(p)
    PROVE  /\ \A stage \in 1 .. 5 : FieldsBefore(p, stage) \in Nat
           /\ FieldsBefore(p, 2) = 2 /\ FieldsBefore(p, 3) >= 3 /\ FieldsBefore(p, 4) >= 3
           /\ p[2] = REQUEST /\ p[3] = WRITE => FieldsBefore(p, 4) = 8
           /\ p[2] = RESPONSE /\ p[3] \in {DATA, DIR} => FieldsBefore(p, 4) >= 4
<1> DEFINE a == Len(Kinds(1, p))
           b == Len(Kinds(2, p))
           c == Len(Kinds(3, p))
<1>1. /\ a = 2 /\ b >= 1
      /\ p[2] = REQUEST => b = 4
      /\ p[2] = REQUEST /\ p[3] = WRITE => c = 2
      /\ p[2] = RESPONSE /\ p[3] \in {DATA, DIR} => c = 1
  BY StageKinds, Zenon
<1>2. a \in Nat /\ b \in Nat /\ c \in Nat BY StagePlaces
<1>3. /\ FieldsBefore(p, 1) = 0 /\ FieldsBefore(p, 2) = a /\ FieldsBefore(p, 3) = a + b /\ FieldsBefore(p, 4) = a + b + c
      /\ FieldsBefore(p, 5) = Len(p) /\ Len(p) \in Nat
  BY StagePlaces DEF FieldsBefore
<1> HIDE DEF a, b, c
<1>4. \A stage \in 1 .. 5 : FieldsBefore(p, stage) \in Nat
  <2> TAKE stage \in 1 .. 5
  <2>1. stage = 1 \/ stage = 2 \/ stage = 3 \/ stage = 4 \/ stage = 5 OBVIOUS
  <2>2. a + b \in Nat /\ a + b + c \in Nat /\ 0 \in Nat BY <1>2
  <2> QED BY <1>2, <1>3, <2>1, <2>2, Zenon
<1>5. p[2] = REQUEST /\ p[3] = WRITE => FieldsBefore(p, 4) = 8
  <2> SUFFICES ASSUME p[2] = REQUEST, p[3] = WRITE PROVE FieldsBefore(p, 4) = 8 OBVIOUS
  <2>1. a = 2 /\ b = 4 /\ c = 2 BY <1>1, Zenon
  <2> QED BY <1>3, <2>1
<1>6. p[2] = RESPONSE /\ p[3] \in {DATA, DIR} => FieldsBefore(p, 4) >= 4
  <2> SUFFICES ASSUME p[2] = RESPONSE, p[3] \in {DATA, DIR} PROVE FieldsBefore(p, 4) >= 4 OBVIOUS
  <2>1. a = 2 /\ b >= 1 /\ c = 1 BY <1>1, Zenon
  <2> QED BY <1>2, <1>3, <2>1
<1>7. FieldsBefore(p, 2) = 2 /\ FieldsBefore(p, 3) >= 3 /\ FieldsBefore(p, 4) >= 3 BY <1>1, <1>2, <1>3
<1> QED BY <1>4, <1>5, <1>6, <1>7

(* A stage is the same for a packet and for what has been decoded of it. *)
LEMMA SameKinds ==
    ASSUME NEW p, Packet(p), NEW stage \in 1 .. 4, NEW v,
           \A j \in 1 .. FieldsBefore(p, stage) : v[j] = p[j]
    PROVE  Kinds(stage, v) = Kinds(stage, p)
<1>0. p[2] \in {CONNECT, REQUEST, RESPONSE} BY DEF Packet
<1>1. CASE stage = 1
  BY <1>1 DEF Kinds
<1>2. CASE stage = 2
  <2>1. v[2] = p[2] BY <1>2, Starts
  <2> QED BY <1>0, <1>2, <2>1 DEF Kinds, CONNECT, REQUEST, RESPONSE
<1>3. CASE stage = 3
  <2>1. v[2] = p[2] /\ v[3] = p[3] BY <1>3, Starts
  <2>2. CASE p[2] = CONNECT
    BY <1>3, <2>1, <2>2 DEF Kinds, CONNECT, REQUEST, RESPONSE
  <2>3. CASE p[2] = REQUEST
    <3>1. Kinds(stage, v) = RequestKinds(v[3]) /\ Kinds(stage, p) = RequestKinds(p[3])
      BY <1>3, <2>1, <2>3 DEF Kinds, CONNECT, REQUEST, RESPONSE
    <3> QED BY <2>1, <3>1
  <2>4. CASE p[2] = RESPONSE
    <3>1. Kinds(stage, v) = ResponseKinds(v[3]) /\ Kinds(stage, p) = ResponseKinds(p[3])
      BY <1>3, <2>1, <2>4 DEF Kinds, CONNECT, REQUEST, RESPONSE
    <3> QED BY <2>1, <3>1
  <2> QED BY <1>0, <2>2, <2>3, <2>4
<1>4. CASE stage = 4
  <2>1. v[2] = p[2] /\ v[3] = p[3] BY <1>4, Starts
  <2>2. CASE p[2] = RESPONSE /\ p[3] = DIR
    <3>1. v[4] = p[4] BY <1>4, <2>2, Starts
    <3> QED BY <1>4, <2>1, <2>2, <3>1 DEF Kinds, CONNECT, REQUEST, RESPONSE, DATA, DIR
  <2>3. CASE ~ (p[2] = RESPONSE /\ p[3] = DIR)
    BY <1>0, <1>4, <2>1, <2>3 DEF Kinds, CONNECT, REQUEST, RESPONSE, DATA, DIR
  <2> QED BY <2>2, <2>3
<1> QED BY <1>1, <1>2, <1>3, <1>4

(* The data of a packet are its last field, and their length comes before. *)
LEMMA DataPlace ==
    ASSUME NEW p, Packet(p), NEW stage \in 1 .. 4, NEW i \in 1 .. Len(Kinds(stage, p)),
           Kinds(stage, p)[i] = "data"
    PROVE  /\ stage = 4 /\ i = 1
           /\ \A v : (\A j \in 1 .. FieldsBefore(p, 4) : v[j] = p[j]) => DataLength(v) = DataLength(p)
<1>1. "data" \notin ShortKinds BY DEF ShortKinds
<1>2. Kinds(stage, p) \notin Seq(ShortKinds)
  <2> SUFFICES ASSUME Kinds(stage, p) \in Seq(ShortKinds) PROVE FALSE OBVIOUS
  <2>1. Kinds(stage, p)[i] \in ShortKinds OBVIOUS
  <2> QED BY <1>1, <2>1
<1>3. stage = 4 BY <1>2, StageKinds
<1>4. /\ Kinds(4, p) = <<"data">>
      /\ \/ p[2] = REQUEST /\ p[3] = WRITE
         \/ p[2] = RESPONSE /\ p[3] = DATA
  BY <1>2, <1>3, StageKinds
<1>5. i = 1
  <2>1. Len(Kinds(4, p)) = 1 BY <1>4, Tuples, Zenon
  <2> QED BY <1>3, <2>1
<1>6. ASSUME NEW v, \A j \in 1 .. FieldsBefore(p, 4) : v[j] = p[j]
      PROVE  DataLength(v) = DataLength(p)
  <2>1. CASE p[2] = REQUEST /\ p[3] = WRITE
    <3>1. FieldsBefore(p, 4) = 8 BY <2>1, Starts
    <3>2. v[2] = p[2] /\ v[7] = p[7] BY <1>6, <3>1
    <3> QED BY <2>1, <3>2 DEF DataLength
  <2>2. CASE p[2] = RESPONSE /\ p[3] = DATA
    <3>1. FieldsBefore(p, 4) >= 4 /\ FieldsBefore(p, 4) \in Nat BY <2>2, Starts
    <3>2. v[2] = p[2] /\ v[4] = p[4] BY <1>6, <3>1
    <3>3. p[2] # REQUEST BY <2>2 DEF REQUEST, RESPONSE
    <3> QED BY <3>2, <3>3 DEF DataLength
  <2> QED BY <1>4, <2>1, <2>2, Zenon
<1> QED BY <1>3, <1>5, <1>6

-----------------------------------------------------------------------------
(* The bytes of a packet *)

BytesBefore(p, i) == Len(Through(p)[i])
FieldBytes(p, i) == Encoded(KindsOf(p)[i], p[i])

LEMMA PacketFields ==
    ASSUME NEW p, Packet(p), NEW i \in 1 .. Len(p)
    PROVE  /\ KindsOf(p)[i] \in AllKinds /\ Fits(KindsOf(p)[i], p[i], p)
           /\ FieldBytes(p, i) \in Seq(Octet) /\ Len(FieldBytes(p, i)) \in Nat
<1>1. KindsOf(p)[i] \in AllKinds BY StagePlaces
<1>2. Fits(KindsOf(p)[i], p[i], p) BY DEF Packet
<1>3. FieldBytes(p, i) \in Seq(Octet) BY <1>1, <1>2, EncodedType DEF FieldBytes
<1> QED BY <1>1, <1>2, <1>3

LEMMA ThroughType ==
    ASSUME NEW p, Packet(p)
    PROVE  \A i \in 0 .. Len(p) : Through(p)[i] \in Seq(Octet)
<1> DEFINE T == {i \in Nat : i <= Len(p) => Through(p)[i] \in Seq(Octet)}
<1>0. Len(p) \in Nat BY DEF Packet
<1>1. 0 \in T
  <2>1. Through(p)[0] = << >> BY <1>0, ThroughSteps
  <2>2. << >> \in Seq(Octet) BY EmptySeq
  <2> QED BY <2>1, <2>2
<1>2. ASSUME NEW k \in T \cap Nat PROVE k + 1 \in T
  <2> SUFFICES ASSUME k + 1 <= Len(p) PROVE Through(p)[k + 1] \in Seq(Octet) OBVIOUS
  <2>1. k + 1 \in 1 .. Len(p) /\ (k + 1) - 1 = k /\ k <= Len(p) BY <1>0
  <2>2. Through(p)[k + 1] = Through(p)[k] \o FieldBytes(p, k + 1)
    BY <1>0, <2>1, ThroughSteps DEF FieldBytes
  <2>3. FieldBytes(p, k + 1) \in Seq(Octet) BY <2>1, PacketFields
  <2>4. Through(p)[k] \in Seq(Octet) BY <2>1
  <2> QED BY <2>2, <2>3, <2>4
<1> HIDE DEF T
<1>3. Nat \subseteq T BY <1>1, <1>2, InductionOnSets
<1> QED BY <1>0, <1>3 DEF T

(* The bytes up to the end of a field are those before it and its own.     *)
LEMMA ThroughField ==
    ASSUME NEW p, Packet(p), NEW i \in 1 .. Len(p)
    PROVE  /\ BytesBefore(p, i - 1) \in Nat /\ BytesBefore(p, i) = BytesBefore(p, i - 1) + Len(FieldBytes(p, i))
           /\ \A j \in 1 .. BytesBefore(p, i - 1) : Through(p)[i][j] = Through(p)[i - 1][j]
           /\ \A j \in 1 .. Len(FieldBytes(p, i)) : Through(p)[i][BytesBefore(p, i - 1) + j] = FieldBytes(p, i)[j]
<1> DEFINE s == Through(p)[i - 1]
           f == FieldBytes(p, i)
           t == Through(p)[i]
<1>0. Len(p) \in Nat BY DEF Packet
<1>1. t = s \o f BY <1>0, ThroughSteps DEF FieldBytes
<1>2. s \in Seq(Octet)
  <2>1. i - 1 \in 0 .. Len(p) BY <1>0
  <2> QED BY <2>1, ThroughType
<1>3. f \in Seq(Octet) BY PacketFields
<1>4. BytesBefore(p, i - 1) = Len(s) /\ BytesBefore(p, i) = Len(t) BY DEF BytesBefore
<1> HIDE DEF s, f, t
<1>5. Len(t) = Len(s) + Len(f) /\ Len(s) \in Nat /\ Len(f) \in Nat BY <1>1, <1>2, <1>3, ConcatProperties
<1>6. \A j \in 1 .. Len(s) + Len(f) : t[j] = IF j <= Len(s) THEN s[j] ELSE f[j - Len(s)]
  BY <1>1, <1>2, <1>3, ConcatProperties
<1>7. \A j \in 1 .. Len(s) : t[j] = s[j] BY <1>5, <1>6
<1>8. ASSUME NEW j \in 1 .. Len(f) PROVE t[Len(s) + j] = f[j]
  <2>1. Len(s) + j \in 1 .. Len(s) + Len(f) /\ ~ (Len(s) + j <= Len(s)) /\ (Len(s) + j) - Len(s) = j
    BY <1>5
  <2> QED BY <1>6, <2>1
<1> QED BY <1>4, <1>5, <1>7, <1>8 DEF s, f, t

(* What is there after a field stays there. *)
LEMMA ThroughGrows ==
    ASSUME NEW p, Packet(p), NEW i \in 0 .. Len(p)
    PROVE  \A k \in 0 .. Len(p) : i <= k =>
             /\ BytesBefore(p, i) \in Nat /\ BytesBefore(p, k) \in Nat /\ BytesBefore(p, i) <= BytesBefore(p, k)
             /\ \A j \in 1 .. BytesBefore(p, i) : Through(p)[k][j] = Through(p)[i][j]
<1> DEFINE Q(k) == /\ BytesBefore(p, i) \in Nat /\ BytesBefore(p, k) \in Nat /\ BytesBefore(p, i) <= BytesBefore(p, k)
                   /\ \A j \in 1 .. BytesBefore(p, i) : Through(p)[k][j] = Through(p)[i][j]
           T == {k \in Nat : k <= Len(p) /\ i <= k => Q(k)}
<1>0. Len(p) \in Nat /\ i \in Nat BY DEF Packet
<1>1. Q(i)
  <2>1. Through(p)[i] \in Seq(Octet) BY ThroughType
  <2> QED BY <2>1 DEF BytesBefore
<1> HIDE DEF Q
<1>2. 0 \in T BY <1>0, <1>1
<1>3. ASSUME NEW k \in T \cap Nat PROVE k + 1 \in T
  <2> SUFFICES ASSUME k + 1 <= Len(p), i <= k + 1 PROVE Q(k + 1) OBVIOUS
  <2>1. CASE i = k + 1
    BY <1>1, <2>1
  <2>2. CASE i # k + 1
    <3>1. k + 1 \in 1 .. Len(p) /\ (k + 1) - 1 = k /\ k <= Len(p) /\ i <= k BY <1>0, <2>2
    <3>2. Q(k) BY <3>1
    <3>3. /\ BytesBefore(p, k) \in Nat /\ BytesBefore(p, k + 1) = BytesBefore(p, k) + Len(FieldBytes(p, k + 1))
          /\ \A j \in 1 .. BytesBefore(p, k) : Through(p)[k + 1][j] = Through(p)[k][j]
      BY <3>1, ThroughField
    <3>4. Len(FieldBytes(p, k + 1)) \in Nat BY <3>1, PacketFields
    <3>5. BytesBefore(p, i) \in Nat /\ BytesBefore(p, i) <= BytesBefore(p, k) BY <3>2 DEF Q
    <3>6. ASSUME NEW j \in 1 .. BytesBefore(p, i) PROVE Through(p)[k + 1][j] = Through(p)[i][j]
      <4>1. j \in 1 .. BytesBefore(p, k) BY <3>3, <3>5
      <4>2. Through(p)[k][j] = Through(p)[i][j] BY <3>2 DEF Q
      <4> QED BY <3>3, <4>1, <4>2
    <3>7. BytesBefore(p, k + 1) \in Nat /\ BytesBefore(p, i) <= BytesBefore(p, k + 1) BY <3>3, <3>4, <3>5
    <3> QED BY <3>5, <3>6, <3>7 DEF Q
  <2> QED BY <2>1, <2>2
<1> HIDE DEF T
<1>4. Nat \subseteq T BY <1>2, <1>3, InductionOnSets
<1> QED BY <1>0, <1>4 DEF T, Q

(* Where the bytes of the fields are among those of the packet             *)
LEMMA EncodingPlaces ==
    ASSUME NEW p, Packet(p)
    PROVE  /\ Encoding(p) \in Seq(Octet) /\ Len(Encoding(p)) \in Nat
           /\ BytesBefore(p, Len(p)) = Len(Encoding(p)) /\ BytesBefore(p, 0) = 0
           /\ Through(p)[Len(p)] = Encoding(p) /\ Through(p)[0] = << >>
           /\ \A i \in 0 .. Len(p) :
                /\ BytesBefore(p, i) \in Nat /\ BytesBefore(p, i) <= Len(Encoding(p))
                /\ \A j \in 1 .. BytesBefore(p, i) : Through(p)[i][j] = Encoding(p)[j]
           /\ \A i \in 1 .. Len(p) :
                /\ BytesBefore(p, i) = BytesBefore(p, i - 1) + Len(FieldBytes(p, i)) /\ BytesBefore(p, i - 1) \in Nat
                /\ \A j \in 1 .. Len(FieldBytes(p, i)) : Encoding(p)[BytesBefore(p, i - 1) + j] = FieldBytes(p, i)[j]
<1>0. Len(p) \in Nat BY DEF Packet
<1>1. Len(p) \in 0 .. Len(p) /\ 0 \in 0 .. Len(p) BY <1>0
<1>2. Encoding(p) = Through(p)[Len(p)] BY DEF Encoding
<1>3. Through(p)[0] = << >> BY <1>0, ThroughSteps
<1>4. Encoding(p) \in Seq(Octet) BY <1>1, <1>2, ThroughType
<1>5. BytesBefore(p, Len(p)) = Len(Encoding(p)) BY <1>2 DEF BytesBefore
<1>6. BytesBefore(p, 0) = 0
  <2>1. Len(<< >>) = 0 BY EmptySeq
  <2> QED BY <1>3, <2>1 DEF BytesBefore
<1>7. ASSUME NEW i \in 0 .. Len(p)
      PROVE  /\ BytesBefore(p, i) \in Nat /\ BytesBefore(p, i) <= Len(Encoding(p))
             /\ \A j \in 1 .. BytesBefore(p, i) : Through(p)[i][j] = Encoding(p)[j]
  <2>1. i <= Len(p) BY <1>0
  <2> QED BY <1>1, <1>2, <1>5, <2>1, ThroughGrows
<1>8. ASSUME NEW i \in 1 .. Len(p)
      PROVE  /\ BytesBefore(p, i) = BytesBefore(p, i - 1) + Len(FieldBytes(p, i)) /\ BytesBefore(p, i - 1) \in Nat
             /\ \A j \in 1 .. Len(FieldBytes(p, i)) : Encoding(p)[BytesBefore(p, i - 1) + j] = FieldBytes(p, i)[j]
  <2>1. /\ BytesBefore(p, i - 1) \in Nat /\ BytesBefore(p, i) = BytesBefore(p, i - 1) + Len(FieldBytes(p, i))
        /\ \A j \in 1 .. Len(FieldBytes(p, i)) : Through(p)[i][BytesBefore(p, i - 1) + j] = FieldBytes(p, i)[j]
    BY ThroughField
  <2>2. ASSUME NEW j \in 1 .. Len(FieldBytes(p, i))
        PROVE  Encoding(p)[BytesBefore(p, i - 1) + j] = FieldBytes(p, i)[j]
    <3>1. Len(FieldBytes(p, i)) \in Nat BY PacketFields
    <3>2. BytesBefore(p, i - 1) + j \in 1 .. BytesBefore(p, i) BY <2>1, <3>1
    <3>3. i \in 0 .. Len(p) BY <1>0
    <3>4. Through(p)[i][BytesBefore(p, i - 1) + j] = Encoding(p)[BytesBefore(p, i - 1) + j]
      BY <1>7, <3>2, <3>3
    <3> QED BY <2>1, <3>4
  <2> QED BY <2>1, <2>2
<1>9. Len(Encoding(p)) \in Nat BY <1>4
<1> QED BY <1>2, <1>3, <1>4, <1>5, <1>6, <1>7, <1>8, <1>9, Zenon

(* No packet is empty. *)
LEMMA EncodingBegins ==
    ASSUME NEW p, Packet(p)
    PROVE  Len(Encoding(p)) >= 1
<1> DEFINE k == KindsOf(p)
<1>1. Len(Kinds(1, p)) = 2 BY StageKinds, Zenon
<1>2. Kinds(1, p)[1] = "word" BY DEF Kinds
<1>3. 1 \in 1 .. Len(p) /\ Len(p) \in Nat /\ k[1] = "word"
  <2>1. /\ Len(p) \in Nat /\ FieldsBefore(p, 1) = 0 /\ FieldsBefore(p, 1 + 1) <= Len(p)
        /\ FieldsBefore(p, 1 + 1) = FieldsBefore(p, 1) + Len(Kinds(1, p))
        /\ \A i \in 1 .. Len(Kinds(1, p)) : k[FieldsBefore(p, 1) + i] = Kinds(1, p)[i]
    BY StagePlaces
  <2>2. 1 \in 1 .. Len(Kinds(1, p)) /\ FieldsBefore(p, 1) + 1 = 1 BY <1>1, <2>1
  <2>3. k[1] = Kinds(1, p)[1] BY <2>1, <2>2
  <2> HIDE DEF k
  <2> QED BY <1>1, <1>2, <2>1, <2>3
<1>4. Fits("word", p[1], p) BY <1>3 DEF Packet
<1>5. Len(FieldBytes(p, 1)) = Word
  <2>1. "word" \in AllKinds BY DEF AllKinds, ShortKinds
  <2>2. Len(Encoded("word", p[1])) = Word BY <1>4, <2>1, EncodedType
  <2> QED BY <1>3, <2>2 DEF FieldBytes
<1>6. BytesBefore(p, 1) = BytesBefore(p, 1 - 1) + Len(FieldBytes(p, 1)) /\ BytesBefore(p, 1 - 1) \in Nat
  BY <1>3, EncodingPlaces
<1>7. BytesBefore(p, 1) <= Len(Encoding(p)) /\ Len(Encoding(p)) \in Nat
  <2>1. 1 \in 0 .. Len(p) BY <1>3
  <2> QED BY <2>1, EncodingPlaces
<1> QED BY <1>5, <1>6, <1>7, WordFacts

-----------------------------------------------------------------------------
(* Serialization *)

(* Of a field as much is written as there is room for, and what it is said *)
(* to need is beyond the room exactly if it does not fit.                  *)
LEMMA FieldStored ==
    ASSUME NEW kind \in AllKinds, NEW v, NEW p, Fits(kind, v, p), NEW rem \in Nat
    PROVE  LET e == Encoded(kind, v)
               s == Stored(kind, v, rem)
               need == Need(kind, v, rem) IN
           /\ s \in Seq(Octet) /\ Len(s) <= rem /\ Len(s) <= Len(e)
           /\ \A j \in 1 .. Len(s) : s[j] = e[j]
           /\ need \in Nat /\ need <= Len(e)
           /\ IF Len(e) <= rem THEN need = Len(e) /\ s = e ELSE need > rem
<1> DEFINE e == Encoded(kind, v)
           s == Stored(kind, v, rem)
           need == Need(kind, v, rem)
<1>0. e \in Seq(Octet) /\ Len(e) \in Nat BY EncodedType
<1>1. kind = "str" => Len(v) \in Nat /\ Len(e) = Len(v) + 1
  <2> SUFFICES ASSUME kind = "str" PROVE Len(v) \in Nat /\ Len(e) = Len(v) + 1 OBVIOUS
  <2>1. v \in Seq(1 .. Base - 1) /\ Len(e) = Len(v) + 1 BY EncodedType
  <2> QED BY <2>1
<1>2. need = IF kind = "str" /\ Len(v) > rem THEN rem + 1 ELSE Len(e) BY DEF Need
<1>3. need \in Nat /\ need <= Len(e)
  <2> HIDE DEF e, need
  <2> QED BY <1>0, <1>1, <1>2
<1>4. CASE Len(e) <= rem
  <2>1. s = e
    <3>1. kind \in {"long", "cast"} => Len(e) = 2 * Word BY EncodedType
    <3>2. ~ (kind \in {"long", "cast"} /\ Word <= rem /\ rem < 2 * Word)
      <4> HIDE DEF e
      <4> QED BY <1>0, <1>4, <3>1, WordFacts
    <3> QED BY <1>4, <3>2 DEF Stored
  <2>2. need = Len(e)
    <3> HIDE DEF e, need
    <3> QED BY <1>0, <1>1, <1>2, <1>4
  <2> QED BY <1>0, <1>3, <1>4, <2>1, <2>2
<1>5. CASE ~ (Len(e) <= rem)
  <2>1. need > rem
    <3> HIDE DEF e, need
    <3> QED BY <1>0, <1>1, <1>2, <1>5
  <2>2. CASE kind \in {"long", "cast"} /\ Word <= rem /\ rem < 2 * Word
    <3>1. s = SubSeq(e, 1, Word) BY <1>5, <2>2 DEF Stored
    <3>2. Word \in Nat /\ Word <= Len(e) BY <1>0, <1>5, <2>2, WordFacts
    <3> HIDE DEF e
    <3>3. /\ s \in Seq(Octet) /\ Len(s) = Word
          /\ \A j \in 1 .. Word : s[j] = e[j]
      <4> HIDE DEF s
      <4> QED BY <1>0, <3>1, <3>2
    <3> QED BY <1>3, <1>5, <2>1, <2>2, <3>2, <3>3 DEF e
  <2>3. CASE ~ (kind \in {"long", "cast"} /\ Word <= rem /\ rem < 2 * Word)
    <3>1. s = << >> BY <1>5, <2>3 DEF Stored
    <3>2. << >> \in Seq(Octet) /\ Len(<< >>) = 0 BY EmptySeq
    <3>3. s \in Seq(Octet) /\ Len(s) = 0
      <4> HIDE DEF s
      <4> QED BY <3>1, <3>2
    <3> HIDE DEF s, e, need
    <3> QED BY <1>0, <1>3, <1>5, <2>1, <3>3 DEF s, e, need
  <2> QED BY <2>2, <2>3
<1> QED BY <1>4, <1>5

(* After i fields: a beginning of the packet is written, and the value is   *)
(* how many bytes they take if they all fit, beyond the room if not.       *)
PutsInv(p, space, i) ==
    LET st == PutFields(p, space)[i] IN
    /\ st.used \in Nat /\ st.out \in Seq(Octet)
    /\ Len(st.out) <= space /\ Len(st.out) <= BytesBefore(p, i)
    /\ \A j \in 1 .. Len(st.out) : st.out[j] = Encoding(p)[j]
    /\ IF BytesBefore(p, i) <= space
       THEN st.used = BytesBefore(p, i) /\ Len(st.out) = BytesBefore(p, i)
       ELSE space < st.used /\ st.used <= BytesBefore(p, i)

(* One more field: once one did not fit no room is left for the others.    *)
LEMMA PutKeeps ==
    ASSUME NEW p, Packet(p), NEW space \in Nat, NEW i \in 1 .. Len(p), PutsInv(p, space, i - 1)
    PROVE  PutsInv(p, space, i)
<1> DEFINE st == PutFields(p, space)[i - 1]
           so == PutFields(p, space)[i]
           e == FieldBytes(p, i)
           rem == SizeRem(space, st.used)
           s == Stored(KindsOf(p)[i], p[i], rem)
           need == Need(KindsOf(p)[i], p[i], rem)
           b == BytesBefore(p, i - 1)
           c == BytesBefore(p, i)
           E == Encoding(p)
<1>0. Len(p) \in Nat BY DEF Packet
<1>1. /\ st.used \in Nat /\ st.out \in Seq(Octet)
      /\ Len(st.out) <= space /\ Len(st.out) <= b
      /\ \A j \in 1 .. Len(st.out) : st.out[j] = E[j]
      /\ IF b <= space THEN st.used = b /\ Len(st.out) = b
         ELSE space < st.used /\ st.used <= b
  BY DEF PutsInv
<1>2. so = [used |-> st.used + need, out |-> st.out \o s]
  BY <1>0, PutsSteps DEF PutField
<1>3. rem \in Nat /\ rem = IF space < st.used THEN 0 ELSE space - st.used
  BY <1>1 DEF SizeRem
<1>4. /\ s \in Seq(Octet) /\ Len(s) <= rem /\ Len(s) <= Len(e)
      /\ \A j \in 1 .. Len(s) : s[j] = e[j]
      /\ need \in Nat /\ need <= Len(e)
      /\ IF Len(e) <= rem THEN need = Len(e) /\ s = e ELSE need > rem
  <2> HIDE DEF rem
  <2> QED BY <1>3, PacketFields, FieldStored DEF FieldBytes
<1>5. /\ c = b + Len(e) /\ b \in Nat /\ Len(e) \in Nat
      /\ \A j \in 1 .. Len(e) : E[b + j] = e[j]
  BY EncodingPlaces, PacketFields
<1> DEFINE used == st.used
           out == st.out
           out2 == st.out \o s
<1>6. so.used = used + need /\ so.out = out2
  <2> HIDE DEF so, st, need, s
  <2> QED BY <1>2
<1>7. /\ out2 \in Seq(Octet) /\ Len(out2) = Len(out) + Len(s)
      /\ Len(out) \in Nat /\ Len(s) \in Nat
      /\ \A j \in 1 .. Len(out) + Len(s) :
           out2[j] = IF j <= Len(out) THEN out[j] ELSE s[j - Len(out)]
  <2>1. out \in Seq(Octet) /\ s \in Seq(Octet) /\ out2 = out \o s BY <1>1, <1>4
  <2> HIDE DEF out, s, out2
  <2> QED BY <2>1, ConcatProperties
<1>8. used \in Nat BY <1>1
<1>9. /\ out \in Seq(Octet) /\ Len(out) <= space /\ Len(out) <= b
      /\ \A j \in 1 .. Len(out) : out[j] = E[j]
      /\ IF b <= space THEN used = b /\ Len(out) = b ELSE space < used /\ used <= b
  BY <1>1
<1>10. rem = IF space < used THEN 0 ELSE space - used BY <1>3
<1> HIDE DEF st, so, used, out, out2, e, rem, s, need, b, c, E
<1>11. Len(s) = 0 \/ Len(out) = b BY <1>3, <1>4, <1>5, <1>7, <1>8, <1>9, <1>10
<1>12. ASSUME NEW j \in 1 .. Len(out2) PROVE out2[j] = E[j]
  <2>1. j \in 1 .. Len(out) + Len(s) BY <1>7
  <2>2. CASE j <= Len(out)
    <3>1. j \in 1 .. Len(out) BY <1>7, <2>2
    <3>2. out2[j] = out[j] BY <1>7, <2>1, <2>2
    <3> QED BY <1>9, <3>1, <3>2
  <2>3. CASE ~ (j <= Len(out))
    <3>1. Len(out) = b /\ j - b \in 1 .. Len(s) /\ j - b \in 1 .. Len(e) /\ b + (j - b) = j
      BY <1>4, <1>5, <1>7, <1>11, <2>1, <2>3
    <3>2. out2[j] = s[j - b] BY <1>7, <2>1, <2>3, <3>1
    <3>3. s[j - b] = e[j - b] BY <1>4, <3>1
    <3>4. E[b + (j - b)] = e[j - b] BY <1>5, <3>1
    <3> QED BY <3>1, <3>2, <3>3, <3>4
  <2> QED BY <2>2, <2>3
<1>13. Len(out2) <= space /\ Len(out2) <= c
  <2>1. Len(out) <= space /\ Len(out) <= b BY <1>9
  <2>2. Len(s) <= rem /\ Len(s) <= Len(e) BY <1>4
  <2>3. CASE Len(s) = 0 BY <1>5, <1>7, <2>1, <2>2, <2>3
  <2>4. CASE Len(s) # 0
    <3>1. ~ (space < used) /\ rem = space - used BY <1>7, <1>8, <1>10, <2>2, <2>4
    <3>2. used = b /\ Len(out) = b BY <1>5, <1>8, <1>9, <1>11, <2>4, <3>1
    <3> QED BY <1>5, <1>7, <2>2, <3>1, <3>2
  <2> QED BY <2>3, <2>4
<1>14. IF c <= space THEN used + need = c /\ Len(out2) = c
       ELSE space < used + need /\ used + need <= c
  <2>1. CASE c <= space
    <3>1. b <= space /\ used = b /\ Len(out) = b BY <1>5, <1>9, <2>1
    <3>2. Len(e) <= rem BY <1>5, <1>10, <2>1, <3>1
    <3>3. need = Len(e) /\ s = e BY <1>4, <3>2
    <3> QED BY <1>5, <1>7, <2>1, <3>1, <3>3
  <2>2. CASE ~ (c <= space)
    <3>0. need \in Nat /\ need <= Len(e) /\ (Len(e) <= rem \/ need > rem) BY <1>4
    <3>1. CASE b <= space
      <4>1. used = b /\ rem = space - b BY <1>8, <1>9, <1>10, <3>1
      <4>2. ~ (Len(e) <= rem) BY <1>5, <2>2, <4>1
      <4> QED BY <1>5, <2>2, <3>0, <4>1, <4>2
    <3>2. CASE ~ (b <= space)
      <4>1. space < used /\ used <= b BY <1>9, <3>2
      <4> QED BY <1>5, <1>8, <2>2, <3>0, <4>1
    <3> QED BY <3>1, <3>2
  <2> QED BY <2>1, <2>2
<1>15. used + need \in Nat BY <1>4, <1>8
<1>16. out2 \in Seq(Octet) BY <1>7
<1>17. /\ so.used \in Nat /\ so.out \in Seq(Octet)
       /\ Len(so.out) <= space /\ Len(so.out) <= c
       /\ \A j \in 1 .. Len(so.out) : so.out[j] = E[j]
       /\ IF c <= space THEN so.used = c /\ Len(so.out) = c ELSE space < so.used /\ so.used <= c
  BY <1>6, <1>12, <1>13, <1>14, <1>15, <1>16
<1> QED BY <1>17 DEF PutsInv, so, c, E

LEMMA PutsKeep ==
    ASSUME NEW p, Packet(p), NEW space \in Nat
    PROVE  PutsInv(p, space, Len(p))
<1> DEFINE T == {i \in Nat : i <= Len(p) => PutsInv(p, space, i)}
<1>0. Len(p) \in Nat BY DEF Packet
<1>1. 0 \in T
  <2>1. PutFields(p, space)[0] = [used |-> 0, out |-> << >>] BY <1>0, PutsSteps
  <2>2. BytesBefore(p, 0) = 0 BY EncodingPlaces
  <2>3. << >> \in Seq(Octet) /\ Len(<< >>) = 0 BY EmptySeq
  <2>4. PutFields(p, space)[0].used = 0 /\ PutFields(p, space)[0].out = << >> BY <2>1
  <2> DEFINE o == PutFields(p, space)[0].out
             u == PutFields(p, space)[0].used
  <2>5. o \in Seq(Octet) /\ Len(o) = 0 /\ u = 0 BY <2>3, <2>4
  <2> HIDE DEF o, u
  <2>6. /\ u \in Nat /\ o \in Seq(Octet) /\ Len(o) <= space /\ Len(o) <= BytesBefore(p, 0)
        /\ \A j \in 1 .. Len(o) : o[j] = Encoding(p)[j]
        /\ u = BytesBefore(p, 0) /\ Len(o) = BytesBefore(p, 0) /\ BytesBefore(p, 0) <= space
    BY <2>2, <2>5
  <2> QED BY <2>6 DEF PutsInv, o, u
<1>2. ASSUME NEW k \in T \cap Nat PROVE k + 1 \in T
  <2> SUFFICES ASSUME k + 1 <= Len(p) PROVE PutsInv(p, space, k + 1) OBVIOUS
  <2>1. k + 1 \in 1 .. Len(p) /\ (k + 1) - 1 = k /\ k <= Len(p) BY <1>0
  <2>2. PutsInv(p, space, k) BY <2>1
  <2> QED BY <2>1, <2>2, PutKeeps
<1> HIDE DEF T
<1>3. Nat \subseteq T BY <1>1, <1>2, InductionOnSets
<1> QED BY <1>0, <1>3 DEF T

(* What is written of a packet into some room, and the value returned *)
LEMMA PktSerialized ==
    ASSUME NEW p, Packet(p), NEW space \in Nat
    PROVE  LET st == SerializePkt(p, space)
               total == Len(Encoding(p)) IN
           /\ st.used \in Nat /\ st.out \in Seq(Octet) /\ total \in Nat
           /\ Len(st.out) <= space /\ Len(st.out) <= total
           /\ \A j \in 1 .. Len(st.out) : st.out[j] = Encoding(p)[j]
           /\ IF total <= space THEN st.used = total /\ st.out = Encoding(p)
              ELSE space < st.used /\ st.used <= total
<1> DEFINE st == SerializePkt(p, space)
           E == Encoding(p)
<1>1. E \in Seq(Octet) /\ Len(E) \in Nat /\ BytesBefore(p, Len(p)) = Len(E) BY EncodingPlaces
<1>2. /\ st.used \in Nat /\ st.out \in Seq(Octet)
      /\ Len(st.out) <= space /\ Len(st.out) <= Len(E)
      /\ \A j \in 1 .. Len(st.out) : st.out[j] = E[j]
      /\ IF Len(E) <= space THEN st.used = Len(E) /\ Len(st.out) = Len(E)
         ELSE space < st.used /\ st.used <= Len(E)
  BY <1>1, PutsKeep DEF PutsInv, SerializePkt
<1>3. Len(E) <= space => st.out = E
  <2> SUFFICES ASSUME Len(E) <= space PROVE st.out = E OBVIOUS
  <2>1. Len(st.out) = Len(E) /\ \A j \in 1 .. Len(E) : st.out[j] = E[j] BY <1>2
  <2> HIDE DEF st, E
  <2> QED BY <1>1, <1>2, <2>1, SeqEqual
<1> QED BY <1>1, <1>2, <1>3

-----------------------------------------------------------------------------
(* Deserialization *)

MayHold(p) == {NotRead} \cup {p[j] : j \in 1 .. Len(p)}

(* What has been decoded of a packet after i fields *)
DecodedAfter(b, p, i, st) ==
    /\ st.used \in Nat /\ st.vals \in Seq(MayHold(p)) /\ Len(st.vals) = i
    /\ \A j \in 1 .. i : st.vals[j] \in {NotRead, p[j]}
    /\ IF BytesBefore(p, i) <= Len(b)
       THEN st.used = BytesBefore(p, i) /\ \A j \in 1 .. i : st.vals[j] = p[j]
       ELSE st.used > Len(b)

(* What is left of b after the bytes used                                  *)
LEMMA RestOf ==
    ASSUME NEW b \in Seq(Octet), NEW used \in Nat
    PROVE  LET s == SubSeq(b, used + 1, Len(b)) IN
           /\ s \in Seq(Octet)
           /\ used <= Len(b) => /\ Len(s) = Len(b) - used
                                /\ \A j \in 1 .. Len(s) : s[j] = b[used + j]
           /\ ~ (used <= Len(b)) => Len(s) = 0
<1> DEFINE s == SubSeq(b, used + 1, Len(b))
<1>1. s \in Seq(Octet)
  <2>1. \A k \in (used + 1) .. Len(b) : b[k] \in Octet BY ElementOfSeq
  <2> QED BY <2>1, SubSeqProperties
<1>2. CASE used <= Len(b)
  <2>1. Len(s) = Len(b) - used /\ \A j \in 1 .. Len(s) : s[j] = b[used + j] BY <1>2
  <2> QED BY <1>1, <1>2, <2>1
<1>3. CASE ~ (used <= Len(b))
  <2>1. Len(s) = 0 BY <1>3
  <2> QED BY <1>1, <1>3, <2>1
<1> QED BY <1>2, <1>3

(* One more field: data are only taken once the field with their length is *)
(* there.                                                                  *)
LEMMA TakeKeeps ==
    ASSUME NEW p, Packet(p), NEW b \in Seq(Octet), Alike(b, Encoding(p)),
           NEW i \in 1 .. Len(p), NEW st, DecodedAfter(b, p, i - 1, st),
           KindsOf(p)[i] = "data" => /\ BytesBefore(p, i - 1) <= Len(b)
                                     /\ DataLength(st.vals) = DataLength(p)
    PROVE  DecodedAfter(b, p, i, TakeField(b, st, KindsOf(p)[i]))
<1> DEFINE kind == KindsOf(p)[i]
           e == FieldBytes(p, i)
           used == st.used
           vals == st.vals
           s == SubSeq(b, used + 1, Len(b))
           n == IF kind = "data" THEN DataLength(vals) ELSE 0
           w == Wanted(kind, s, n)
           d == Decoded(kind, s, n)
           so == TakeField(b, st, kind)
           a == BytesBefore(p, i - 1)
           c == BytesBefore(p, i)
           E == Encoding(p)
           V == MayHold(p)
<1>0. Len(p) \in Nat /\ i - 1 \in Nat /\ i \in Nat /\ Len(b) \in Nat BY DEF Packet
<1>1. /\ used \in Nat /\ vals \in Seq(V) /\ Len(vals) = i - 1
      /\ \A j \in 1 .. i - 1 : vals[j] \in {NotRead, p[j]}
      /\ IF a <= Len(b) THEN used = a /\ \A j \in 1 .. i - 1 : vals[j] = p[j]
         ELSE used > Len(b)
  BY DEF DecodedAfter
<1>2. so.used = used + w /\ so.vals = Append(vals, d)
  <2>1. so = [used |-> used + w, vals |-> Append(vals, d)] BY DEF TakeField
  <2> HIDE DEF so, used, vals, w, d
  <2> QED BY <2>1
<1>3. /\ c = a + Len(e) /\ a \in Nat /\ Len(e) \in Nat /\ Len(E) \in Nat /\ c <= Len(E)
      /\ e \in Seq(Octet) /\ \A j \in 1 .. Len(e) : E[a + j] = e[j]
  <2>1. i \in 0 .. Len(p) BY <1>0
  <2> QED BY <2>1, EncodingPlaces, PacketFields
<1>4. /\ s \in Seq(Octet)
      /\ used <= Len(b) => /\ Len(s) = Len(b) - used
                           /\ \A j \in 1 .. Len(s) : s[j] = b[used + j]
      /\ ~ (used <= Len(b)) => Len(s) = 0
  BY <1>1, RestOf
<1>5. kind \in AllKinds /\ Fits(kind, p[i], p) /\ e = Encoded(kind, p[i])
  BY PacketFields DEF FieldBytes
<1>6. kind = "data" => n = Len(p[i]) /\ a <= Len(b)
  <2> SUFFICES ASSUME kind = "data" PROVE n = Len(p[i]) /\ a <= Len(b) OBVIOUS
  <2>1. Len(p[i]) = DataLength(p) BY <1>5, EncodedType
  <2> QED BY <2>1
<1>7. kind # "data" => Len(e) >= 1
  <2> SUFFICES ASSUME kind # "data" PROVE Len(e) >= 1 OBVIOUS
  <2>1. /\ kind = "word" => Len(e) = Word
        /\ kind \in {"long", "cast"} => Len(e) = 2 * Word
        /\ kind = "str" => p[i] \in Seq(1 .. Base - 1) /\ Len(e) = Len(p[i]) + 1
    BY <1>5, EncodedType
  <2>2. kind = "str" => Len(p[i]) \in Nat BY <2>1
  <2>3. kind \in {"word", "long", "cast", "str"} BY <1>5 DEF AllKinds, ShortKinds
  <2> HIDE DEF kind, e
  <2> QED BY <2>1, <2>2, <2>3, WordFacts
<1> HIDE DEF kind, e, used, vals, s, n, w, d, so, a, c, E, V
<1>8. Alike(s, e)
  <2> SUFFICES ASSUME NEW j \in 1 .. Len(s), j <= Len(e) PROVE s[j] = e[j] BY DEF Alike
  <2>1. used <= Len(b) BY <1>0, <1>1, <1>4
  <2>2. used = a BY <1>0, <1>1, <1>3, <2>1
  <2>3. Len(s) \in Nat /\ Len(s) = Len(b) - a BY <1>0, <1>3, <1>4, <2>1, <2>2
  <2>4. a + j \in 1 .. Len(b) /\ a + j <= Len(E) /\ j \in 1 .. Len(e) BY <1>0, <1>3, <2>3
  <2>5. s[j] = b[a + j] BY <1>4, <2>1, <2>2
  <2>6. b[a + j] = E[a + j] BY <2>4 DEF Alike, E
  <2>7. E[a + j] = e[j] BY <1>3, <2>4
  <2> QED BY <2>5, <2>6, <2>7
<1>9. IF Len(e) <= Len(s) THEN w = Len(e) /\ d = p[i]
      ELSE w \in Nat /\ w > Len(s) /\ d = NotRead
  BY <1>4, <1>5, <1>6, <1>8, FieldDecoded DEF w, d
<1>10. Len(s) \in Nat BY <1>4
<1>11. w \in Nat /\ d \in {NotRead, p[i]} BY <1>3, <1>9
<1>12. p[i] \in V /\ NotRead \in V BY DEF V, MayHold
<1>13. /\ Append(vals, d) \in Seq(V) /\ Len(Append(vals, d)) = i
       /\ \A j \in 1 .. i - 1 : Append(vals, d)[j] = vals[j]
       /\ Append(vals, d)[i] = d
  <2>1. d \in V BY <1>11, <1>12
  <2>2. (i - 1) + 1 = i BY <1>0
  <2> QED BY <1>0, <1>1, <2>1, <2>2, AppendProperties
<1> DEFINE new == Append(vals, d)
<1> HIDE DEF new
<1>14. ASSUME NEW j \in 1 .. i PROVE new[j] \in {NotRead, p[j]}
  <2>1. CASE j = i
    BY <1>11, <1>13, <2>1 DEF new
  <2>2. CASE j # i
    <3>1. j \in 1 .. i - 1 BY <1>0, <2>2
    <3> QED BY <1>1, <1>13, <3>1 DEF new
  <2> QED BY <2>1, <2>2
<1>15. IF c <= Len(b) THEN used + w = c /\ \A j \in 1 .. i : new[j] = p[j]
       ELSE used + w > Len(b)
  <2>1. CASE a <= Len(b)
    <3>1. used = a /\ \A j \in 1 .. i - 1 : vals[j] = p[j] BY <1>1, <2>1
    <3>2. Len(s) = Len(b) - a BY <1>4, <2>1, <3>1
    <3>3. CASE Len(e) <= Len(s)
      <4>1. w = Len(e) /\ d = p[i] BY <1>9, <3>3
      <4>2. ASSUME NEW j \in 1 .. i PROVE new[j] = p[j]
        <5>1. CASE j = i
          BY <1>13, <4>1, <5>1 DEF new
        <5>2. CASE j # i
          <6>1. j \in 1 .. i - 1 BY <1>0, <5>2
          <6> QED BY <1>13, <3>1, <6>1 DEF new
        <5> QED BY <5>1, <5>2
      <4>3. c <= Len(b) /\ used + w = c BY <1>0, <1>3, <3>1, <3>2, <3>3, <4>1
      <4> QED BY <4>2, <4>3
    <3>4. CASE ~ (Len(e) <= Len(s))
      <4>1. w \in Nat /\ w > Len(s) BY <1>9, <3>4
      <4>2. ~ (c <= Len(b)) /\ used + w > Len(b) BY <1>0, <1>3, <1>10, <3>1, <3>2, <3>4, <4>1
      <4> QED BY <4>2
    <3> QED BY <3>3, <3>4
  <2>2. CASE ~ (a <= Len(b))
    <3>1. used > Len(b) BY <1>1, <2>2
    <3>2. ~ (c <= Len(b)) BY <1>0, <1>3, <2>2
    <3>3. used + w > Len(b) BY <1>0, <1>1, <1>11, <3>1
    <3> QED BY <3>2, <3>3
  <2> QED BY <2>1, <2>2
<1>16. used + w \in Nat BY <1>1, <1>11
<1>17. /\ so.used \in Nat /\ so.vals \in Seq(V) /\ Len(so.vals) = i
       /\ \A j \in 1 .. i : so.vals[j] \in {NotRead, p[j]}
       /\ IF c <= Len(b) THEN so.used = c /\ \A j \in 1 .. i : so.vals[j] = p[j]
          ELSE so.used > Len(b)
  <2>1. so.vals = new /\ so.used = used + w BY <1>2 DEF new
  <2>2. new \in Seq(V) /\ Len(new) = i BY <1>13 DEF new
  <2> QED BY <1>14, <1>15, <1>16, <2>1, <2>2, Zenon
<1> QED BY <1>17 DEF DecodedAfter, so, c, V, kind

(* Before a stage: the fields before it are decoded, or not all the bytes   *)
(* that are needed are there.                                              *)
DecodedTo(b, p, stage, st) ==
    \E i \in 0 .. Len(p) :
       DecodedAfter(b, p, i, st) /\ (i = FieldsBefore(p, stage) \/ st.used > Len(b))

(* A stage: by induction over its fields, which are those of the packet    *)
LEMMA StageKeeps ==
    ASSUME NEW p, Packet(p), NEW b \in Seq(Octet), Alike(b, Encoding(p)),
           NEW stage \in 1 .. 4, NEW st, DecodedTo(b, p, stage, st)
    PROVE  DecodedTo(b, p, stage + 1, Stage(b, st, stage))
<1>1. CASE st.used > Len(b)
  <2>1. Stage(b, st, stage) = st BY <1>1 DEF Stage
  <2> QED BY <1>1, <2>1 DEF DecodedTo
<1>2. CASE ~ (st.used > Len(b))
  <2> DEFINE i == FieldsBefore(p, stage)
             kinds == Kinds(stage, p)
             so == TakeFields(b, st, kinds)
             T == {k \in Nat : k <= Len(kinds) => DecodedAfter(b, p, i + k, so[k])}
  <2>1. DecodedAfter(b, p, i, st) BY <1>2 DEF DecodedTo
  <2>2. BytesBefore(p, i) <= Len(b) /\ \A j \in 1 .. i : st.vals[j] = p[j]
    BY <1>2, <2>1 DEF DecodedAfter
  <2>3. Kinds(stage, st.vals) = kinds BY <2>2, SameKinds
  <2>4. /\ Len(p) \in Nat /\ i \in Nat /\ Len(kinds) \in Nat
        /\ FieldsBefore(p, stage + 1) = i + Len(kinds) /\ FieldsBefore(p, stage + 1) <= Len(p)
        /\ \A k \in 1 .. Len(kinds) : KindsOf(p)[i + k] = kinds[k]
    BY StagePlaces
  <2>5. so[0] = st /\ \A k \in 1 .. Len(kinds) : so[k] = TakeField(b, so[k - 1], kinds[k])
    BY <2>4, TakesSteps
  <2>6. \A k \in 1 .. Len(kinds) : kinds[k] = "data" =>
          k = 1 /\ DataLength(st.vals) = DataLength(p)
    BY <2>2, DataPlace
  <2>7. Stage(b, st, stage) = so[Len(kinds)] BY <1>2, <2>3 DEF Stage
  <2> HIDE DEF i, kinds, so
  <2>8. 0 \in T
    <3>1. i + 0 = i BY <2>4
    <3> QED BY <2>1, <2>5, <3>1
  <2>9. ASSUME NEW k \in T \cap Nat PROVE k + 1 \in T
    <3> SUFFICES ASSUME k + 1 <= Len(kinds) PROVE DecodedAfter(b, p, i + (k + 1), so[k + 1]) OBVIOUS
    <3> DEFINE m == i + (k + 1)
    <3>1. /\ k + 1 \in 1 .. Len(kinds) /\ (k + 1) - 1 = k /\ k <= Len(kinds)
          /\ m \in 1 .. Len(p) /\ m - 1 = i + k
      BY <2>4
    <3>2. DecodedAfter(b, p, m - 1, so[k]) BY <3>1
    <3>3. KindsOf(p)[m] = kinds[k + 1] BY <2>4, <3>1
    <3>4. so[k + 1] = TakeField(b, so[k], KindsOf(p)[m]) BY <2>5, <3>1, <3>3
    <3>5. KindsOf(p)[m] = "data" => BytesBefore(p, m - 1) <= Len(b) /\ DataLength(so[k].vals) = DataLength(p)
      <4> SUFFICES ASSUME KindsOf(p)[m] = "data"
                   PROVE  BytesBefore(p, m - 1) <= Len(b) /\ DataLength(so[k].vals) = DataLength(p)
          OBVIOUS
      <4>1. k + 1 = 1 /\ DataLength(st.vals) = DataLength(p) BY <2>6, <3>1, <3>3
      <4>2. k = 0 /\ m - 1 = i BY <2>4, <3>1, <4>1
      <4> HIDE DEF m
      <4> QED BY <2>2, <2>5, <4>1, <4>2
    <3> HIDE DEF m
    <3> QED BY <3>1, <3>2, <3>4, <3>5, TakeKeeps DEF m
  <2> HIDE DEF T
  <2>10. Nat \subseteq T BY <2>8, <2>9, InductionOnSets
  <2>11. DecodedAfter(b, p, i + Len(kinds), so[Len(kinds)]) BY <2>4, <2>10 DEF T
  <2>12. i + Len(kinds) \in 0 .. Len(p) /\ i + Len(kinds) = FieldsBefore(p, stage + 1) BY <2>4
  <2> QED BY <2>7, <2>11, <2>12 DEF DecodedTo
<1> QED BY <1>1, <1>2

(* What is decoded of the bytes that have come of a packet *)
LEMMA PktDeserialized ==
    ASSUME NEW p, Packet(p), NEW b \in Seq(Octet), Alike(b, Encoding(p))
    PROVE  LET got == DeserializePkt(b)
               total == Len(Encoding(p)) IN
           /\ total \in Nat /\ got.used \in Nat
           /\ Len(got.vals) \in 0 .. Len(p)
           /\ \A j \in 1 .. Len(got.vals) : got.vals[j] \in {NotRead, p[j]}
           /\ IF total <= Len(b) THEN got.used = total /\ got.vals = p ELSE got.used > Len(b)
<1> DEFINE start == [used |-> 0, vals |-> << >>]
           header == Stage(b, start, 1)
           fixed == Stage(b, header, 2)
           varied == Stage(b, fixed, 3)
           got == Stage(b, varied, 4)
           E == Encoding(p)
<1>0. Len(p) \in Nat /\ Len(b) \in Nat /\ Len(E) \in Nat /\ FieldsBefore(p, 1) = 0 /\ FieldsBefore(p, 5) = Len(p)
  BY StagePlaces, EncodingPlaces
<1>1. DecodedTo(b, p, 1, start)
  <2>1. start.used = 0 /\ start.vals = << >> OBVIOUS
  <2>2. << >> \in Seq(MayHold(p)) /\ Len(<< >>) = 0 BY EmptySeq
  <2>3. BytesBefore(p, 0) = 0 BY EncodingPlaces
  <2> DEFINE v == start.vals
             u == start.used
  <2>4. v \in Seq(MayHold(p)) /\ Len(v) = 0 /\ u = 0 BY <2>1, <2>2
  <2> HIDE DEF v, u
  <2>5. /\ u \in Nat /\ v \in Seq(MayHold(p)) /\ Len(v) = 0
        /\ \A j \in 1 .. 0 : v[j] \in {NotRead, p[j]}
        /\ IF BytesBefore(p, 0) <= Len(b) THEN u = BytesBefore(p, 0) /\ \A j \in 1 .. 0 : v[j] = p[j]
           ELSE u > Len(b)
    BY <1>0, <2>3, <2>4
  <2>6. DecodedAfter(b, p, 0, start) BY <2>5 DEF DecodedAfter, v, u
  <2> HIDE DEF start
  <2> QED BY <1>0, <2>6 DEF DecodedTo
<1> HIDE DEF start
<1>2. DecodedTo(b, p, 2, header)
  <2>1. DecodedTo(b, p, 1 + 1, header) BY <1>1, StageKeeps
  <2> QED BY <2>1
<1> HIDE DEF header
<1>3. DecodedTo(b, p, 3, fixed)
  <2>1. DecodedTo(b, p, 2 + 1, fixed) BY <1>2, StageKeeps
  <2> QED BY <2>1
<1> HIDE DEF fixed
<1>4. DecodedTo(b, p, 4, varied)
  <2>1. DecodedTo(b, p, 3 + 1, varied) BY <1>3, StageKeeps
  <2> QED BY <2>1
<1> HIDE DEF varied
<1>5. DecodedTo(b, p, 5, got)
  <2>1. DecodedTo(b, p, 4 + 1, got) BY <1>4, StageKeeps
  <2> QED BY <2>1
<1>6. DeserializePkt(b) = got BY DEF DeserializePkt, got, varied, fixed, header, start
<1> HIDE DEF got
<1>7. PICK i \in 0 .. Len(p) : DecodedAfter(b, p, i, got) /\ (i = Len(p) \/ got.used > Len(b))
  BY <1>0, <1>5 DEF DecodedTo
<1>8. /\ got.used \in Nat /\ got.vals \in Seq(MayHold(p)) /\ Len(got.vals) = i
      /\ \A j \in 1 .. i : got.vals[j] \in {NotRead, p[j]}
      /\ IF BytesBefore(p, i) <= Len(b)
         THEN got.used = BytesBefore(p, i) /\ \A j \in 1 .. i : got.vals[j] = p[j]
         ELSE got.used > Len(b)
  BY <1>7 DEF DecodedAfter
<1>9. BytesBefore(p, i) \in Nat /\ BytesBefore(p, i) <= Len(E) BY EncodingPlaces
<1>10. CASE Len(E) <= Len(b)
  <2>1. BytesBefore(p, i) <= Len(b) BY <1>0, <1>9, <1>10
  <2>2. ~ (got.used > Len(b)) BY <1>0, <1>8, <1>9, <2>1
  <2>3. i = Len(p) BY <1>7, <2>2
  <2>4. got.used = Len(E)
    <3>1. BytesBefore(p, Len(p)) = Len(E) BY EncodingPlaces
    <3> QED BY <1>8, <2>1, <2>3, <3>1
  <2>5. got.vals = p
    <3>1. p = [j \in 1 .. Len(p) |-> p[j]] BY DEF Packet
    <3> DEFINE v == got.vals
    <3>2. v = [j \in 1 .. Len(p) |-> v[j]]
      <4>1. v \in Seq(MayHold(p)) /\ Len(v) = Len(p) BY <1>8, <2>3
      <4> HIDE DEF v
      <4> QED BY <4>1
    <3>3. \A j \in 1 .. Len(p) : v[j] = p[j] BY <1>8, <2>1, <2>3
    <3> HIDE DEF v
    <3>4. [j \in 1 .. Len(p) |-> v[j]] = [j \in 1 .. Len(p) |-> p[j]] BY <3>3
    <3> QED BY <3>1, <3>2, <3>4, Zenon DEF v
  <2> QED BY <1>0, <1>6, <1>8, <1>10, <2>4, <2>5
<1>11. CASE ~ (Len(E) <= Len(b))
  <2>1. got.used > Len(b)
    <3>1. CASE i = Len(p)
      <4>1. BytesBefore(p, Len(p)) = Len(E) BY EncodingPlaces
      <4> QED BY <1>0, <1>8, <1>11, <3>1, <4>1
    <3> QED BY <1>7, <3>1
  <2> QED BY <1>0, <1>6, <1>8, <1>11, <2>1
<1> QED BY <1>10, <1>11
=============================================================================

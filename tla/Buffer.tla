------------------------------- MODULE Buffer -------------------------------
(* Byte buffers (lib/middfs-buf.c): the memory between begin and end, of   *)
(* which the part up to ptr is in use.                                     *)
EXTENDS Integers, Sequences

CONSTANTS
    Byte,       \* values of a byte
    Junk        \* memory from malloc that nobody has written

ASSUME JunkAssumption == Junk \notin Byte

Buffers == [mem : Seq(Byte \cup {Junk}), used : Nat]

NoBuffer == [mem |-> << >>, used |-> 0]
Size(b) == Len(b.mem)
Rem(b) == Size(b) - b.used
IsEmpty(b) == b.used = 0
Contents(b) == SubSeq(b.mem, 1, b.used)

Least(m, n) == IF m <= n THEN m ELSE n
Most(m, n) == IF m <= n THEN n ELSE m

(* Slip: ptr - begin is taken after realloc has moved begin *)
Resize_Moved(b, n) ==
    [mem |-> [i \in 1 .. n |-> IF i <= Size(b) THEN b.mem[i] ELSE Junk], used |-> 0]

(* Slip: realloc is given one byte less than end - begin will say *)
Resize_Less(b, n) ==
    [mem |-> [i \in 1 .. n - 1 |-> IF i <= Size(b) THEN b.mem[i] ELSE Junk],
     used |-> Least(b.used, n)]

(* realloc keeps what fits and leaves the rest unwritten. *)
Resize(b, n) ==
    [mem |-> [i \in 1 .. n |-> IF i <= Size(b) THEN b.mem[i] ELSE Junk],
     used |-> Least(b.used, n)]

(* Slip: all bytes go *)
Shift_All(b, n) == [b EXCEPT !.used = 0]

(* memmove the bytes in use beyond the first n to the beginning *)
Shift(b, n) ==
    IF n >= b.used
    THEN [mem |-> b.mem, used |-> 0]
    ELSE [mem |-> [i \in 1 .. Size(b) |->
                     IF i <= b.used - n THEN b.mem[i + n] ELSE b.mem[i]],
          used |-> b.used - n]

(* Slip: a buffer without memory gets none *)
Increase_Doubles(b) == IF Rem(b) = 0 THEN Resize(b, 2 * Size(b)) ELSE b

Increase(b) == IF Rem(b) = 0 THEN Resize(b, Most(1, 2 * Size(b))) ELSE b

(* Store bytes in the free part, without or with moving ptr past them *)
Store(b, s) ==
    [mem |-> [i \in 1 .. Size(b) |->
                IF b.used < i /\ i <= b.used + Len(s)
                THEN s[i - b.used] ELSE b.mem[i]],
     used |-> b.used]
Advance(b, n) == [mem |-> b.mem, used |-> b.used + n]
CanAdvance(b, n) == Rem(b) >= n     \* assert(rem >= nbytes)
Added(b, s) == Advance(Store(b, s), Len(s))

(* Slip: no room is kept for what the buffer holds already *)
CopyRoom_Bare(b, s) == IF Rem(b) < Len(s) THEN Resize(b, Len(s)) ELSE b

(* buffer_copy makes room first. *)
CopyRoom(b, s) == IF Rem(b) < Len(s) THEN Resize(b, Size(b) + Len(s)) ELSE b
=============================================================================

------------------------------ MODULE MCCodec ------------------------------
(* Packets of every type for TLC, in words of two digits of base 64, wide   *)
(* enough for the magic number and the enums.                              *)
EXTENDS CodecCorrect

Owners == {<< >>, <<1>>}
Paths == {<< >>, <<2, 1>>}
Data == {<< >>, <<0>>, <<1, 0>>}
Modes == {0, 4095}                          \* 4095 is -1
Longs == {0, 70, 64 * 64 * 3 + 1}
SmallOffs == {0, 70}

Header(type) == <<MAGIC, type>>
Request(type, rest) ==
    {Header(REQUEST) \o <<type, <<3>>, o, p>> \o r : o \in Owners, p \in Paths, r \in rest}

Requests(offs) ==
    UNION {
      UNION {Request(type, {<< >>}) : type \in {4, 6, 7, GETATTR, READDIR}},
      UNION {Request(type, {<<m>> : m \in Modes}) : type \in {ACCESS, CHMOD, CREATE, OPEN}},
      UNION {Request(type, {<<s>> : s \in offs}) : type \in {READLINK, TRUNCATE}},
      UNION {Request(type, Owners \X Paths) : type \in {SYMLINK, RENAME}},
      Request(READ, offs \X offs),
      Request(WRITE, {<<Len(d), off, d>> : d \in Data, off \in offs}) }

Entries == [1 .. 2 -> Paths]
Response(rest) == {Header(RESPONSE) \o r : r \in rest}
Responses ==
    Response(
      {<<OK>>} \cup {<<ERROR, m>> : m \in Modes}
      \cup {<<STAT, m>> \o l : m \in Modes, l \in Longs \X Longs \X Longs}
      \cup {<<DATA, Len(d), d>> : d \in Data}
      \cup {<<DIR, 0>>} \cup {<<DIR, 2, e[1], 5, e[2], 6>> : e \in Entries})

Connects == {Header(CONNECT) \o <<m, o>> : m \in Modes, o \in Owners}

SmallPackets == Requests(SmallOffs) \cup Responses \cup Connects
Follow == <<1, 0>>
=============================================================================

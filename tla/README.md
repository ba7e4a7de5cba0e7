# A verification of middfs

middfs is a peer-to-peer file system. Every client mounts a FUSE directory in
which each user has a subdirectory; the files of a user stay on that user's
machine. A server relays each request to the client that owns the file and the
answer back. This directory holds TLA+ models of that code, TLC
configurations that check them, and TLAPS proofs about them.

Paths below are relative to `src/src/` of the repository.

## 1. The system

### Components

| component | code | state | operations |
|---|---|---|---|
| server poll loop and socket table | `lib/middfs-conn.c`, `lib/middfs-sock.c`, `server/middfs-server.c` | the table of `middfs_sockinfo` (type, state, two ends with descriptor and buffer), open descriptors | poll, accept, read event, write event, add and remove an entry |
| server packet handlers | `server/middfs-server-handler.c` | the state of an entry, its ends' descriptors | register, answer, forward, turn round, hang up |
| client registry | `server/middfs-client.c` | sorted vector of name, IP and port | add, find, list; remove is never called for a client that leaves |
| byte buffers | `lib/middfs-buf.c` | begin, ptr, end | resize, shift, increase, advance, read, write, copy, serialize, deserialize |
| serialization | `lib/middfs-serial.c`, `lib/middfs-pkt.c` | none | `serialize_pkt`, `deserialize_pkt` and one pair for each type |
| request exchange | `client/middfs-client-pkt.c`, `client/middfs-client-rsrc.c` | a connection, two buffers, two packets for each call | connect, send, receive, validate, copy out |
| local and root resources | `client/middfs-client-rsrc.c` | a descriptor for each open resource | one system call each |
| FUSE operations | `client/middfs-client-ops.c` | the file handle FUSE keeps | init, call and delete a resource |
| client responder | `client/middfs-client-responder.c`, `client/middfs-client-handler.c` | the same table as the server's; the owner's files | perform a request, answer |
| client start-up | `client/middfs-client.c` | | register, start the responder, mount |
| configuration | `lib/middfs-conf.c` | string table | load, get |

### Interaction

A FUSE thread of the requester opens a connection for each call, sends a
REQUEST packet and reads until a RESPONSE packet is complete. The server's
single thread reads the request into the entry's `in` buffer. It answers
itself if the request is for the root or the owner is unknown; otherwise it
connects to the owner's responder, writes the request from the `out` buffer,
swaps the two descriptors of the entry, reads the answer, serializes it into
`out` again, and hangs up after writing it. A responder runs the same poll
loop with other handlers. A CONNECT packet registers a name; the connection is
dropped without an answer.

So there is no shared memory between programs, and no lock in the server:
all interleaving is that of messages, of events poll has reported, of what
happens to the other ends between poll and the handler, and, at an owner, of
his own programs with the requests of others on one directory.

### What is hard

- Server and owners write with blocking calls while each waits to be read by the other.
- A directory that its owner changes while a listing is taken of it, and open files that are
  names to everybody but their owner.
- Registrations that outlive the processes that made them, and a server that forgets them all.
- Short reads and writes, and packets that are decoded again from the start
  whenever bytes arrive.
- Callers, owners and the network failing while a request is in any state,
  with a table and descriptors to be kept in order by hand.
- Events that are stale when they are handled, signals included.
- Descriptors, memory and socket buffers running out.
- Sizes and counts at the edges: empty and full buffers, 32 against 64 bits.
- An end of file that must be told from an answer.

`hazards` in `PROJECT.json` lists 38 such places with their lines and the
properties that watch them, or the reason why none does.

### What makes each component correct

- Poll loop and table: no assertion fails, every descriptor has exactly one
  place, an entry's ends belong to one request, connections do not disturb one
  another, all of them are served.
- Handlers: an answer reaches the caller whole; a request is performed at most
  once, by its owner; the answer is the owner's exactly if it was performed.
- Registry: a name is found exactly if it was registered, and a request reaches
  its owner if all processes of that name listen. That the latest registration is
  found is not promised: the vector keeps them all and `bsearch` returns any.
- Loops with blocking writes: they stop for good in one situation only.
- Files: what a call that succeeds says is so, a call that is refused has changed
  nothing, a request is performed once, and one that an owner has accepted is answered, whatever becomes of his listening socket.
- Buffers: first in, first out; no overflow; growth terminates.
- Serialization: decoding inverts encoding, and return values tell exactly
  when a packet is complete or does not fit.
- Exchange: a call succeeds only if it was answered so.

## 2. Modules

| module | what it is |
|---|---|
| `Server` | the server and everything that talks to it |
| `Relay` | abstract specification: what the server promises its callers |
| `ServerCorrect` | properties of `Server`, its inductive invariant, its fairness |
| `MCServer` | instances for TLC |
| `ServerProofs` | its types, its ownership invariants, what its connections carry, and that it implements `Relay` |
| `Buffer` | the buffer operations as operators on values |
| `BufferQueue` | one buffer under any calls, with its properties |
| `MCBufferQueue`, `BufferProofs` | its instance and its proofs |
| `Codec` | packets, serialization, deserialization |
| `CodecCorrect`, `MCCodec`, `CodecProofs` | its properties, the packets it is checked with, and its proofs |
| `ByteLemmas` | what the operators of `Buffer` and `Codec` do to bytes, for every proof about them |
| `Exchange` | one call of a client, over `Codec` and `Buffer` |
| `ExchangeCorrect`, `MCExchange`, `ExchangeProofs` | its properties, instances and proofs |
| `Clients` | the server's vector of clients, as operators on its value |
| `Registry` | processes that start, register, listen and die, and the server that looks them up |
| `Directory` | abstract specification: a set of registrations |
| `RegistryCorrect`, `MCRegistry`, `RegistryProofs` | its properties, instance and proofs |
| `Wedge` | the poll loops of server and owners with writes that block |
| `WedgeCorrect`, `MCWedge`, `WedgeProofs` | its properties, instance and proofs |
| `Home` | a directory and the system calls on it, external to the repository |
| `Files` | the operations FUSE calls, the requests made of them, and the owner's responder |
| `FilesCorrect`, `MCFiles`, `FilesProofs` | its properties, instances and proofs |

The modules describe one system at several grains. `Server` takes a packet as
`Parts` chunks, because what matters there is which packet a chunk belongs to
and whether it is the last. `Codec` and `Buffer` justify that grain: a packet is
taken for complete exactly at its last byte, and a buffer is a queue.
`Exchange` puts the byte-level modules together into the client's end. `Wedge` keeps of a packet only
its size. `Registry` and `Files` take an exchange as `Server` and `Exchange` leave it: a request is on its
way, is performed at most once, and is answered, refused or lost.

### Server

`table` is `struct middfs_socks`; `heap` in an entry tells whether a buffer has
been allocated, or freed with its pointer left in place. `ready` holds the
indices whose `revents` are set and not handled: the handlers run in the order of
the table while the world goes on, so an event may be stale. `file` maps every
descriptor to what it refers to; `accept` and `socket` give out the lowest free
one. A connection c has a request leg `<<"rq", c>>` and, if it is forwarded, a
peer leg `<<"pr", c>>`; `up`, `down` are the bytes in flight and `far` what the
kernel knows of the other end: open, closed (`fin`), reset (`rst`), or reset
after a close (`pipe`), where a write gets EPIPE and the signal.

| action | code |
|---|---|
| `Poll`, `PollFails` | `middfs_socks_poll` with `middfs_socks_check`; a failure and main's cleanup |
| `Accept`, `AcceptFails` | `handle_lstn_event` |
| `RdEnd`, `RdPartial` | `handle_pkt_rd` without a complete packet |
| `RdConnect`, `RdAnswer`, `RdForward`, `RdRefused`, `RdResponse` | `handle_pkt_rd` and the handler of the packet, to the end of the event |
| `WrChunk`, `WrShort`, `WrReset`, `WrPipe` | `handle_pkt_wr`: the blocking write, chunk by chunk |
| `WrRequestFin`, `WrResponseFin` | `handle_pkt_wr` after a write of zero bytes |
| `Dial`, `FarSend`, `FarRecv`, `FarClose`, `FarDeclines` | callers and responders |
| `FarDies`, `Bounce` | deaths, and TCP's answer to data for a closed socket |

A handler is one action, except for `write`, which blocks: `wrote` says that the
call in progress has accepted chunks, so a later error makes it a short
count. `Faults` chooses what may go wrong in an instance.

### Buffer and BufferQueue

A buffer is its memory (`end - begin` is its length) and the number of bytes in
use (`ptr - begin`). Memory nobody has written holds `Junk`. `BufferQueue` remembers
every byte put in and how many were taken. `buffer_serialize` is a loop, so it is
`Serialize`, any number of `Retry` and `Serialized`; the function it calls is
nondeterministic within the contract that `SerializerContract` establishes for the
real ones: more than the room it had, at most the length, and at most the room written.

### Codec

A packet is the sequence of its fields. `Kinds` gives the fields of each stage, where
a stage is a run of fields after which the code stops if it has read too far. Words have `Word` digits of
base `Base` (4 and 256 in the code). `Packet(p)` says that p has the fields of its type and that each is in the range of its
type (`Fits`); sizes and offsets are below half a word, beyond which `int32_t` (`Cast`) does not preserve them.

`PutField` writes one field after the others: `out` is what was written, `used` what the fields needed. `TakeField` decodes
one from what is left: `vals` are the fields set so far (`NotRead` where no byte has come). `SerializePkt(p, room)` and
`DeserializePkt(b)` are these steps for all fields, the latter stage by stage; `used` is the value returned. `Steps` is such a
run of steps, the loop over the members of a struct, as a function of the number of steps taken.

### Exchange

`pc` follows `packet_xchg`. `Send` and `Recv` move k bytes, `SerializeCall` is one turn
of `buffer_serialize`, `RecvEnds` the end of the loop of `packet_recv`, with `print_packet`: in a packet that
was not cleared it may follow any pointer that was there before (`Followed`), to a crash or not. The server's
end answers with any packet the owner's handlers or the server can give, writes it
in any portions, closes, and may stop before its answer ("decline") or within
it ("cut"). `leftover` is what an uninitialized `in_pkt` may hold.
`Wire`, `Serializing` and `Decoding` are `Codec`'s operators tabulated over the packets in
use, so that TLC computes each once.

### Clients and Registry

`clients` is the vector and the length of its memory. `qsort` may leave equal names in any order and `bsearch`
may find any of them, or anything in an array that is not sorted, so `clients_sort` and `client_find` are sets of
results. `client_cmp` compares names only; an entry also carries the process it came from, which the code does
not know, to tell two registrations of one name and place apart.

A process goes through `main` (`pc`): `Connects` reads the configuration, in which lines of the file override
the environment, and sends the connect packet, whose failure is not noticed; `StartsResponder`; `Mounts`. Meanwhile its
responder thread (`resp`) listens, or fails because the port is taken and the process goes on deaf. The server takes
the packet (`Registers`), looks a name up and dials (`Asks`), lists the root (`Lists`), and may be restarted.
`Asks` records who performs the request: whoever listens at the place found, since nobody compares `mr_owner`
with his own name. `Directory` is what remains if one does not look into the vector.

### Wedge

A request goes over the legs `ask` and `forward`, the answer over `answer` and `relay`; for each leg `unsent` is what its writer still has and
`pipe` what is in the connection, at most `Cap`. A thread polls, and handles each reported event once
(`ready`). A read takes what is there into a buffer that grows. A write takes the whole buffer
(`middfs-buf.c:145`), so a thread that finds no room stays in it (`at`), whatever else is reported.
`Wedged` is the server in the write of a forwarded request and the owner it is for in the write of an answer, with
both connections full. `Stopped` lets a behaviour stutter there, and when all is done, so that TLC's check for deadlock and
`OnlyWedged` say that no other state stops. This is the cause of the TODO's entry on large reads that hang.

### Home and Files

`Home` is the disk: names, what they refer to, and the calls on them, each of which returns a new disk, success and a
value; a call that fails leaves the disk alone. A file without a name lives while it is open.

A call of a user (`call`) is opening, opened, asked, answered, and returns. On his own directory it is one system call
(`LocalCall`), through the descriptor in `handle` if a program has the file open; on the mount's root or an
unsupported operation it is answered at once; otherwise it travels (`RemoteCall`). A listing travels twice, to open and to read
(`AsksAgain`), each time over a connection of its own, for which there may be no descriptor or no server. What is open on
another's directory is only a name.

The owner's responder is the poll loop again. `Accepts` takes a connection, with a descriptor, into the table: `accepted` are those
whose requests have not been handled, `conns` counts all that have not been closed. `HandlesRequest` performs
one in one step, since nothing else of his touches the directory within the system call that matters, but for a listing, which is
two: `CountsEntries` and `ReadsEntries`, or `MisreadsEntries`, where the process ends. `Closes` comes after the answer has been written,
at any time, since the caller may be slow to read. `late` is a request that outlives its caller. Descriptors are counted: open files,
streams of listings (never closed), sockets of failed connects (never closed), every connection that was accepted and not closed, and the
connection of a call. Without one for `accept` the listening socket is deleted (`AcceptFails`), and what was accepted before is not. Many
requests at once bring that about as well as leaks do. That one program with one call and one file open runs for
each user, and that he leaves at most one request behind, are bounds of the model, not of the code.
`Ends` is the end of a client for any reason: `middfs_link`, the
assertion in `client_rsrc_write`, a crash, a kill; it takes with it what is asked of it.

## 3. What is checked

| run | instance | properties | shows |
|---|---|---|---|
| `server_faults` | 3 connections, 3 descriptors, packets of 2 chunks, all faults | `TypeOK`, `NoAbort`, `DescriptorsOwned`, `LegsPaired`, `StreamsIntact`, `AnswerComplete`, `RelaySpec` | the safety of the relay under every fault, and that `Server` implements `Relay` |
| `server_served` | 3 connections, 6 descriptors, no faults, one connection that may stop anywhere | `StreamsIntact`, `Served` | two requests forwarded at once are not mixed up; everybody gets a whole answer |
| `server_hangs` | 2 connections, 4 descriptors, deaths and refusals | `NobodyHangs` | every caller's connection ends |
| `server_sigpipe` | as `server_faults` | `Survives`, violated | SIGPIPE can end the server |
| `buffer_queue` | 2 byte values, values of up to 3 bytes, 6 bytes in all | `TypeOK`, `Fifo`, `NoAssert`, `RoomOK`, `SerializeEnds` | a buffer is a queue, its assertion holds, growth ends |
| `codec` | every type of packet, words of 2 digits of base 64 | `WholeOnly`, `RoundTrip`, `PrefixHonest`, `SerializerContract` | encoding and decoding agree at every number of bytes |
| `exchange` | nine calls, portions of 1 or 2 bytes, all hang-ups | `TypeOK`, `CallTrue`, `Delivered`, `NoCrash`, `Returns` | a call returns, with what its answer means |
| `exchange_cut` | as `exchange` | `CutFails`, violated | a broken-off answer is a success |
| `registry` | four processes of two names on one host, one without a port, one restart of the server | `TypeOK`, `NoStranger`, `Reached`, `Known`, `DirectorySpec`, `Settles` | the vector implements `Directory`; whom a request reaches, and when a mounted client is unknown |
| `wedge` | three requests, two for one owner, sizes 1 and 2, connections that hold 1 | `TypeOK`, `WedgedByLarge`, `OnlyWedged`, `WedgeStays`, `Answered` | server and owner block one another over a large request and a large answer, for ever, and nothing else stops anybody |
| `files` | a guest and a host, 33 kinds of calls, 4 calls, 3 descriptors, one kill | `TypeOK`, `HeardOut`, `ListingAlone`, `Once`, `SaysTrue` | what calls say of the files is so, requests are performed once, and those that an owner has accepted are answered |
| `files_rename` | three users, two calls | `RenameTrue`, violated | a rename across owners succeeds and does not happen |

### Bounds

Three connections are one that registers an owner and two that ask for what is his: enough for
a descriptor to be closed for one and given out to the other, and, with six
descriptors, for two requests to be forwarded at a time. With three descriptors (one of
them the listener's) accept and the dial to the owner fail in every position. Two chunks
are the least that makes reads and writes short and leaves a tail to be lost. Two
directions of two chunks' room let a whole packet wait unread when its owner dies.
Connections are interchangeable, so their permutations are a
symmetry; it is used only where no liveness is checked (the action property
and the refinement are safety and symmetric). Liveness runs keep the room and parts
at one or two to stay small.

A buffer's growth doubles from one: six bytes pass through sizes 1, 2, 4 and 8 and
through shifts at each. In `codec` a magic number and every enumeration fit a word; numbers
beyond a word and -1 (all bits) occur. Sizes and offsets stay below half a word, since `int32_t` loses the rest. In `exchange` words have one digit, so a call is 8 to 13
bytes and both ends cut it in any way of ones and twos.

In `registry` the four processes are a client, the same user started again from another port of his file, another user at the
first one's place, and one without a port. That is the least for two entries of one name, for one of them dead, for an
address in use, and for a stranger at a registered place; three entries take the vector through lengths 1, 2 and 4.

In `wedge` only the order of sizes to `Cap` matters, so 1 and 2 against 1 stand for fits and does not fit. The cycle needs two
connections of one owner; the third, for another owner, is there to be dragged along, or not.

In `files` three descriptors are taken by three connections that were accepted, or by an open file and two of them, or by a listing,
its connection and what was left open before, so that every operation meets a full table, and accept fails, within four
calls: by leaks, and by connections alone. Two names and three files let a name be replaced while the old
file is open. The guest asks for everything that travels, the host does everything that is local; he is asked while he lists, writes,
renames and removes. Programs stop after `MaxCalls`, so deadlock is not checked there: nothing is left to do.

### Fairness

`Server`: the server is one thread that the scheduler runs (`WF` of `ServerStep`); ends
in `Conns \ Mute` keep sending, reading and closing, and TCP delivers resets. Nobody has to
dial, die or decline. Weak fairness is enough because a step of the server, once
possible, stays possible until it is taken. In `server_served` the
connection in `Mute` may stop for ever at any point, which is what poll is there for. A packet
there is one chunk and fits the socket, so no write of the server blocks: a
blocking write to a connection that stopped is the hazard of `lib/middfs-buf.c:145`.

`Registry`: the threads of each process and the server run on; nobody need die or be asked. `Wedge`: every thread takes a step when it
has one (weak fairness of the whole loop of a thread, since the loop handles each reported event once before it polls again,
in which the model's `ready` set stands for the order of the table), and so does each caller. `Files` uses fairness only in
`files_rename`, where processes that run go on.

`BufferQueue`: `buffer_serialize` runs on. `Exchange`: the client's thread
and the server's end run on; the server's end may hang up but does not stop without closing,
as the client has no timeout.

### Findings

1. `lib/middfs-conn.c:309`: SIGPIPE is not ignored; a caller that dies at the wrong time ends the server (`server_sigpipe`).
2. `client/middfs-client-pkt.c:65`: an end of file within an answer is reported as success, and with
   it a call that was refused (the type of the answer, not read yet, is still 0, `MRSP_OK`), or a
   copy from a pointer that was never set (`exchange_cut`).
3. `client/middfs-client-rsrc.c:461`: a rename from one owner to another passes the test for one namespace, and
   is done within the directory of the owner of the source (`files_rename`).

`CallTrue` and `NoCrash` state what holds in spite of 2: unless the server's end stops within an
answer. They also except `lstat` and `write`, which do not clear the packet they receive into: it is printed and validated as it is.
`SaysTrue` is checked with calls that stay within one owner's directory, in spite of 3.

Behaviour that the models contain, and that no run is spent on to show:

- `lib/middfs-buf.c:145`: server and owner may block one another for good. `WedgedByLarge` says when.
- `lib/middfs-sock.c:37`: the cleanup after a failing poll frees the buffers of removed entries again (`PollFails`).
- `lib/middfs-serial.c:341,351`: sizes and offsets are cast to `int32_t` before they are sent as 64 bits (`Cast`).
- `lib/middfs-buf.c:189`: the loop runs once more for each byte of a string's excess (`Retry`).
- `client/middfs-client-rsrc.c:640`: an error answer to a write aborts the client (`Aborts`).
- `server/middfs-client.c:109`: users are listed once for each time they registered, and also when they are gone,
  where the README speaks of connected clients (`clients_readdir`).
- `lib/middfs-conn.c:217`: an owner who is asked for too many listings, or by too many at once, is deaf until he is restarted (`AcceptFails`).
- `client/middfs-client-pkt.c:73`: `lstat` and `write`, cut off before the answer's header, print what was on the stack (`RecvEnds`).

## 4. What is proved

For every value of the constants, under the assumptions named in the modules:

| theorem | module | property |
|---|---|---|
| `TypeCorrect` | `ServerProofs` | `TypeOK` |
| `NoAbortCorrect` | `ServerProofs` | `NoAbort` |
| `OwnershipCorrect` | `ServerProofs` | `DescriptorsOwned` |
| `PairingCorrect` | `ServerProofs` | `LegsPaired` |
| `StreamsCorrect`, `AnswersComplete` | `ServerProofs` | `StreamsIntact`, `AnswerComplete` |
| `ImplementsRelay` | `ServerProofs` | `RelaySpec`: `Server` refines `Relay` |
| `BufferTypeCorrect`, `FifoCorrect`, `NoAssertCorrect`, `RoomCorrect` | `BufferProofs` | `TypeOK`, `Fifo`, `NoAssert`, `RoomOK` |
| `WholeOnlyHolds`, `RoundTripHolds`, `PrefixHonestHolds`, `SerializerContractHolds` | `CodecProofs` | `WholeOnly`, `RoundTrip`, `PrefixHonest`, `SerializerContract` |
| `TypeCorrect`, `CallsTrue`, `AnswersDelivered`, `NoCallCrashes` | `ExchangeProofs` | `TypeOK`, `CallTrue`, `Delivered`, `NoCrash` |
| `TypeCorrect`, `KnownCorrect` | `RegistryProofs` | `TypeOK`, `Known` |
| `StrangersAnswerForTheDead`, `RequestsReach` | `RegistryProofs` | `NoStranger`, `Reached` |
| `ImplementsDirectory` | `RegistryProofs` | `DirectorySpec`: `Registry` refines `Directory` |
| `TypeCorrect`, `OnlyLargeWedge`, `WedgedForGood`, `StopsOnlyWedged` | `WedgeProofs` | `TypeOK`, `WedgedByLarge`, `WedgeStays`, `OnlyWedged` |
| `HeardAreAnswered`, `ListedAlone`, `PerformedOnce` | `FilesProofs` | `HeardOut`, `ListingAlone`, `Once` |
| `TypeCorrect`, `TrueAnswers` | `FilesProofs` | `TypeOK`, and `SaysTrue` where finding 3 does not apply |

Assumptions: descriptors are natural numbers, the root is no user's name, packets and
connections have positive size, and the four things a descriptor may refer to (a socket, the
listener, nothing, a leaked socket) are different; `Junk` is no byte; values are byte sequences; names are
numbers, and what is not set is none; connections hold at least one and packets have a size; the server is no owner, the
root is no user, and requests are of the operations FUSE calls with arguments of their kinds. A file is read and written
through what is open, a call in a user's directory has a name there unless it is a listing (`Sensible`), and a directory has
finitely many names, at least one of which is possible; no listing and no request is `None`. `TrueAnswers` has a hypothesis of its own, `StaysThere`: no program
renames from one other user's directory to that of yet another. That is the case of finding 3, where `RenameTrue`, and so `SaysTrue`,
fails; every other rename across directories is refused, which is part of the proof.

The packets of `Codec` and `Exchange` are any for which `Packet` holds (`SentAssumption`, `PacketsAssumption`): every type the code
sends, with fields in the range of their C types, strings without a zero byte, and sizes and offsets that survive the cast to
`int32_t`. A word has at least one digit and the base is at least two; in `Exchange` the digits are byte values. Nothing is assumed of
what `Codec` computes: that the packets of `Exchange` are decoded at their last byte and not before (`PacketsCarried`), and that as much of
them is written as there is room for (`PacketsWritten`), follows from the lemmas about `Codec`. The other assumptions of `Exchange`
are that requests are of the types that are sent, reads and writes with a size, and error codes are positive.

**Server.** `DescriptorsOwned` is not inductive. A handler closes or passes on descriptors
by the state of its entry, so one needs that an entry is deleted, the listener or
paired with one connection (`TableOK`); that an accepted or dialled socket is new, hence that no
two descriptors refer to one socket and the backlog has no connection twice (`FilesOnce`,
`BacklogOK`); and that an answer is never read where a request is expected, hence which kind
of packet travels on which leg, and that a caller sends no more than one packet
(`StreamsOK`, `ReadOK`). `IInv` is their conjunction with `TypeOK` and `NoAbort`. The proof has one lemma for each
group of actions; two lemmas carry most of them: an entry that changes its ends among descriptors
it owns (`RewireRunning`), and entries that are removed (`DropRunning`).

`StreamsIntact` is not inductive either: a chunk passes through two buffers and is written to whatever descriptor the entry
then holds. `Relaying` adds to `IInv` what the connections of a caller and its entry hold between them. `LegsOK`, for each
caller: every chunk under way is one of the packet that belongs there, there are no more than a packet has, an owner is
dialled only for a registered name, and answers only after he has the whole request. `HoldsOK`, for each entry by its state: the
buffers hold the rest of the request, nothing, the answer so far, or the rest of the answer. A caller that waits in the backlog
is `Fresh`. There is one preservation lemma for each action (`WriteRelays` and its neighbours, joined in `NextRelays`).
`AnswersComplete` follows because an entry whose caller listens is deleted only with nothing left to write
(`AnswererDropped`). For `ImplementsRelay`, `RdConnect` is `Register`, the `FarRecv` that completes a packet is `Perform`
or `Answer`, and every other step stutters (`StepsImplement`); that dialling the owner changes who is to answer, but not an
answer that was given, is `SameFor`.

**Buffer.** `Fifo` needs the type invariant, since ptr must be within the memory for a store to
leave the bytes in use alone, and `RoomOK`, since `buffer_serialize` trusts the `room` it computed before the
resize. `IInv` is `TypeOK`, `Fifo`, `NoAssert` and `RoomOK`; `ResizeKeeps`, `IncreaseRoom`, `ShiftKeeps` and
`StoreKeeps` say what each operation does to the bytes in use.

**Codec.** A packet has any number of fields (a listing has two for each entry), a field any number of bytes and a word any number of
digits, so everything rests on induction. The library's induction rules take an operator and cannot be cited, but the
well-foundedness of < can: a set of numbers without a least element is empty. `InductionOnSets` says this of the counterexamples,
and each proof by induction names the set of numbers its claim holds for. `Steps` is a recursive function; that it satisfies its equation is the
same argument, once for each use (`PowersSteps`, `NumberSteps`, `ThroughSteps`, `PutsSteps`, `TakesSteps`). From there:
`NumberOfDigits`, `ntohl` undoes `htonl`; `FieldDecoded`, one field is taken from any bytes that begin with its encoding, and
is not from fewer; `FieldStored`, one field is written as far as the room reaches.

The invariant of `serialize_pkt` is `PutsInv`: what was written is a beginning of the packet, and all of it as long as the fields so
far fit; otherwise `used` is past the room. After an incomplete field nothing more is written, since no room is left, which is
where `sizerem` matters. For `deserialize_pkt` it is `DecodedAfter`, within a stage, and `DecodedTo`, after it: each field
is decoded as it was or not at all, and rightly as long as `used` is within the bytes there are. So the fields that choose the next
stage's (types, a size, a count) were read when they are looked at, and `SameKinds` says that a stage of what was decoded is that of the packet.
`PktSerialized` and `PktDeserialized` join this for whole packets, and the four properties are these two lemmas about the packet chosen
(`Chosen` is the invariant of `CodecCorrect`).

**Exchange.** None of the properties is inductive: what a call returns depends on bytes that were cut up twice and moved through
four places. `IInv` adds where they are. `Outgoing`: what the server's end has read, what is on the connection and what is in use of
the client's buffer are the request, in this order, and the room that `buffer_serialize` believes in is the size of its
buffer. `Incoming`: the same of the answer, of which a client still reading lacks at least a byte. `Returned`: a call
returned what its whole answer means, or what one may return that received nothing (`Blank`; nothing is said of calls that do not clear their
packet), unless the answer was cut off. Three lemmas on parts of a
sequence (`PartBegins`, `PartEnds`, `PartsJoin`) move the bytes, with `AddedQueue` and `TakenQueue` of `ByteLemmas` at either end. That
the answer is acted on in the step that completes it, neither sooner nor later, is `PrefixDecoded`; what each handler makes of each answer is
`WholeOutcome`, by cases (`AnswerKinds`), and what it makes of none `OutcomeOfNothing`. That `RecvEnds` never finds a buffer without room is
`IncreaseRoom`. The proofs hold whatever is left on the stack (`Leftovers`): `CallTrue` and `NoCrash` leave out the calls that do not clear their packet, and the others never see it.

**Registry.** That a lookup finds what was registered needs the vector sorted, since `bsearch` promises nothing otherwise, and each
process in it once, since a list is as long as the set of registrations only then. `IInv` adds that two processes do not listen at one place
(`Alone`, for `Reached`), that what was taken is in the vector (`Kept`) and that a packet has been sent by who is
past sending it (`Begun`). The refinement maps `regs` to the elements of the vector; the step that is not immediate is
`Registers`, where any reordering of the vector with one more entry has that set of elements and is sorted (`AddSorts`, `AddPermutes`).

**Wedge.** A leg is begun when the one before it is over (`Ordered`), a thread in a write has more to write
(`InWrite`), and what poll reported is still so when it is handled (`Reported`): nobody else reads or writes that end. From this,
`OnlyWedged` is an argument about who waits for whom. If nobody can go on and the server is in a write, it is not that of an answer, which the caller would
read; so the owner has a request to read and is himself in a write, of an answer that the server would read
(`BlockedServer`, `BlockedOwner`). If the server polls in vain, no owner is in a write, and each leg in turn is seen to
be over (`StoppedDone`).

**Files.** `Once` and `ListingAlone` follow from each action: only `LocalCall` of the owner and `HandlesRequest` change names or
contents, `Reclaim` only what has no name. `IInv` is the shape of a directory (`Shaped`: names point to files or to none) and of the
requests that are sent (`Requested`), which decides which handler performs them.

`HeardOut` is about a step, and needs to know what an owner has accepted: `Hearing` says that these are requests to him which are on their way and
not listed for, or late ones, and that each has a connection of its own that is not closed. Three things are to be shown. Nobody but
the owner answers an accepted call: the server only answers those that are not `Heard`, and no second owner has it, since a call
is on its way to one. What is taken out of `accepted` is performed in that step, or becomes the listing, and the listing ends in an answer.
And when processes end, the calls of the others stay, and those left behind take the place of the calls they were, without
needing more connections: that is a bound on a cardinality (`AbandonedFew`). That accept fails changes neither.

`TypeOK` says of a disk that what is on it has a name or is open, and the converse, so every call must be
shown to leave names and handles on something (`Backed`, one lemma for each call, joined in `LocalBacked` and `HandledBacked`) and
`Reclaim` to leave nothing else (`ReclaimExact`). It is not inductive: a name that is not a name of the directory, a file opened while
another is, or a listing whose caller is at another owner would break it. `Typing` adds what calls, late requests and
handles are about (`TypedRequest`, `Goes`, `IsNamed`), that nothing is open in a program that opens another's file, and that the one who waits for a
listing asked that owner for it. One lemma for each action keeps it. `TypeOK` follows from `IInv`, `Typing` and `Hearing` (`Invariant`), which are
inductive together.

`SaysTrue` is proved from `Invariant` in two parts. What a call on a directory says of it: that an open leads where its name now
leads (`OpenReaches`), what is stored stays (`StoreStays`), a renamed file is under its new name only (`RenameMoves`), and so on, for the
owner's branch (`LocalSays`) and for the responder's (`HandledSays`), and that a refused call leaves the disk as it was, after
`Reclaim` too (`LocalRefuses`, `HandledRefuses`, `ReclaimNothing`). And who is answered in a step: nobody whose call goes on or is
lost (`NoAnswer`). A listing has all names if as many were counted, because a subset of a finite set with its cardinality is that set.

Only model-checked: liveness (`Served`, `NobodyHangs`, `SerializeEnds`, `Returns`, `Settles`, `Answered`), which needs `ENABLED`.
Every invariant, action property and refinement of the passing runs is a theorem. TLAPS does not apply to the three runs that
show a violation.

## 5. Not modelled

- Paths of several components, offsets and sizes of reads and writes, short writes to a file (a full disk), permissions of others.
- Calls on a user's directory itself, other than listings (`getattr`, `access`, `open` of it).
- Several files open, or several calls going on, in one client at a time; `statfs`, which asks the mount's own path, and `init`.
- The blocking writes of `Wedge` in the presence of deaths; those of `Server` in the presence of full connections.
- Interrupted system calls, allocation failures other than poll's, `middfs_socks_pack` (not called), `clients_remove`
  (reached by no caller), `conf_set` and `conf_unset` (stubs that abort).
- `fuse_main` going into the background, which leaves the responder's thread behind: it depends on libfuse.
- Option parsing, the mirror functions (not called), logging, and printing but for the pointers that `print_packet` follows.
- Packets that no middfs program sends.

## 6. Plan

The order is that of the damage a fault would do: first what every user's request passes through.

1. Done: `Server`, `Relay`, ownership proofs; `Buffer` and its proofs; `Codec`; `Exchange`; `Clients`, `Registry`, `Directory` and their
   proofs; `Wedge` and its proofs; `Home`, `Files` and the proofs of `HeardOut`, `ListingAlone` and `Once`.
2. Done: `StreamsIntact`, `AnswerComplete` and the refinement of `Relay`; the types of `Files` and `SaysTrue`; the safety properties of
   `Exchange`.
3. Done: serialization and deserialization of packets of any length (`CodecProofs`), on which the proofs about `Exchange` now rest.
4. Left: what section 5 lists, first of all partial writes to files and interrupted system calls.

## 7. Running

    tlc -workers 2 -config MCServerFaults.cfg MCServer
    tlc -workers 2 -config MCRegistry.cfg MCRegistry
    tlapm ServerProofs.tla

and in the same way for the other configurations and proof modules. The longest run takes about two minutes.

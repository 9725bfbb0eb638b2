# Shepoo in TLA+

Models, model-checking runs and machine-checked proofs of the Shepoo server
(`server/` of the repository). Every definition is written from the source;
`PROJECT.json` maps each one to the lines it stands for.

## 1. The system

A Shepoo server is one C++ program. `main()` reads its arguments, may turn
itself into a daemon, measures the block file, connects the packet handler to
the signal of the network class and enters an accept loop. Each connection is
handed to a forked child. The child performs the TLS handshake, reads *one*
packet, answers it or not, and exits. There are no threads: all concurrency is
between processes, and between the child and its client.

    client  --TCP-->  listening socket --accept--> server process (ListenLoop)
                                                       | fork
    client <--TLS records-->  SecNet (child)  --receivedPacket signal-->  Protocol (child)
                                                                             | calls
                                        block file <--open/read/lockf--  Blockstorage (child)

| component | source | state | operations | talks to |
|---|---|---|---|---|
| Block storage | `blockstorage.cpp` | `_path`, `_fileLength` (measured once), the file, locks of others | constructor, `isBlockAvailable`, `getBlock`, `storeBlock` (empty) | the file, which other programs change |
| Listener | `secnet.cpp` 21-23, 387-456 | listening socket, `newSocket`, descriptors of every process, process table | bind/listen, accept, fork, the two `close` calls, log | kernel, children |
| Connection | `secnet.cpp` 21-319 | TLS stream, `_webSocket`, header lines, frame header, packet, payload | handshake, header, payload, HTTP lines, frame, `sendPacket` | client, the signal |
| Protocol | `protocol.cpp` | pointer to the storage | `packetReceived`: seven cases | connection, storage |
| Signals and slots | `sigslot.h` (vendored) | lists of connections and senders | connect, disconnect, copies, emit, destructors | `main` connects once, the connection emits |
| Startup | `main.cpp`, `secnet.cpp` 321-456 | options, working directory, descriptor numbers, `std::cout` | options, argument checks, path completion, `daemonize`, reading the TLS files, first clients | all of the above |
| Shuffle server | `shuffle.cpp` (empty) | none | none | - |
| Linux driver | `drivers/linux/shepoo.c` (stub) | none | load and unload messages | - |

What is hard here, and untested in the repository (it has no tests):

* **Bytes in records.** `SSL_read` returns at most one record and its result is
  never looked at: short reads, early closes, reads of zero bytes.
* **Processes and descriptors.** Two `close` calls in two processes decide who
  holds a connection and the listening socket; forks fail; zombies stay; the
  server may die between a fork and the child's first line.
* **A file that others change** between `stat`, `open`, `lockf` and `read`.
* **Arithmetic on `uint64_t`** in the availability check, the frame checks and
  the length of an answer frame.
* **Descriptor numbers and the working directory**, which `daemonize` changes
  between the moment a name or a number is taken and the moment it is used.
* **Callbacks**: a slot that leaves the list that is calling it.
* **Uninitialised data**: `_webSocket`, the block and the payload buffers.
* **Byte order**: the extended length of a WebSocket frame is read and written as it
  lies in memory, and RFC 6455 has it in network order.
* **Results nobody looks at**: `open`, `read`, `stat`, `SSL_read`, `SSL_write`.

The hazards are listed one by one, each at its line, in `PROJECT.json`.

What makes each component correct:

* *Block storage*: a block that is returned is the block that was asked for,
  from one file, as far as the system delivered it; the check is exact; nobody
  waits for somebody else's lock.
* *Listener*: a child has its own connection and no other; nothing leaks; every
  client in the queue is accepted or reset; one without a child is closed.
* *Connection*: what is emitted is what was sent; the receiver cannot be made to
  read past the payload; an answer is decoded or refused, never mistaken; the child
  ends.
* *Protocol*: every request gets the answer that the state of the file calls
  for, and a request that has an answer gets it.
* *Startup*: only a complete command line makes a server; every file is the one
  that its user meant; the log stays out of the connections.
* *Signals and slots*: both sides of a connection agree that it exists; nothing
  destroyed is called; an emission calls everyone who stays.

## 2. Modules

| module | models | extends |
|---|---|---|
| `BlockStorage` | the block file and children in `getBlock`, one step per system call | - |
| `BlockReads` | abstract: each `getBlock` is one indivisible read | - |
| `BlockStorageProofs` | theorems about `BlockStorage`, and that it implements `BlockReads` | `BlockStorage` |
| `Listener` | server process, children, kernel sockets | - |
| `Sessions` | abstract: what the accept loop promises its clients | - |
| `ListenerProofs` | theorems about `Listener` | `Listener` |
| `PromiseProofs` | `Listener` implements `Sessions` | `ListenerProofs` |
| `SecNet` | one connection, from the handshake to the end of `sendPacket`, with any receiver of the packet | - |
| `SecNetProofs` | theorems about it | `SecNet` |
| `Protocol` | `packetReceived` as that receiver | `SecNet` |
| `Exchange` | abstract: what a child promises its client | - |
| `ProtocolProofs` | theorems about `Protocol`, that `SecNet`'s hold of it, and that it implements `Exchange` | `Protocol`, `SecNetProofs` |
| `Shepoo` | the whole server: accept loop, restarts, a child per connection, the block file | `Listener`, instances of `BlockStorage` |
| `ShepooProofs` | theorems about it | `Shepoo`, `ListenerProofs` |
| `Startup` | `main`, `daemonize`, `Initialize`, and the first clients' descriptors | - |
| `StartupProofs` | theorems about it | `Startup` |
| `Sigslot` | signals of any arity and objects with slots | - |
| `SigslotProofs` | theorems about it | `Sigslot` |
| `MC...` | instances for TLC | the module of that name |

### BlockStorage

`path` is the inode that the name refers to, `size` the length of every inode,
`fileLength` the snapshot that the constructor took. A child goes through
`CallAvailable` (or `CallUnavailable`), `OpenFile` or `OpenFails`, `LockBlock`,
`ReadBlock` or `ReadFails`, `CloseFile`; between any two of them the environment may delete, replace or
resize the file and take or drop locks on its regions. A byte of the file is the
pair of its inode and its offset; a byte that `read` did not write is `Garbage`.
`OpenFails` is `open()` with -1 on a file that is there (no permission, no descriptor
left), `ReadFails` a `read()` that fails or stops after any number of bytes. The code
looks at neither result, so the child goes on as before; `failed` remembers that it
happened, for the properties only, and forgets it at `close()`.
`uint64` is `% Width` and is applied where the code computes in `uint64_t`.
`lockf` returns at once because the descriptor is read-only (`OpenMode`): the
model has the waiting version of it too, and the liveness mutant uses it.

`BlockReads` is what a caller of `getBlock` may rely on, without system calls: the
read takes effect at one moment between call and return, on the file that is under
the path at that moment. The refinement mapping has to say when that moment is
although the code looks at the path in `open()` and at the contents in `read()`.
While the path still names the open file, the read is to come and happens at
`read()`. As soon as the path names another file it *has* happened, because nobody can
change the old inode any more: the mapped value is what `read()` is going to
return. With `fd = -1` it happened at `open()`, on no file if there was none. When a call
fails, the read happens at that call and its view *loses its end* (`ReadCut`, or `Lose`
for a read that had happened before): a failing `open()` costs all of the block, a
failing `read()` what it did not deliver. `BlockReads` allows this to a reader in `failed`
only, and what is left is still a view of the one file. A change of the file can
therefore let several reads happen at once, just before it. The mapping rests on
the named assumption of the model that a file which has lost its name keeps its
length (`InstallFile` and `ResizeFile` touch the inode under the path only).

### Listener

`fds` gives the sockets that each process holds. `CloseTo` is what the kernel
does after a descriptor is closed: a connection ends with its last descriptor,
queued ones with the last descriptor of the listening socket. The server's
actions are `Start` (socket, bind, listen), `Accept`, `Fork` or `ForkFails`,
`ParentCloses` (`close(newSocket)` and the log line); a child's are
`ClosesListener` (`close(SecNet::_serverSocket)`) and `ChildExits`.
`ServerDies` may happen at any point. A client may close (`PeerCloses`) or reset its
connection (`PeerResets`): a reset connection gives its port back at once, though the
child still holds the descriptor, which is why `NoOrphanBesideServer` allows an orphan
whose client has reset. A failing `accept` and a failing `bind`
change nothing and are stuttering steps.

`Sessions` is the same loop as a client sees it. `ServiceState` is `up`, `down`, or
`closing`: the server is dead, but a child that has not come to its first line
still holds the listening socket, and the kernel goes on completing connections
for it. `SessionState` calls an accepted connection `taken` before the fork, `served`
while its child lives and `finished` when a quick child has gone before the
server closes its copy. The queue is the backlog. Sessions demands order of
arrival, one connection in the server's hands at a time, that no session ends by
the doing of another one or of the server's death, that the queue is emptied by
nothing but that death, and that no server opens while a session lasts.

### Shepoo

`Shepoo` puts the parts together: the processes of `Listener`, and in each child
`getBlock` of `BlockStorage`, taken as `Storage(p)`, the module with the length that
process p inherited. The server measures the file when it starts (`StartServer`),
hands the length down at each fork (`ForkChild`), may die and be started again while the
file is deleted, replaced or resized. A child goes through `reading`, the `lines` of an
HTTP request, the `handler` of the packet, and `over`; its answer goes into `told`.
Bytes and records are `SecNet`'s matter: a request arrives as a whole or not at all.
Two of the seven commands are here, those that ask about the file; the others are
in `Protocol`. What only the composition can show: answers of *different* children
agree, a client that has asked is answered or cut off whatever else goes on, and
a dead server can be started again.

### SecNet and Protocol

The client's bytes are cells, each a pair of a kind and a value (a packet's
version and command, its length, a payload byte, an HTTP line, the two bytes of
a frame header, an extended length, a masking key). The client sends them in
records that end wherever it likes and may close at any moment. `Read(n)` is
`SSL_read`: at most n cells of the first record, or nothing after a close. Each
read and each write of the code is one action. A cell taken for another kind,
or never read, may have any value.

An extended length is one cell with a number in network order, as RFC 6455 has it.
The code copies it between memory and stream without `ntohs` or `be64toh`
(`secnet.cpp:256-264` and `103-111`): `InHostOrder` is what that does to the number, by
the constants `HostOrder16` and `HostOrder64`, which are any permutations that are their
own inverse: the identity on a big-endian host, the reversal of the bytes on a
little-endian one. `ReadFrameLength` and `SendLength` apply it; a client of RFC 6455
(`FrameHead`, `LengthIn`) does not. A frame is `Legible`, an answer `Readable`, if its
length is below 126 or reads the same both ways.

For the length 2^64 - 1 the size of the array in `secnet.cpp:274` wraps around to nothing.
`ReadFrameNoArray` is the rest of the function on that array: a crash, or, on a frame
without mask, a packet made of what lies on the heap. `FrameNotAllocated` is a failing
`new`. `SSL_read` of a length that is negative as an int is taken to fail at once, as
OpenSSL does since 1.1; lengths between 2^31 and what `new` would give are outside
`MaxHeap`.

`Protocol` replaces the arbitrary receiver of `SecNet` by `packetReceived`. The
block file is a constant there, because other programs' changes to it are
`BlockStorage`'s subject.

`Exchange` is the connection as its client sees it, without records, frames and headers.
`ExchangeState` is `greeting` during the handshake, then `waiting`, and at the end
`answered` or `over` (no answer, a refusal or a crash). `Heard` is the packet decoded
from all that the client has received, once the child is done. What `Exchange` demands
of the end of the wait depends on the client: nothing for one that does not keep to the
protocol, a right answer or none for one that does, and for one that keeps to it, waits,
asks for something that is there and whose frame is legible, an answer. What it decodes
of that answer is the answer itself, or nothing where the answer's frame is not readable.

### Startup

One action per step of `main`, `daemonize` and `Initialize`, and the accept loop
as far as descriptor *numbers* go: `LowestFree` is the number that `open`,
`socket` and `accept` return, `fds` what each number of each process refers to,
and `cout` the number that `std::cout` writes to, with its badbit. `Listener` says
which process holds a socket; only numbers tell where a line of the log goes. A
`world` fixes which calls fail and which files cannot be read. A line that is
written to a socket of a client puts that client into `leaked`.

### Sigslot

A connection has its place in the list of its signal (`id`, as lists only grow
at the end), its signal and its object. `senders` is `m_senders`. `frame` holds the
local variables of a running `emit()`: `it` and `itNext`, and the object that is being
called, during which any call to the library may come from that object, or `exit()`
(`ExitInSlot`): the server's slot ends the child in the middle of the emission, which
destroys the static signal that is calling. A call
that reaches something destroyed sets `broken`. What the library does not support
and the server does not do is excluded by four guards (`MayAdd`, `MayConnect`,
`MayRemove`, `MayDestroySignal`). The nine arities are the same text; a comparison
of the classes with their parameter lists taken out finds no other difference
than the order of two functions and a `this->`. `PROJECT.json` cites the arity that the
server uses, `signal3`, for each operation, and the first class for their disjunction
(`SignalCalls`).

## 3. Runs

| run | bounds | shows |
|---|---|---|
| `MCBlockStorage` | one child, blocks of 2 bytes, 4-bit `uint64_t`, files up to 4 bytes, two inodes, failing `open` and `read` | `AvailabilityExact`, `BlockAsked`, `GarbageOnlyFromShrunkFile`, `GetBlockReturns`; `BlockReads` is implemented |
| `MCListener` | 3 connections, any of which may be reset, 2 process slots, queue of 2 | isolation, ownership, no leak, no orphan beside a server, queue and connections drain; `Sessions` is implemented |
| `MCShepoo` | 2 connections, 2 process slots, queue of 1, 2 starts, blocks of 1 byte, files of 1 or 2 bytes, one inode, one request of each kind, one connection that may be reset | children agree, clients are answered or cut off, a restart is possible |
| `MCSecNet` | 20 requests, 2 early record ends each (1 for long frames), 5 lines in the array, answers of 1, 5, 6 and 8 cells, little-endian host | delivery, bounds, header parsing, decodable answers that no unread input resets, service, termination |
| `MCProtocol` | 26 requests of all commands on both transports, 2 early record ends (1 for long frames), blocks of 3 cells, a file of 7, little-endian host | right answers, answers at all, the one crash; `Exchange` is implemented |
| `BlockStorageShuffleOnly` | no file | finding |
| `SecNetLargePayload`, `SecNetPlainAnswer`, `SecNetSpin` | as `MCSecNet` | findings |
| `MCStartup` | 22 command lines, 3 directories, 7 worlds, any standard descriptors open, 2 clients | the right files, a proper command line makes a server, the log in its place, one client at most gets lines of it |
| `StartupLog` | as `MCStartup` | finding |
| `MCSigslot` | 2 signals, 3 objects with slots, 6 connections | agreement of both sides, nothing destroyed is used, emission is complete |

Why the bounds suffice. Children in `getBlock` share nothing, so one shows what
any number do, and the proofs are about any number. Two inodes are the old and the
new file; block numbers 0 and 1 lie in the file, 2 does not, and 8 wraps around to
offset 0. Three connections and two slots allow a served client, a zombie and a
failing fork at once. In `Shepoo`, two connections are the two children that
must agree, or the orphan and the client of the restarted server; block 1 is in a
file of 2 bytes and not in one of 1; a failing fork is reached in `MCListener`. The two
connections are alike but for `Resets`, so `Earlier` has c1 opened first: every
behaviour has one of that kind with the names exchanged, except those in which the
connection opened second is reset, which `MCListener` has. Two early ends split any packet header and its payload, or
the HTTP request and one part of the frame; one is enough to set a long frame off from
the HTTP request, as the short ones show what the other does. Lengths are scaled
(`LEN16` 5 for 126, `LEN64` 6 for 127, `MAX16` 8 for 65535, `Width` 27 for 2^64,
`MaxHeaders` 5 for 15) so that each form of a length and the full array of lines are
reached with a few cells. A byte of a number has 3 values, a `uint16_t` two bytes and a
`uint64_t` three: the host takes 5 for 7 and 7 for 5, and 8 and 10 for themselves. The
packets of `MCSecNet` announce 25, which wraps around with the header, and uninitialised
lengths reach 26, for which there is no array. In `MCProtocol` the answer to `READ_BLOCK`
has a frame of 5 cells, which a client of RFC 6455 takes for one of 7, and `WRITE_BLOCK`
one of 7, which the host takes for 5 and refuses. Of the
command lines of `Startup`, each refused one lacks one thing, and one repeats an
option; two clients are enough for the one that may get log lines and the next
one that must not; the seven numbers are never all in use. In `Sigslot`, three
objects are one that is called, one behind it in the list and a copy.

Named limits of the models: `MaxCuts`, `MaxRecord`, `Lengths` (what an
uninitialised length may hold), `MaxHeap`, `CommandLines`, `StartDirs`, `Worlds`,
`Inherited`, `MaxFd`, `MaxId` (connections ever made), `MaxBacklog`, `MaxProcs`, `MaxLength`,
`Inodes`, `MaxLives` (starts of the server), `Resets`, `Earlier` and `Lengths` of `Shepoo`, `Requests`,
and at most `MaxHeaders` - 1 header lines in a request.

Fairness. `BlockStorage`: a child inside `getBlock` is scheduled; the
environment owes nothing, in particular no unlock. `Listener`: the loop of a
server that is up and the first line of a child are straight code; clients,
restarts and the end of a child are not promised. `Shepoo`: some process is scheduled
and TIME_WAIT ends, as weak fairness of the union of these steps; because each
process comes to rest after finitely many steps of its own, this is implied by a fair
scheduler and weaker than fairness for each process. A client need neither send
nor close, nobody has to restart the server, and the child of a client that closed
within its HTTP lines need never leave them (finding 4). `SecNet`, `Protocol`: the child
is scheduled; the client need neither send nor close. `Startup`: everything
before the accept loop is straight code. `Sigslot` states no liveness.

`CHECK_DEADLOCK FALSE` is set for `SecNet`, `Protocol` and `Startup` only: the child
exits, and so does a server that cannot start.

## 4. Findings

Each has a run in which TLC shows what the code does.

1. A server without a block file answers `READ_BLOCK` with uninitialised memory
   (`blockstorage.cpp:50`, 0 - `BLOCK_SIZE` wraps around).
2. A payload that needs more than one TLS record is delivered with uninitialised
   memory (`secnet.cpp:62`), although up to 128 MB are said to be handled.
3. `_webSocket` is read uninitialised for clients without HTTP (`secnet.cpp:78`).
4. A child whose client closes during the HTTP request loops until its line has
   used up the memory (`secnet.cpp:150`). It also holds the connection, so that a
   restarted server cannot bind: `RestartPossible` has to leave this case out.
5. A daemon without a log file writes log lines to its first client
   (`main.cpp:215-217`): the listening socket gets number 0, the client's socket
   number 1. It ends there, because the server's own next line finds number 1
   closed and sets badbit, which later children inherit
   (`LeakEndsWithFirstClient`).

Byte order (`secnet.cpp:103-111` and `256-264`) is a bug without a run of its own, as no
line of the repository says what order it means; the models have it and the properties
say what is left. On a little-endian host a frame of 126 bytes or more, such as every
`WRITE_BLOCK` and every answer to `READ_BLOCK` at the usual block sizes, is read with
another length. From a client, such a frame is refused as truncated (length too small), or
delivered with uninitialised bytes behind the packet (too large), or ends the child when
it cannot be allocated; never is another packet delivered (`FaithfulDelivery`,
`DeliveryCorrect`). To a client of RFC 6455, such an answer is nothing it can decode; never is it another
answer (`AnswerDecodable`, `ImplementsExchange`). That a request is served and answered (`HonestServed`,
`RequestAnswered`) can therefore be said of legible frames only.

Seen while modelling, without a run of their own: the last header line of an HTTP
request is ignored (`secnet.cpp:172`) although the array is meant for "the first 15 headers" (`secnet.cpp:126`),
which `HeadersJudged` neither asks for nor forbids: it says that no request is accepted
without version 13 and shepoo, that none is refused which asks for them before its
last line and for nothing else, and that none crashes which leaves a place of the
array free; "Forked for client-handling" is logged
when `fork()` failed (`secnet.cpp:452`); `WRITE_BLOCK` is answered with
`COMMAND_OK` and stores nothing (`blockstorage.cpp:43`); a missing file of DH
parameters crashes the server (`secnet.cpp:366`); names are completed with
uninitialised memory when `getcwd` fails (`main.cpp:121`); the limit on payloads is not
applied to WebSocket frames; `GET_MAPPING` and `LOCK_BLOCKS` are never answered;
a packet with an empty payload waits for another record; `--listenAddress` is not
used; a frame of length 2^64 - 1 has a buffer of no bytes (`secnet.cpp:274`), and a packet
whose length wraps around with the header passes the check for truncation
(`secnet.cpp:302`), which are the two exceptions of `PayloadInBounds`; the child ends by
`exit()` without `SSL_shutdown` (`secnet.cpp:443`); the buffer for the client's
address is never freed (`secnet.cpp:449`); the parent of a daemon reports its PID
before the daemon has opened a file or bound the port (`main.cpp:189`).

## 5. Proofs

All theorems are proved for every value of the constants, from the named
assumptions of the modules. Every invariant that is proved, and most of the
inductive ones above it, were first checked by TLC on the instances of section 3.

What the assumptions say, beyond the types of the constants:

| module | assumption | where it comes from |
|---|---|---|
| `SecNet` | `LengthAssumption`: `HeaderSize` < `LEN16` < `LEN64` <= `MAX16` < `Width` - 1 | a header of less than 126 bytes; 126 < 127 <= 65535 < 2^64 - 1 |
| `SecNet` | `ByteOrderAssumption`: `HostOrder16` and `HostOrder64` are their own inverses, and the latter maps the largest `uint64_t` to itself | either order of bytes: nothing, or a reversal |
| `SecNet` | `RequestAssumption`: a request is a sequence of fewer than `MaxHeaders` lines and a payload whose frame is shorter than `Width` - 1; its `len` field may say anything | with more lines the loop of `secnet.cpp:147` ends in the middle of the request, which is not modelled |
| `SecNet` | `AnswerAssumption`: an answer has as many cells as it says, if it has any | so are all answers of `Protocol`: a block has `BLOCK_SIZE` cells, the others none |
| `SecNet` | `NullAssumption`: `NULL` is no line and no answer | it is the model's own value |
| `Protocol` | `BlockAssumption`: the file holds a block at least, and numbers fit `Width` | a shorter file is finding 1; 8 bytes make a `uint64_t` |
| `Protocol` | `PayloadAssumption`: what is sent where a number belongs is bytes, and a request fits the heap | a cell of another kind is 8 bytes too, but of no particular number |
| `Protocol` | `ReplyAssumption`: `Answers` has what `packetReceived` may send | `Answers` is a constant of `SecNet` |
| `Startup` | `ProcessAssumption`: descriptors up to 6 exist, and 0 to 2 may be inherited | the server needs 0 to 2, the log, its socket and a client, and one more to close |
| `Startup` | `OptionAssumption`, `DirAssumption`, `WorldAssumption`: shapes of names, options and outcomes | getopt and the kernel |

`BlockStorageProofs`. `AvailableArithmetic` is the heart of it: if the file has a
block and the product does not wrap, no operation of the comparison wraps, and it
says that the block ends within the file. The inductive invariant `IInv` adds to
`TypeOK` that a child that has not read has no block (`NothingBeforeRead`), that
one past the check has a number that passes it (`CheckedBeforeRead`, which holds
because `_fileLength` never changes) and `BlockAsked` itself. From it follow
`TypeCorrect`, `AvailabilityCorrect`, `BlockAskedCorrect` and, for the action
property, `GarbageCorrect`: garbage at place k of a child that is not `failed` means that
the open file ends before offset + k, which lies within the measured length.

The second half of the module is the refinement. The mapping of `BlockReads` needs one
fact more, that only a child between `open()` and `close()` has a descriptor
(`ClosedOutside`). `UnreadOpen` says
whose read is still to come; `BufferIsView` that `read()` on the file under the path is
a view of it; `SeekPlace` that the position is where the block is. Then there is one
lemma per system call (each is a read, whole or cut, the loss of an end, the call, the
return, or nothing; `ReadNow` and `CutNow` are the two ways to read), and
`ReplaceStep`: at a change of the path exactly the children that have the old file
open read it, and nobody's value changes otherwise. `AtomicCorrect` is
`Spec => ReadsAreAtomic`.

`ListenerProofs`. `ChildIsolation` alone is not inductive: a child inherits what
the server has open at the fork. `IInv` says exactly what each process holds
(`ServerDescriptors`, `ChildDescriptors`), that `newSocket` is an accepted
connection without a child until the fork (`NewSocketSet`), that the queue has
every connection once and only queued ones (`QueueSound`), that those have no
child (`NoChildBeforeAccept`), and that accepted ones are held (`AcceptedHeld`).
`CloseToKeeps` is shared by the four actions that close a descriptor.

`PromiseProofs`. Above `IInv`, the mapping of `Sessions` needs that a live child has its
connection, which its client may have reset (`LiveTaken`), that orphans live (`OrphansLive`), and that nobody waits for
a listening socket that is gone (`QueueHeld`). `NoOrphanBesideServer` is part of this
invariant: `bind()` finds the port in use by the child's connection.
`InHandIsNewSocket` gives the one connection in the server's hands, and
`CloseToSession` what closing any descriptor does to any session; with them, each
action is one step of `Sessions` or stutters (`PromiseCorrect`).

`ShepooProofs`. Every step of `Shepoo` is one of `Listener` or none (`ListenerStep`), so that
`ListenerProofs` gives `IInv`. Above it, `Descent` says that processes with the same
`life` have the same length, which holds because a new start gets a number above
all others and a fork copies both; `NotYet` that a child has said nothing before its
fork; `GotBlock` that `getBlock` returns a block exactly if the check allowed it,
which needs that a filled buffer is not the null pointer; `ToldTruth` that an answer
is what the check says. `PromiseKeptCorrect` and `ShepooTypeCorrect` follow.

`SigslotProofs`. `RegistryAgrees` is nearly inductive by itself, given that an
object has at most one connection to a signal (`OncePerPair`) and that numbers of
connections are below `nextId` (`IdsUsed`). For the emission, `NextExists` says
that what `it` (between calls) or `itNext` (during one) points to is in the list,
and `AheadOfFrame` that every connection that was there at the start lies ahead of
the iterator or has been called. From it follow `NeverBroken` and `EveryoneCalled`.

`SecNetProofs`. The child knows nothing of the client's stream but what it has
read; the proofs have to say where in the stream it stands. `Places` puts every record
that has arrived at its place among the cells of the request, without gaps and each
ending where the client ended it; `Here` is the place of the next cell to be read,
which is unique (`OnePlace`). `Reads` then says once for all what `SSL_read` of n
bytes does: the cells behind `Here`, up to n of them or up to the end of the record,
whatever the client does meanwhile. `TypeInv` adds the types, which header lines have
been kept (`LinesInv`) and where each step of the HTTP request begins (`PlaceInv`): the
number of lines read is the number of cells read, up to the first two. From it follow
`ConnectionTypeCorrect` and `PayloadBoundsCorrect`. The latter is inductive by itself:
every way into the handler allocates what it reads, but for the two exceptions.
`HeadersJudgedCorrect` rests on `LastOfIs`, that the last header of a name decides, and
`LinesJudged`, which gets from the visited lines to those of the request.

`AnswerDecodableCorrect` needs what has been written at each step of `sendPacket`
(`OutInv`); `FramingShape` and `Unframes` are the codec: the receiver's reading
of the two bytes and the extended length gives back the length of the packet, for each
of the three forms, if it reads in the host's order (`HostOrder` undoes itself), and
otherwise either the packet or nothing. `Openings` is what may precede the packet (the HTTP answer or
nothing), `Framings` what may stand around it (a frame header or nothing), in any
combination: the child of a client without HTTP may frame its answer, too (finding
3). `Decodes` shows that none of the combinations can be taken for another, so the
theorem is about every client.

`DeliveryCorrect` and `AnswerNotResetCorrect` are about clients whose records end
where the child's reads end. That condition, `ReadsMatchRecords`, speaks of a complete
request and is no use before that; `Fits` says it of a request under way. It holds of a
request that has not begun, may be broken by any record, and stays broken
(`FitsBefore`), so that `Fits => FitPlace` is inductive: while it holds every read gets
all it asks for (`ReadWhole`, `ReadHttp`; `ReadSome` is what a read gets without
it), and `FitPlace` says for each step where the child stands, and what frame, packet
and payload it has. The length of the frame there is `HostLength` of what the client
sent, which may be too short, and then the packet is refused, or too long: then the
last read gets the whole record all the same (`ReadRecord`), because the client sends no
more, and the packet lies at its front. `HostLengths` says that a length of fewer than 126
is never confused.

`ProtocolProofs`. `ReceiverInv` (`TypeInv`, a payload whose cells are of their kinds, an
unchanged file) shows that `packetReceived` sends only what `Answers` has, so that
every behaviour of `Protocol` is one of `SecNet` (`ReceiverCorrect`) and all of
the above holds of it. `ReplyInv` says what answer belongs to what request while
`Fits` holds. `BlockArithmetic` is the check of `isBlockAvailable` again, in
terms of the offset. With them, `ReadAnsweredCorrect` and
`AvailabilityAnsweredCorrect` are facts about the state `done`; for `CrashesCorrect`,
each of the three actions that can end in a crash is taken in turn: `LinesFit`,
`PacketAllocated`, and a payload of NULL, which only the block that is not
there has.

The last section of the module is the refinement of `Exchange`: a client that keeps to
the protocol (`Keeps`, which is `Fits` and an honest request) gets at most one answer,
what it decodes from all it has received (`Received`) is a right one, and a request that
has to be served (`Answerable`) is not dropped after the handshake while the client
waits. The inductive invariant `ExchangeInv` is what the earlier theorems are built
on: `ReplyInv` says that the answer is right, `OutInv` that it is what the client decodes.
`RightReply` joins the two. `NotRefused`, in `SecNetProofs`, and `NotDropped` take every
step that can end the child without an answer: the lines and the frame of such a
request pass their checks, its payload has the length that the receiver asks for, its
packet can be allocated (`Room`), and its block is in the file. `ClientStep` and
`ServerStep` then show each step to be one of `Exchange` or to change nothing there;
`ExchangeCorrect` is `ProtocolSpec => ImplementsExchange`. `Exchange` promises no
progress: that is `RequestAnswered`, which TLC checks.

`StartupProofs`, in four layers. `PInv`: the rest of the command line is its end
(`Rest`) and each option has the value that was given last (`LastCounts`), until
names are `Completed`; from then on they stay, and every file that is opened is
`Meant`, whatever `chdir` does (`PathsCorrect`). `DInv`: `Room` says above which number
every descriptor of the server is free in each phase, so that `LowestFree` exists;
`ConnsInPlace` who has a connection under which number. This is what type correctness
needs. `LogInv`: `StdInPlace` and `FileInPlace` follow the target of `std::cout` through
every fork and close (`LogCorrect`). `LeakInv`: a client is `Leaky` if it has got a line
or its child could write one to it. There is at most one such client, and as soon as
there is one the server's `std::cout` is bad or is going to be, so that no later child
inherits a good one (`LeakCorrect`).

Only model-checked: liveness (`GetBlockReturns`, `QueueDrains`, `ClosedWithoutChild`,
`AnsweredOrClosed`, `RestartPossible`, `HonestServed`, `EndsAfterClose`,
`RequestAnswered`, `StartsWhenProper`), since fairness and ENABLED are outside the
prover's reach, and the findings, which are counterexamples. No theorem needs
induction over data: `LowestFree` and `LastPlace` are least and last members of a set of
numbers, which the well-foundedness of the naturals gives.

## 6. Not modelled

The Linux driver (a stub), `configure.sh`, `shuffle.cpp` (empty), the
cryptography of TLS, the cipher suite, SHA-1 and base64 of the accept key, the
wording of answers, messages and the usage text; in `Shepoo`, the commands other than
`READ_BLOCK` and `IS_BLOCK_AVAILABLE`, which do not touch the file; in `Sigslot`, nested
emissions (the server's slot emits nothing, and the local variables of the outer
`emit()` would have to be kept on a stack), a second connection of one object to one
signal (after `disconnect` it would be left behind when the object is destroyed,
`sigslot.h:918`) and the lock policies of other builds: the header defines `SIGSLOT_PURE_ISO`, so the locks are empty.

## 7. Plan

1. Done: `BlockStorage`, `Listener`, `SecNet`, `Protocol`, `Startup`, `Sigslot`,
   their composition `Shepoo`, the abstract `BlockReads`, `Sessions` and `Exchange`;
   theorems about each of them, so that every safety property of a passing run and
   every refinement is proved.
2. `Sigslot` with emissions inside emissions.

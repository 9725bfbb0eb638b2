------------------------------ MODULE Protocol ------------------------------
(***************************************************************************)
(* The receiver of the packets (server/src/protocol.cpp) on top of the     *)
(* connection: Protocol::packetReceived, connected to                      *)
(* SecNet::receivedPacket by main(), and the answers that the client gets. *)
(*                                                                         *)
(* Other programs that change the block file while a child reads it are    *)
(* the matter of module BlockStorage; here the file is what it was at the  *)
(* start, and getBlock is one step.                                        *)
(***************************************************************************)
EXTENDS SecNet

CONSTANTS
  BLOCK_SIZE, \* the preprocessor constant, in cells
  FileLength, \* _fileLength, in cells
  Base        \* number of values of a byte of a block number

\* The file holds a block at least.  In a shorter one isBlockAvailable finds every
\* block, since 0 - BLOCK_SIZE wraps around: see NoFileNoBlocks of BlockStorage.
ASSUME BlockAssumption ==
  /\ BLOCK_SIZE \in Nat \ {0}
  /\ FileLength \in BLOCK_SIZE .. (Width - 1)
  /\ Base \in Nat \ {0}
  /\ Base * Base <= Width

VARIABLE disk \* the cells of the block file

protocolVars == <<vars, disk>>

NumSize == 2 \* the bytes of a block number, 8 in the code

-----------------------------------------------------------------------------
(***************************************************************************)
(* extractUint64FromPayload: the most significant byte comes first.        *)
(***************************************************************************)

Bytes == 0 .. (Base - 1)

\* What the child reads as a number is sent as bytes, and fits on the heap.
ASSUME PayloadAssumption ==
  \A r \in Requests :
    /\ \A i \in DOMAIN r.data : r.data[i][1] = "byte" => r.data[i][2] \in Bytes
    /\ \A i \in DOMAIN r.data : i <= NumSize => r.data[i][1] = "byte"
    /\ HeaderSize + Len(r.data) + 1 <= MaxHeap

\* Behind the end of the payload lies whatever the heap holds.
PayloadByte(i) ==
  IF i <= Len(payload) THEN ReadAs("byte", payload[i], Bytes) ELSE Bytes

LittleEndian == {high * Base + low : high \in PayloadByte(2), low \in PayloadByte(1)}

ExtractUint64 == {high * Base + low : high \in PayloadByte(1), low \in PayloadByte(2)}

-----------------------------------------------------------------------------
(***************************************************************************)
(* The calls of Blockstorage.                                              *)
(***************************************************************************)

IsBlockAvailableLast(n) == uint64(n * BLOCK_SIZE) <= FileLength

IsBlockAvailable(n) == uint64(n * BLOCK_SIZE) <= uint64(FileLength - BLOCK_SIZE)

ReadFrom(cells, n) ==
  [i \in 1 .. BLOCK_SIZE |->
     LET k == uint64(n * BLOCK_SIZE) + i
     IN  IF k <= FileLength THEN cells[k] ELSE Garbage]

GetBlock(n) == IF IsBlockAvailable(n) THEN ReadFrom(disk, n) ELSE NULL

\* storeBlock has an empty body.
StoreBlock(n, data) == UNCHANGED disk

-----------------------------------------------------------------------------
(***************************************************************************)
(* packetReceived.                                                         *)
(***************************************************************************)

Empty(cmd) == [cmd |-> cmd, len |-> 0, data |-> NULL]

BlockAnswer(data) == [cmd |-> "BLOCK_ANSWER", len |-> BLOCK_SIZE, data |-> data]

Stored == [k \in 1 .. FileLength |-> <<"stored", k>>]

\* Answers has what packetReceived may send, and a block is not the null pointer.
ASSUME ReplyAssumption ==
  /\ {Empty("OK"), Empty("NOK"), BlockAnswer(NULL)} \subseteq Answers
  /\ \A n \in 0 .. (Base * Base - 1) :
       uint64(n * BLOCK_SIZE) + BLOCK_SIZE <= FileLength =>
         ReadFrom(Stored, n) # NULL /\ BlockAnswer(ReadFrom(Stored, n)) \in Answers

ReadBlockEmpty ==
  /\ packet.cmd = "READ_BLOCK"
  /\ packet.len = NumSize
  /\ \E n \in ExtractUint64 :
       HandlerAnswers(BlockAnswer(IF GetBlock(n) = NULL THEN <<>> ELSE GetBlock(n)))
  /\ UNCHANGED disk

ReadBlock ==
  /\ packet.cmd = "READ_BLOCK"
  /\ packet.len = NumSize
  /\ \E n \in ExtractUint64 :
       HandlerAnswers(BlockAnswer(GetBlock(n)))
  /\ UNCHANGED disk

WriteBlockEcho ==
  /\ packet.cmd = "WRITE_BLOCK"
  /\ packet.len = NumSize + BLOCK_SIZE
  /\ UNCHANGED disk
  /\ HandlerAnswers([Empty("OK") EXCEPT !.len = BLOCK_SIZE])

WriteBlockSilent ==
  /\ packet.cmd = "WRITE_BLOCK"
  /\ packet.len = NumSize + BLOCK_SIZE
  /\ UNCHANGED disk
  /\ HandlerReturns

WriteBlock ==
  /\ packet.cmd = "WRITE_BLOCK"
  /\ packet.len = NumSize + BLOCK_SIZE
  /\ \E n \in ExtractUint64 :
       StoreBlock(n, SubSeq(payload, NumSize + 1, NumSize + BLOCK_SIZE))
  /\ HandlerAnswers(Empty("OK"))

\* The length of the payload is not checked.
IsAvailable ==
  /\ packet.cmd = "IS_BLOCK_AVAILABLE"
  /\ \E n \in ExtractUint64 :
       HandlerAnswers(Empty(IF IsBlockAvailable(n) THEN "OK" ELSE "NOK"))
  /\ UNCHANGED disk

LockOrMapping ==
  /\ packet.cmd \in {"LOCK_BLOCKS", "GET_MAPPING"}
  /\ HandlerReturns
  /\ UNCHANGED disk

\* Another version, another command, or a payload of the wrong length.
RefusePacket ==
  /\ \/ packet.cmd \notin {"READ_BLOCK", "WRITE_BLOCK", "LOCK_BLOCKS",
                           "GET_MAPPING", "IS_BLOCK_AVAILABLE"}
     \/ packet.cmd = "READ_BLOCK" /\ packet.len # NumSize
     \/ packet.cmd = "WRITE_BLOCK" /\ packet.len # NumSize + BLOCK_SIZE
  /\ HandlerExits
  /\ UNCHANGED disk

PacketReceived ==
  \/ ReadBlock \/ WriteBlock \/ IsAvailable \/ LockOrMapping \/ RefusePacket

-----------------------------------------------------------------------------

ProtocolInit ==
  /\ Init
  /\ disk = Stored

ConnectionStep == Connection /\ UNCHANGED disk

ProtocolNext ==
  \/ ConnectionStep
  \/ PacketReceived
  \/ Client /\ UNCHANGED disk

ProtocolSpec == ProtocolInit /\ [][ProtocolNext]_protocolVars

FairProtocolSpec ==
  ProtocolSpec /\ WF_protocolVars(ConnectionStep \/ PacketReceived)

-----------------------------------------------------------------------------
(***************************************************************************)
(* Properties.                                                             *)
(***************************************************************************)

\* The client and the records did what the protocol expects of them.
Proper == Honest(request) /\ wire = <<>> /\ ReadsMatchRecords

AsksFor(r, cmd, len) == r.cmd = cmd /\ r.len = len
Asks(cmd, len) == AsksFor(request, cmd, len)

NumberIn(r) == r.data[1][2] * Base + r.data[2][2]
AskedNumber == NumberIn(request)

\* The whole block lies in the file, and its offset fits a uint64_t.
InFile(n) == (n + 1) * BLOCK_SIZE <= FileLength
InRange(n) == n * BLOCK_SIZE < Width

BlockIn(cells, n) == SubSeq(cells, n * BLOCK_SIZE + 1, (n + 1) * BLOCK_SIZE)
BlockOf(n) == BlockIn(disk, n)

\* A client that asks for a block of the file and gets an answer gets exactly
\* the bytes of that block; for any other number it never gets a complete
\* answer (protocol.cpp:21-36, blockstorage.cpp:23-41).
ReadAnswered ==
  pc = "done" /\ Proper /\ Asks("READ_BLOCK", NumSize) /\ InRange(AskedNumber) =>
    /\ InFile(AskedNumber)
    /\ answer = BlockAnswer(BlockOf(AskedNumber))

\* IS_BLOCK_AVAILABLE promises what READ_BLOCK keeps (protocol.cpp:58-71).
AvailabilityAnswered ==
  pc = "done" /\ Proper /\ Asks("IS_BLOCK_AVAILABLE", NumSize)
  /\ InRange(AskedNumber) =>
    answer = Empty(IF InFile(AskedNumber) THEN "OK" ELSE "NOK")

\* A child whose client behaves and stays crashes in one case only: a block
\* that is not there is asked for, and the header of its answer is sent before
\* the null pointer is read (protocol.cpp:27-34, secnet.cpp:114-115).  As many
\* headers as the array holds are left out, and a frame that the host takes for
\* another length, which it may be unable to allocate.
CrashesOnlyForMissingBlock ==
  [][pc' = "crashed" /\ pc # "crashed" /\ peerOpen /\ Proper /\ Legible(request)
     /\ Len(request.lines) < MaxHeaders - 1 =>
       /\ Asks("READ_BLOCK", NumSize)
       /\ InRange(AskedNumber) => ~InFile(AskedNumber)]_protocolVars

\* Every proper request that has an answer and whose frame the host takes for what
\* it is gets that answer while the client waits, and the child of every other one
\* ends: it waits for nothing more (secnet.cpp:43-74, protocol.cpp:10-75).
Answerable(r) ==
  /\ Servable(r) /\ Legible(r)
  /\ \/ AsksFor(r, "READ_BLOCK", NumSize) /\ InFile(NumberIn(r))
     \/ AsksFor(r, "WRITE_BLOCK", NumSize + BLOCK_SIZE)
     \/ AsksFor(r, "IS_BLOCK_AVAILABLE", NumSize)

RequestAnswered ==
  /\ pc = "header" /\ Proper /\ Answerable(request)
       ~> (pc = "done" /\ answer # NULL) \/ ~peerOpen
  /\ pc = "header" /\ Proper /\ Servable(request) ~> pc \in Ended \/ ~peerOpen

-----------------------------------------------------------------------------
(***************************************************************************)
(* What a client sees of all this: module Exchange.                        *)
(***************************************************************************)

\* A number whose offset does not fit a uint64_t is that of another block, and
\* a short payload that of any block.
RightAnswer(r, a) ==
  \/ /\ AsksFor(r, "READ_BLOCK", NumSize)
     /\ a.cmd = "BLOCK_ANSWER" /\ a.data # NULL
     /\ InRange(NumberIn(r)) =>
          InFile(NumberIn(r)) /\ a = BlockAnswer(BlockIn(Stored, NumberIn(r)))
  \/ /\ AsksFor(r, "WRITE_BLOCK", NumSize + BLOCK_SIZE)
     /\ a = Empty("OK")
  \/ /\ r.cmd = "IS_BLOCK_AVAILABLE"
     /\ a \in {Empty("OK"), Empty("NOK")}
     /\ r.len = NumSize /\ InRange(NumberIn(r)) =>
          a = Empty(IF InFile(NumberIn(r)) THEN "OK" ELSE "NOK")

ExchangeState ==
  CASE pc = "handshake"               -> "greeting"
    [] pc = "done" /\ answer # NULL   -> "answered"
    [] pc = "done" /\ answer = NULL   -> "over"
    [] pc \in {"refused", "crashed"}  -> "over"
    [] OTHER                          -> "waiting"

Keeps == Fits /\ Honest(request)

Heard == IF ExchangeState = "answered" THEN Received ELSE NULL

\* An answer may get lost in a frame whose length reads otherwise in network order.
HeardOf(a) == {Message(a)} \cup (IF Readable(a) THEN {} ELSE {NULL})

RightMessages(r) == UNION {HeardOf(a) : a \in {b \in Answers : RightAnswer(r, b)}}

Promise == INSTANCE Exchange WITH
  RightAnswers <- [r \in Requests |-> RightMessages(r)],
  Served  <- {r \in Requests : Answerable(r)},
  Nothing <- NULL,
  asked   <- request,
  keeps   <- Keeps,
  waits   <- peerOpen,
  state   <- ExchangeState,
  heard   <- Heard

\* The connection and the receiver together keep the promise of module Exchange:
\* what a client of RFC 6455 decodes from all that it gets is the right answer to
\* the request that it sent, in whatever records that fit the reads, or nothing if
\* the frame of that answer is of a length that reads otherwise in the order of the
\* host; it gets no second one, and nothing but its own hanging up costs a legible
\* request in the file its answer (secnet.cpp:29-302,67-117, protocol.cpp:10-75).
ImplementsExchange == Promise!Spec

=============================================================================

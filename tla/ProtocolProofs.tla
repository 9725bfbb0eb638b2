--------------------------- MODULE ProtocolProofs ---------------------------
(***************************************************************************)
(* Proofs for module Protocol, for every block size, file length and byte, *)
(* every request and every way to cut it into records:                     *)
(*   - packetReceived is a receiver as SecNet expects one (ReceiverInv), so *)
(*     that what SecNetProofs proves of a connection holds of this one;    *)
(*   - what it answers is what the request calls for (ReplyInv).           *)
(***************************************************************************)
EXTENDS Protocol, SecNetProofs

-----------------------------------------------------------------------------
(***************************************************************************)
(* Numbers of blocks.                                                      *)
(***************************************************************************)

\* n * BLOCK_SIZE, of which the proofs need no more than BlockArithmetic.
Offset(n) == n * BLOCK_SIZE

LEMMA Digits ==
  ASSUME NEW b \in Nat \ {0}, NEW h \in 0 .. (b - 1), NEW l \in 0 .. (b - 1)
  PROVE  h * b + l \in 0 .. (b * b - 1)
<1>1. PICK z \in Nat : z = b - 1 - h
  OBVIOUS
<1>2. z * b \in Nat /\ h * b \in Nat
  BY <1>1
<1>3. z * b = b * b - b - h * b
  BY <1>1
<1>. QED
  BY <1>2, <1>3

LEMMA BlockArithmetic ==
  ASSUME NEW n \in Nat
  PROVE  /\ Offset(n) \in Nat /\ uint64(Offset(n)) \in 0 .. (Width - 1)
         /\ IsBlockAvailable(n) <=> uint64(Offset(n)) + BLOCK_SIZE <= FileLength
         /\ InRange(n) => uint64(Offset(n)) = Offset(n)
         /\ InRange(n) => (IsBlockAvailable(n) <=> InFile(n))
         /\ (n + 1) * BLOCK_SIZE = Offset(n) + BLOCK_SIZE
<1>1. /\ BLOCK_SIZE \in Nat /\ Width \in Nat /\ FileLength \in Nat
      /\ BLOCK_SIZE <= FileLength /\ FileLength < Width
  BY BlockAssumption, LengthAssumption
<1>2. Offset(n) \in Nat
  BY <1>1 DEF Offset
<1>3. uint64(Offset(n)) \in 0 .. (Width - 1) /\ (Offset(n) < Width => uint64(Offset(n)) = Offset(n))
  BY <1>2, Truncation
<1>4. uint64(FileLength - BLOCK_SIZE) = FileLength - BLOCK_SIZE
  <2>1. FileLength - BLOCK_SIZE \in Nat /\ FileLength - BLOCK_SIZE < Width
    BY <1>1
  <2>. QED
    BY <2>1, Truncation
<1>5. IsBlockAvailable(n) <=> uint64(Offset(n)) <= FileLength - BLOCK_SIZE
  BY <1>4 DEF IsBlockAvailable, Offset
<1>6. IsBlockAvailable(n) <=> uint64(Offset(n)) + BLOCK_SIZE <= FileLength
  BY <1>1, <1>3, <1>5
<1>7. (n + 1) * BLOCK_SIZE = Offset(n) + BLOCK_SIZE
  BY <1>1 DEF Offset
<1>8. InRange(n) <=> Offset(n) < Width
  BY DEF InRange, Offset
<1>9. InFile(n) <=> Offset(n) + BLOCK_SIZE <= FileLength
  BY <1>7 DEF InFile
<1>. QED
  BY <1>2, <1>3, <1>6, <1>7, <1>8, <1>9

-----------------------------------------------------------------------------
(***************************************************************************)
(* packetReceived as the receiver of a connection.  A byte of the payload, *)
(* of whomever, is a byte; beyond its end the heap has bytes, too.         *)
(***************************************************************************)

PayloadTyped ==
  Len(payload) \in Nat /\ \A i \in 1 .. Len(payload) : TypedCell(payload[i])

ReceiverInv == TypeInv /\ PayloadTyped /\ disk = Stored

Numbers == 0 .. (Base * Base - 1)

LEMMA NumbersTyped ==
  ASSUME PayloadTyped, NEW n \in ExtractUint64
  PROVE  n \in Numbers /\ n \in Nat
<1>1. \A i \in 1 .. 2 : PayloadByte(i) \subseteq Bytes
  <2>. SUFFICES ASSUME NEW i \in 1 .. 2, NEW b \in PayloadByte(i), b \notin Bytes
                PROVE  FALSE
    OBVIOUS
  <2>1. i <= Len(payload) /\ payload[i][1] = "byte" /\ b = payload[i][2]
    BY DEF PayloadByte, ReadAs
  <2>2. i \in 1 .. Len(payload)
    BY <2>1
  <2>3. SentByte(payload[i])
    BY <2>1, <2>2 DEF PayloadTyped, TypedCell
  <2>. QED
    BY <2>1, <2>3, PayloadAssumption DEF SentByte
<1>2. PICK h \in PayloadByte(1), l \in PayloadByte(2) : n = h * Base + l
  BY DEF ExtractUint64
<1>3. h \in 0 .. (Base - 1) /\ l \in 0 .. (Base - 1) /\ Base \in Nat \ {0}
  BY <1>1, <1>2, BlockAssumption DEF Bytes
<1>4. n \in Numbers
  BY <1>2, <1>3, Digits DEF Numbers
<1>5. Base * Base \in Nat
  BY <1>3
<1>. QED
  BY <1>4, <1>5 DEF Numbers

\* The block that a file as it was at the start has under a number.
BlockHeld(n) == IF IsBlockAvailable(n) THEN ReadFrom(Stored, n) ELSE NULL

LEMMA AnswerKnown ==
  ASSUME ReceiverInv, NEW n \in ExtractUint64
  PROVE  /\ GetBlock(n) = BlockHeld(n) /\ BlockAnswer(GetBlock(n)) \in Answers
         /\ Empty("OK") \in Answers /\ Empty("NOK") \in Answers
         /\ BlockHeld(n) = NULL <=> ~IsBlockAvailable(n)
<1>1. n \in Numbers /\ n \in Nat
  BY NumbersTyped DEF ReceiverInv
<1>2. GetBlock(n) = BlockHeld(n)
  BY DEF ReceiverInv, GetBlock, BlockHeld
<1>3. IsBlockAvailable(n) => uint64(n * BLOCK_SIZE) + BLOCK_SIZE <= FileLength
  BY <1>1, BlockArithmetic DEF Offset
<1>4. IsBlockAvailable(n) =>
        ReadFrom(Stored, n) # NULL /\ BlockAnswer(ReadFrom(Stored, n)) \in Answers
  BY <1>1, <1>3, ReplyAssumption DEF Numbers
<1>. QED
  BY <1>2, <1>4, ReplyAssumption DEF BlockHeld

\* Every step of Protocol is one that SecNet allows.
LEMMA ReceiverStep ==
  ASSUME ReceiverInv, [ProtocolNext]_protocolVars
  PROVE  [Next]_vars /\ disk' = disk
<1>1. CASE UNCHANGED protocolVars
  BY <1>1 DEF protocolVars
<1>2. CASE ConnectionStep \/ (Client /\ UNCHANGED disk)
  BY <1>2 DEF ConnectionStep, Next
<1>3. CASE ReadBlock
  <2>1. PICK n \in ExtractUint64 : HandlerAnswers(BlockAnswer(GetBlock(n)))
    BY <1>3 DEF ReadBlock
  <2>2. BlockAnswer(GetBlock(n)) \in Answers
    BY AnswerKnown
  <2>. QED
    BY <1>3, <2>1, <2>2 DEF ReadBlock, Handler, Next
<1>4. CASE WriteBlock
  BY <1>4, ReplyAssumption DEF WriteBlock, StoreBlock, Handler, Next
<1>5. CASE IsAvailable
  <2>1. PICK n \in ExtractUint64 :
          HandlerAnswers(Empty(IF IsBlockAvailable(n) THEN "OK" ELSE "NOK"))
    BY <1>5 DEF IsAvailable
  <2>2. Empty(IF IsBlockAvailable(n) THEN "OK" ELSE "NOK") \in Answers
    BY ReplyAssumption
  <2>. QED
    BY <1>5, <2>1, <2>2 DEF IsAvailable, Handler, Next
<1>6. CASE LockOrMapping \/ RefusePacket
  BY <1>6 DEF LockOrMapping, RefusePacket, Handler, Next
<1>. QED
  BY <1>1, <1>2, <1>3, <1>4, <1>5, <1>6 DEF ProtocolNext, PacketReceived

LEMMA PayloadTypedStep ==
  ASSUME TypeInv, PayloadTyped, [Next]_vars
  PROVE  PayloadTyped'
<1>1. CASE UNCHANGED payload
  BY <1>1 DEF PayloadTyped
<1>2. CASE ReadPayload
  <2>1. packet.len \in Nat
    BY LengthAssumption DEF TypeInv, Types
  <2>2. ReadStep(packet.len)
    BY <1>2, <2>1, Reads DEF ReadPayload, TypeInv
  <2>3. payload' = Buffer(packet.len) /\ Len(payload') = packet.len
    BY <1>2, <2>1, BufferShape DEF ReadPayload
  <2>. QED
    BY <2>1, <2>2, <2>3, BufferTyped DEF PayloadTyped
<1>3. CASE ReadFramePayload /\ ~UNCHANGED payload
  <2>. DEFINE cells == [i \in 1 .. frame.len |-> Unmask(Buffer(frame.len)[i])]
  <2>1. frame.len \in Nat
    BY LengthAssumption DEF TypeInv, Types
  <2>2. ReadStep(frame.len)
    BY <1>3, <2>1, Reads DEF ReadFramePayload, TypeInv
  <2>a. \/ UNCHANGED packetVars
        \/ payload' = SubSeq(cells, HeaderSize + 1, frame.len) /\ frame.len >= HeaderSize
    BY <1>3 DEF ReadFramePayload
  <2>3. payload' = SubSeq(cells, 3, frame.len) /\ frame.len >= 2
    <3>. HIDE DEF cells
    <3>1. payload' = SubSeq(cells, HeaderSize + 1, frame.len) /\ frame.len >= HeaderSize
      BY <1>3, <2>a DEF packetVars
    <3>. QED
      BY <3>1 DEF HeaderSize
  <2>4. \A i \in 1 .. frame.len : TypedCell(cells[i])
    BY <2>1, <2>2, BufferTyped
  <2>. HIDE DEF cells
  <2>5. 3 \in Nat \ {0}
    OBVIOUS
  <2>6. /\ Len(SubSeq(cells, 3, frame.len)) =
             IF 3 <= frame.len THEN frame.len - 3 + 1 ELSE 0
        /\ \A i \in 1 .. frame.len - 3 + 1 :
             SubSeq(cells, 3, frame.len)[i] = cells[3 + i - 1]
    BY <2>1, <2>5, SubSeqShape
  <2>7. ASSUME NEW i \in 1 .. Len(payload') PROVE TypedCell(payload'[i])
    <3>1. i \in 1 .. frame.len - 3 + 1 /\ 3 + i - 1 \in 1 .. frame.len
      BY <2>1, <2>3, <2>6
    <3>. QED
      BY <2>3, <2>4, <2>6, <3>1
  <2>8. Len(payload') \in Nat
    BY <2>1, <2>3, <2>6
  <2>. QED
    BY <2>7, <2>8 DEF PayloadTyped
<1>4. CASE ReadFrameNoArray /\ ~UNCHANGED payload
  <2>1. payload' = <<>>
    BY <1>4 DEF ReadFrameNoArray, packetVars
  <2>. QED
    BY <2>1, ShortSeqs DEF PayloadTyped
<1>5. \/ UNCHANGED payload \/ ReadPayload \/ (ReadFramePayload /\ ~UNCHANGED payload)
      \/ (ReadFrameNoArray /\ ~UNCHANGED payload)
  <2>1. Client \/ Handler \/ UNCHANGED vars => UNCHANGED payload
    BY DEF Client, ClientSends, ClientCloses, Handler, HandlerAnswers, HandlerReturns,
           HandlerExits, vars, packetVars
  <2>2. Connection =>
          UNCHANGED payload \/ ReadPayload \/ ReadFramePayload \/ ReadFrameNoArray
    BY DEF Connection, Handshake, ReadHeader, ReadLine, ParseHeaders, ReadTail,
           ReadFrameHeader, ReadFrameLength, ReadMask, FrameNotAllocated, SendFrame,
           SendLength, SendPacket, SendPayload, packetVars
  <2>. QED
    BY <2>1, <2>2 DEF Next
<1>. QED
  BY <1>1, <1>2, <1>3, <1>4, <1>5

LEMMA ReceiverInit == ProtocolInit => ReceiverInv
<1>. SUFFICES ASSUME ProtocolInit PROVE ReceiverInv
  OBVIOUS
<1>1. Init /\ disk = Stored
  BY DEF ProtocolInit
<1>2. PayloadTyped
  BY <1>1, ShortSeqs DEF Init, PayloadTyped
<1>. QED
  BY <1>1, <1>2, TypeInit DEF ReceiverInv

LEMMA ReceiverKept == ReceiverInv /\ [ProtocolNext]_protocolVars => ReceiverInv'
BY ReceiverStep, TypeStep, PayloadTypedStep DEF ReceiverInv

\* packetReceived does to a connection what SecNet allows its receiver, and sends
\* answers that are as long as they say, so that the theorems about a connection
\* hold of one that is answered by it (protocol.cpp:10-75, secnet.cpp:67-117).
THEOREM ReceiverCorrect == ProtocolSpec => Spec
<1>1. ProtocolInit => Init
  BY DEF ProtocolInit
<1>2. ReceiverInv /\ [ProtocolNext]_protocolVars => [Next]_vars
  BY ReceiverStep
<1>. QED
  BY <1>1, <1>2, ReceiverInit, ReceiverKept, PTL DEF Spec, ProtocolSpec

-----------------------------------------------------------------------------
(***************************************************************************)
(* What is answered to a client whose records fit the reads.               *)
(***************************************************************************)

Available(n) == IF IsBlockAvailable(n) THEN "OK" ELSE "NOK"

\* What packetReceived makes of a request that it does not leave unanswered.
ReplyTo(r, a) ==
  \/ /\ r.cmd = "READ_BLOCK" /\ r.len = NumSize
     /\ a = BlockAnswer(BlockHeld(NumberIn(r)))
  \/ /\ r.cmd = "WRITE_BLOCK" /\ r.len = NumSize + BLOCK_SIZE
     /\ a = Empty("OK")
  \/ /\ r.cmd = "IS_BLOCK_AVAILABLE" /\ a \in {Empty("OK"), Empty("NOK")}
     /\ r.len = NumSize => a = Empty(Available(NumberIn(r)))

Unanswered == {"LOCK_BLOCKS", "GET_MAPPING"}

ReplyPlace ==
  /\ pc \in Sending => ReplyTo(request, answer)
  /\ pc = "done" =>
       \/ request.cmd \in Unanswered
       \/ ReplyTo(request, answer) /\ (answer.len > 0 => answer.data # NULL)

ReplyInv == Fits /\ Honest(request) => ReplyPlace

\* The number that the receiver takes out of the payload is the one put into it.
LEMMA NumberRead ==
  ASSUME ReceiverInv, request.len = Len(request.data), request.len >= NumSize,
         request.len <= Len(payload), SubSeq(payload, 1, request.len) = request.data
  PROVE  /\ ExtractUint64 = {NumberIn(request)} /\ NumberIn(request) \in Numbers
         /\ NumberIn(request) \in Nat
<1>. DEFINE data == request.data
<1>1. request \in Requests /\ IsSeq(data) /\ Len(data) \in Nat /\ DOMAIN data = 1 .. Len(data)
  BY RequestFacts, SeqShape DEF ReceiverInv, TypeInv, StreamInv
<1>2. /\ \A i \in 1 .. 2 : i \in DOMAIN data /\ i <= NumSize
      /\ \A i \in 1 .. 2 : i <= Len(payload) /\ payload[i] = data[i]
  <2>1. \A i \in 1 .. 2 : i \in 1 .. Len(data) /\ i <= NumSize
    BY <1>1 DEF NumSize
  <2>2. \A i \in 1 .. Len(data) : SubSeq(payload, 1, Len(data))[i] = payload[i]
    BY <1>1, FrontShape DEF Front
  <2>3. Len(payload) \in Nat
    BY DEF ReceiverInv, PayloadTyped
  <2>. QED
    BY <1>1, <2>1, <2>2, <2>3
<1>3. \A i \in 1 .. 2 : data[i][1] = "byte"
  BY <1>1, <1>2, PayloadAssumption
<1>4. \A i \in 1 .. 2 : PayloadByte(i) = {data[i][2]}
  BY <1>2, <1>3 DEF PayloadByte, ReadAs
<1>5. ExtractUint64 = {NumberIn(request)}
  BY <1>4 DEF ExtractUint64, NumberIn
<1>. QED
  BY <1>5, NumbersTyped DEF ReceiverInv

LEMMA ReplyReceived ==
  ASSUME ReceiverInv, FitPlace, Honest(request), PacketReceived
  PROVE  /\ request' = request
         /\ \/ pc' = "refused"
            \/ pc' \in Sending /\ ReplyTo(request, answer')
            \/ pc' = "done" /\ request.cmd \in Unanswered
<1>1. pc = "handler" /\ UNCHANGED clientVars
  BY DEF PacketReceived, ReadBlock, WriteBlock, IsAvailable, LockOrMapping, RefusePacket,
         HandlerAnswers, HandlerReturns, HandlerExits
<1>2. /\ packet.cmd = request.cmd /\ packet.len = request.len
      /\ request.len <= Len(payload) /\ SubSeq(payload, 1, request.len) = request.data
      /\ request.len = Len(request.data) /\ request' = request
  BY <1>1 DEF FitPlace, Honest, clientVars
<1>3. \A a : HandlerAnswers(a) => answer' = a /\ pc' \in Sending
  BY DEF HandlerAnswers, Sending
<1>4. CASE ReadBlock
  <2>1. request.cmd = "READ_BLOCK" /\ request.len = NumSize
    BY <1>2, <1>4 DEF ReadBlock
  <2>2. PICK n \in ExtractUint64 : HandlerAnswers(BlockAnswer(GetBlock(n)))
    BY <1>4 DEF ReadBlock
  <2>3. n = NumberIn(request)
    BY <1>2, <2>1, NumberRead DEF NumSize
  <2>4. answer' = BlockAnswer(BlockHeld(n)) /\ pc' \in Sending
    BY <1>3, <2>2, AnswerKnown
  <2>. QED
    BY <1>2, <2>1, <2>3, <2>4 DEF ReplyTo
<1>5. CASE WriteBlock
  <2>1. /\ request.cmd = "WRITE_BLOCK" /\ request.len = NumSize + BLOCK_SIZE
        /\ HandlerAnswers(Empty("OK"))
    BY <1>2, <1>5 DEF WriteBlock
  <2>2. answer' = Empty("OK") /\ pc' \in Sending
    BY <1>3, <2>1
  <2>. QED
    BY <1>2, <2>1, <2>2 DEF ReplyTo
<1>6. CASE IsAvailable
  <2>1. request.cmd = "IS_BLOCK_AVAILABLE"
    BY <1>2, <1>6 DEF IsAvailable
  <2>2. PICK n \in ExtractUint64 : HandlerAnswers(Empty(Available(n)))
    BY <1>6 DEF IsAvailable, Available
  <2>3. answer' = Empty(Available(n)) /\ pc' \in Sending
    BY <1>3, <2>2
  <2>4. request.len = NumSize => n = NumberIn(request)
    BY <1>2, NumberRead DEF NumSize
  <2>5. Empty(Available(n)) \in {Empty("OK"), Empty("NOK")}
    BY DEF Available
  <2>. QED
    BY <1>2, <2>1, <2>3, <2>4, <2>5 DEF ReplyTo
<1>7. CASE LockOrMapping
  BY <1>2, <1>7 DEF LockOrMapping, HandlerReturns, Unanswered
<1>8. CASE RefusePacket
  BY <1>2, <1>8 DEF RefusePacket, HandlerExits
<1>. QED
  BY <1>4, <1>5, <1>6, <1>7, <1>8 DEF PacketReceived

LEMMA ReplyInit == ProtocolInit => ReplyInv
BY DEF ProtocolInit, Init, ReplyInv, ReplyPlace, Sending

LEMMA ReplyKept ==
  ASSUME ReceiverInv, FitInv, ReplyInv, [ProtocolNext]_protocolVars
  PROVE  ReplyInv'
<1>1. [Next]_vars /\ TypeInv
  BY ReceiverStep DEF ReceiverInv
<1>2. request' = request
  BY <1>1 DEF Next, vars, clientVars, Client, ClientSends, ClientCloses, Connection, Handler,
     HandlerAnswers, HandlerReturns, HandlerExits, Handshake, ReadHeader, ReadPayload,
     ReadLine, ParseHeaders, ReadTail, ReadFrameHeader, ReadFrameLength, ReadMask,
     ReadFramePayload, ReadFrameNoArray, FrameNotAllocated, SendFrame, SendLength, SendPacket, SendPayload
<1>. SUFFICES ASSUME Fits', Honest(request)' PROVE ReplyPlace'
  BY DEF ReplyInv
<1>3. FitPlace /\ ReplyPlace /\ Honest(request)
  BY <1>1, <1>2, FitsBefore DEF FitInv, ReplyInv
<1>4. CASE PacketReceived
  <2>1. \/ pc' = "refused"
        \/ pc' \in Sending /\ ReplyTo(request', answer')
        \/ pc' = "done" /\ request'.cmd \in Unanswered
    BY <1>2, <1>3, <1>4, ReplyReceived
  <2>2. "refused" \notin Sending /\ "done" \notin Sending
    BY DEF Sending
  <2>. QED
    BY <2>1, <2>2 DEF ReplyPlace
<1>5. CASE SendFrame \/ SendLength \/ SendPacket
  <2>1. answer' = answer /\ pc \in Sending /\ pc' # "done"
    BY <1>5 DEF SendFrame, SendLength, SendPacket, Write, Sending
  <2>. QED
    BY <1>2, <1>3, <2>1 DEF ReplyPlace
<1>6. CASE SendPayload
  <2>1. answer' = answer /\ pc \in Sending /\ pc' \in {"done", "crashed"}
        /\ (pc' = "done" => answer.len = 0 \/ ~(answer.len > 0 /\ answer.data = NULL))
    BY <1>6 DEF SendPayload, Write, Sending
  <2>2. ReplyTo(request', answer')
    BY <1>2, <1>3, <2>1 DEF ReplyPlace
  <2>3. pc' = "done" => (answer'.len > 0 => answer'.data # NULL)
    BY <2>1
  <2>4. pc' \notin Sending
    BY <2>1 DEF Sending
  <2>. QED
    BY <2>2, <2>3, <2>4 DEF ReplyPlace
<1>7. CASE UNCHANGED <<pc, answer>>
  BY <1>2, <1>3, <1>7 DEF ReplyPlace
<1>8. CASE pc' \notin Sending \cup {"done"}
  BY <1>8 DEF ReplyPlace
<1>9. \/ PacketReceived \/ SendFrame \/ SendLength \/ SendPacket \/ SendPayload
      \/ UNCHANGED <<pc, answer>> \/ pc' \notin Sending \cup {"done"}
  <2>1. Client \/ UNCHANGED protocolVars => UNCHANGED <<pc, answer>>
    BY DEF Client, ClientSends, ClientCloses, protocolVars, vars
  <2>2. Connection =>
          \/ SendFrame \/ SendLength \/ SendPacket \/ SendPayload
          \/ pc' \notin Sending \cup {"done"}
    BY DEF Connection, Handshake, ReadHeader, ReadPayload, ReadLine, ParseHeaders, ReadTail,
           ReadFrameHeader, ReadFrameLength, ReadMask, ReadFramePayload, ReadFrameNoArray, FrameNotAllocated,
           Write, Sending
  <2>. QED
    BY <2>1, <2>2 DEF ProtocolNext, ConnectionStep
<1>. QED
  BY <1>4, <1>5, <1>6, <1>7, <1>8, <1>9

AnswerInv == ReceiverInv /\ FitInv /\ ReplyInv

LEMMA AnswerInvariance == ProtocolSpec => []AnswerInv
<1>1. ProtocolInit => AnswerInv
  BY ReceiverInit, ReplyInit, FitInit DEF ProtocolInit, AnswerInv
<1>2. AnswerInv /\ [ProtocolNext]_protocolVars => AnswerInv'
  <2>. SUFFICES ASSUME AnswerInv, [ProtocolNext]_protocolVars PROVE AnswerInv'
    OBVIOUS
  <2>1. ReceiverInv' /\ ReplyInv'
    BY ReceiverKept, ReplyKept DEF AnswerInv
  <2>2. FitInv'
    BY ReceiverStep, FitStep DEF AnswerInv, ReceiverInv
  <2>. QED
    BY <2>1, <2>2 DEF AnswerInv
<1>. QED
  BY <1>1, <1>2, PTL DEF ProtocolSpec

-----------------------------------------------------------------------------

\* The number that a client sends which keeps to the protocol.
LEMMA NumberSent ==
  ASSUME AnswerInv, Keeps, request.len = NumSize
  PROVE  NumberIn(request) \in Numbers /\ NumberIn(request) \in Nat
<1>. DEFINE data == request.data
<1>1. request.len = Len(data)
  BY DEF Keeps, Honest
<1>2. request \in Requests /\ IsSeq(data) /\ Len(data) = 2 /\ DOMAIN data = 1 .. 2
  BY <1>1, RequestFacts, SeqShape DEF AnswerInv, ReceiverInv, TypeInv, StreamInv, NumSize
<1>3. data[1][2] \in Bytes /\ data[2][2] \in Bytes
  <2>1. 1 \in DOMAIN data /\ 1 <= NumSize /\ 2 \in DOMAIN data /\ 2 <= NumSize
    BY <1>2 DEF NumSize
  <2>. QED
    BY <1>2, <2>1, PayloadAssumption
<1>4. Base \in Nat \ {0}
  BY BlockAssumption
<1>. HIDE DEF data
<1>5. data[1][2] * Base + data[2][2] \in 0 .. (Base * Base - 1)
  BY <1>3, <1>4, Digits DEF Bytes
<1>6. Base * Base \in Nat
  BY <1>4
<1>. QED
  BY <1>5, <1>6 DEF NumberIn, Numbers, data

\* What the reads of Proper clients give the receiver.
LEMMA ProperFits ==
  ASSUME AnswerInv, Proper, request.len = NumSize
  PROVE  /\ Fits /\ Honest(request) /\ ReplyPlace /\ AskedNumber = NumberIn(request)
         /\ NumberIn(request) \in Numbers /\ NumberIn(request) \in Nat
<1>1. Fits /\ Honest(request)
  BY MatchFits DEF Proper
<1>2. ReplyPlace
  BY <1>1 DEF AnswerInv, ReplyInv
<1>. QED
  BY <1>1, <1>2, NumberSent DEF Keeps, AskedNumber

\* The block is there, and what a child sends is all of it.
LEMMA BlockWhole ==
  ASSUME disk = Stored, NEW n \in Nat, InRange(n), IsBlockAvailable(n)
  PROVE  InFile(n) /\ ReadFrom(Stored, n) = BlockOf(n)
<1>. DEFINE o == Offset(n)
            all == ReadFrom(Stored, n)
            m == BLOCK_SIZE
<1>1. /\ o \in Nat /\ uint64(o) = o /\ o + m <= FileLength /\ InFile(n)
      /\ (n + 1) * m = o + m /\ m \in Nat \ {0} /\ FileLength \in Nat
  BY BlockArithmetic, BlockAssumption, LengthAssumption
<1>2. /\ all = [i \in 1 .. m |-> IF uint64(o) + i <= FileLength THEN Stored[uint64(o) + i]
                                                              ELSE Garbage]
      /\ BlockOf(n) = SubSeq(Stored, o + 1, o + m)
  BY <1>1 DEF ReadFrom, Offset, BlockOf, BlockIn
<1>. HIDE DEF o, all, m
<1>3. IsSeq(all) /\ Len(all) = m
  BY <1>1, <1>2, FunctionSeq
<1>4. ASSUME NEW i \in 1 .. m PROVE all[i] = Stored[o + i]
  <2>1. o + i <= FileLength
    BY <1>1
  <2>. QED
    BY <1>1, <1>2, <2>1
<1>5. /\ IsSeq(BlockOf(n)) /\ Len(BlockOf(n)) = m
      /\ \A i \in 1 .. m : BlockOf(n)[i] = Stored[o + i]
  <2>1. o + 1 \in Nat \ {0} /\ o + m \in Nat /\ o + 1 <= o + m /\ (o + m) - (o + 1) + 1 = m
    BY <1>1
  <2>2. /\ IsSeq(SubSeq(Stored, o + 1, o + m))
        /\ Len(SubSeq(Stored, o + 1, o + m)) =
             IF o + 1 <= o + m THEN (o + m) - (o + 1) + 1 ELSE 0
        /\ \A i \in 1 .. (o + m) - (o + 1) + 1 :
             SubSeq(Stored, o + 1, o + m)[i] = Stored[(o + 1) + i - 1]
    BY <2>1, SubSeqShape
  <2>3. \A i \in 1 .. m : (o + 1) + i - 1 = o + i
    BY <1>1
  <2>. QED
    BY <1>2, <2>1, <2>2, <2>3
<1>6. all = BlockOf(n)
  BY <1>3, <1>4, <1>5, SameSeq
<1>. QED
  BY <1>1, <1>6 DEF all

\* A client that asks for a block of the file gets its bytes, in order and all of
\* them, and for any other block no complete answer, on either transport and for
\* every block size and number whose offset fits (protocol.cpp:21-36,
\* blockstorage.cpp:23-51).
THEOREM ReadAnsweredCorrect == ProtocolSpec => []ReadAnswered
<1>1. AnswerInv => ReadAnswered
  <2>. SUFFICES ASSUME AnswerInv, pc = "done", Proper, Asks("READ_BLOCK", NumSize),
                       InRange(AskedNumber)
                PROVE  InFile(AskedNumber) /\ answer = BlockAnswer(BlockOf(AskedNumber))
    BY DEF ReadAnswered
  <2>. DEFINE n == NumberIn(request)
  <2>1. /\ request.cmd = "READ_BLOCK" /\ ReplyPlace /\ AskedNumber = n
        /\ n \in Nat
    BY ProperFits DEF Asks, AsksFor
  <2>2. ReplyTo(request, answer) /\ (answer.len > 0 => answer.data # NULL)
    BY <2>1 DEF ReplyPlace, Unanswered
  <2>3. answer = BlockAnswer(BlockHeld(n))
    BY <2>1, <2>2 DEF ReplyTo
  <2>4. BlockHeld(n) # NULL
    BY <2>2, <2>3, BlockAssumption DEF BlockAnswer
  <2>5. IsBlockAvailable(n) /\ BlockHeld(n) = ReadFrom(Stored, n)
    BY <2>4 DEF BlockHeld
  <2>. HIDE DEF n
  <2>6. InFile(n) /\ ReadFrom(Stored, n) = BlockOf(n)
    BY <2>1, <2>5, BlockWhole DEF AnswerInv, ReceiverInv
  <2>. QED
    BY <2>1, <2>3, <2>5, <2>6
<1>. QED
  BY <1>1, AnswerInvariance, PTL

\* IS_BLOCK_AVAILABLE is answered with COMMAND_OK for the blocks that READ_BLOCK
\* delivers, and for no other (protocol.cpp:58-71, blockstorage.cpp:48-51).
THEOREM AvailabilityAnsweredCorrect == ProtocolSpec => []AvailabilityAnswered
<1>1. AnswerInv => AvailabilityAnswered
  <2>. SUFFICES ASSUME AnswerInv, pc = "done", Proper, Asks("IS_BLOCK_AVAILABLE", NumSize),
                       InRange(AskedNumber)
                PROVE  answer = Empty(IF InFile(AskedNumber) THEN "OK" ELSE "NOK")
    BY DEF AvailabilityAnswered
  <2>. DEFINE n == NumberIn(request)
  <2>1. /\ request.cmd = "IS_BLOCK_AVAILABLE" /\ request.len = NumSize /\ ReplyPlace
        /\ AskedNumber = n /\ n \in Nat
    BY ProperFits DEF Asks, AsksFor
  <2>2. ReplyTo(request, answer)
    BY <2>1 DEF ReplyPlace, Unanswered
  <2>3. answer = Empty(Available(n))
    BY <2>1, <2>2 DEF ReplyTo
  <2>. HIDE DEF n
  <2>4. IsBlockAvailable(n) <=> InFile(n)
    BY <2>1, BlockArithmetic
  <2>. QED
    BY <2>1, <2>3, <2>4 DEF Available
<1>. QED
  BY <1>1, AnswerInvariance, PTL

-----------------------------------------------------------------------------
(***************************************************************************)
(* The only crash.  A child whose client stays and whose records fit does  *)
(* not run out of its array of lines, allocates what it reads, and has a   *)
(* payload for every answer but that of a block that is not there.         *)
(***************************************************************************)

LEMMA CrashingStep ==
  ASSUME [Next]_vars, pc' = "crashed", pc # "crashed", peerOpen
  PROVE  \/ ReadLine \/ FrameNotAllocated \/ ReadFrameNoArray
         \/ SendPayload /\ answer.len > 0 /\ answer.data = NULL
<1>1. ~(Client \/ Handler \/ UNCHANGED vars)
  BY DEF Client, ClientSends, ClientCloses, Handler, HandlerAnswers, HandlerReturns,
         HandlerExits, vars
<1>2. ~(ReadHeader \/ ReadPayload \/ ReadTail \/ ReadFrameHeader \/ ReadFrameLength \/ ReadMask
          \/ ReadFramePayload \/ Handshake)
  BY DEF Handshake, ReadHeader, ReadPayload, ReadTail, ReadFrameHeader, ReadFrameLength,
         ReadMask, ReadFramePayload
<1>3. ~(ParseHeaders \/ SendFrame \/ SendLength \/ SendPacket)
  BY DEF ParseHeaders, SendFrame, SendLength, SendPacket, Write
<1>4. SendPayload => answer.len > 0 /\ answer.data = NULL
  BY DEF SendPayload, Write
<1>. QED
  BY <1>1, <1>2, <1>3, <1>4 DEF Next, Connection

LEMMA LinesFit ==
  ASSUME TypeInv, [Next]_vars, ReadLine, pc' = "crashed"
  PROVE  ~(Len(request.lines) < MaxHeaders - 1)
<1>1. headers' = MaxHeaders /\ request' = request /\ pc = "lines"
  BY DEF ReadLine, clientVars
<1>2. headers' <= Len(lines') /\ Len(lines') <= LineCount(request) + 1 /\ Len(lines') \in Nat
  BY <1>1, TypeStep, SeqShape DEF TypeInv, LinesInv
<1>3. LineCount(request) \in Nat /\ MaxHeaders \in Nat
  BY LengthAssumption, RequestFacts DEF LineCount, TypeInv, StreamInv
<1>. QED
  BY <1>1, <1>2, <1>3 DEF LineCount

LEMMA PacketAllocated ==
  ASSUME TypeInv, FitPlace, Legible(request), pc = "framePayload"
  PROVE  Allocated
<1>. DEFINE n == PacketSize(request)
<1>1. /\ request \in Requests /\ n = HeaderSize + Len(request.data)
      /\ Len(request.data) \in Nat
  BY RequestFacts, PacketShape DEF TypeInv, StreamInv, PacketSize
<1>2. frame.len = 0 \/ frame.len = n
  <2>1. IsHttp(request) /\ (frame.len = 0 \/ frame = FrameOf(HostLength(n), request.masked))
    BY DEF FitPlace
  <2>2. HostLength(n) = n
    BY <2>1 DEF Legible, PacketSize
  <2>. QED
    BY <2>1, <2>2 DEF FrameOf
<1>3. n + 1 <= MaxHeap /\ n \in Nat /\ MaxHeap \in Nat
  BY <1>1, PayloadAssumption, LengthAssumption DEF HeaderSize
<1>4. \A x \in Nat : uint64(x) <= x
  <2>. TAKE x \in Nat
  <2>1. uint64(x) \in 0 .. (Width - 1) /\ (x < Width => uint64(x) = x)
    BY Truncation
  <2>. QED
    BY <2>1, LengthAssumption
<1>. HIDE DEF n
<1>5. frame.len + 1 \in Nat /\ frame.len + 1 <= MaxHeap
  BY <1>2, <1>3
<1>6. uint64(frame.len + 1) \in 0 .. (Width - 1) /\ uint64(frame.len + 1) <= frame.len + 1
  BY <1>4, <1>5, Truncation
<1>. QED
  BY <1>3, <1>5, <1>6, LengthAssumption DEF Allocated

\* A child whose client behaves and stays ends by a signal only when a block is
\* asked for that is not there: its header goes out, and then the null pointer is
\* read (protocol.cpp:27-34, secnet.cpp:114-115).
THEOREM CrashesCorrect == ProtocolSpec => CrashesOnlyForMissingBlock
<1>. DEFINE Missing ==
       /\ Asks("READ_BLOCK", NumSize)
       /\ InRange(AskedNumber) => ~InFile(AskedNumber)
     Crash ==
       pc' = "crashed" /\ pc # "crashed" /\ peerOpen /\ Proper /\ Legible(request)
       /\ Len(request.lines) < MaxHeaders - 1
<1>1. AnswerInv /\ [ProtocolNext]_protocolVars => [Crash => Missing]_protocolVars
  <2>. SUFFICES ASSUME AnswerInv, [ProtocolNext]_protocolVars, Crash
                PROVE  Missing
    OBVIOUS
  <2>1. [Next]_vars /\ TypeInv
    BY ReceiverStep DEF AnswerInv, ReceiverInv
  <2>2. Fits /\ FitPlace /\ Honest(request)
    BY MatchFits DEF Proper, AnswerInv, FitInv
  <2>3. ~ReadLine
    BY <2>1, LinesFit
  <2>4. ~FrameNotAllocated /\ ~ReadFrameNoArray
    BY <2>1, <2>2, PacketAllocated, FitArray DEF FrameNotAllocated
  <2>5. SendPayload /\ answer.len > 0 /\ answer.data = NULL
    BY <2>1, <2>3, <2>4, CrashingStep
  <2>6. ReplyTo(request, answer)
    BY <2>2, <2>5 DEF AnswerInv, ReplyInv, ReplyPlace, SendPayload, Sending
  <2>. DEFINE n == NumberIn(request)
  <2>7. Asks("READ_BLOCK", NumSize) /\ answer = BlockAnswer(BlockHeld(n))
    BY <2>5, <2>6 DEF ReplyTo, Empty, Asks, AsksFor
  <2>8. AskedNumber = n /\ n \in Numbers /\ n \in Nat
    BY <2>7, ProperFits DEF Asks, AsksFor
  <2>9. BlockHeld(n) = NULL
    BY <2>5, <2>7 DEF BlockAnswer
  <2>. HIDE DEF n
  <2>10. IsBlockAvailable(n) => ReadFrom(Stored, n) # NULL
    <3>1. IsBlockAvailable(n) => uint64(n * BLOCK_SIZE) + BLOCK_SIZE <= FileLength
      BY <2>8, BlockArithmetic DEF Offset
    <3>. QED
      BY <2>8, <3>1, ReplyAssumption DEF Numbers
  <2>11. ~IsBlockAvailable(n)
    BY <2>9, <2>10 DEF BlockHeld
  <2>12. InRange(n) => ~InFile(n)
    BY <2>8, <2>11, BlockArithmetic
  <2>. QED
    BY <2>7, <2>8, <2>12
<1>. QED
  BY <1>1, AnswerInvariance, PTL DEF ProtocolSpec, CrashesOnlyForMissingBlock

-----------------------------------------------------------------------------
(***************************************************************************)
(* Every step of Protocol is a step of Exchange or changes nothing that a  *)
(* client sees.                                                            *)
(***************************************************************************)

ExchangeInv == AnswerInv /\ OutInv

LEMMA ExchangeInvariance == ProtocolSpec => []ExchangeInv
<1>1. ProtocolInit => OutInv
  BY OutInit DEF ProtocolInit
<1>2. AnswerInv /\ OutInv /\ [ProtocolNext]_protocolVars => OutInv'
  BY ReceiverStep, OutStep DEF AnswerInv, ReceiverInv
<1>. QED
  BY <1>1, <1>2, AnswerInvariance, PTL DEF ProtocolSpec, ExchangeInv

\* The same of the state after a step.
LEMMA DecodesNext == TypeInv' /\ OutInv' => AnswerDecodable'
BY Decodes, PTL

\* A complete answer of the receiver is a right one.
LEMMA RightReply ==
  ASSUME AnswerInv, Keeps, answer \in Answers, ReplyTo(request, answer),
         answer.len > 0 => answer.data # NULL
  PROVE  RightAnswer(request, answer)
<1>. DEFINE n == NumberIn(request)
<1>1. request.len = NumSize => n \in Nat
  BY NumberSent
<1>2. disk = Stored
  BY DEF AnswerInv, ReceiverInv
<1>3. CASE request.cmd = "READ_BLOCK" /\ request.len = NumSize
           /\ answer = BlockAnswer(BlockHeld(n))
  <2>1. BlockHeld(n) # NULL
    BY <1>3, BlockAssumption DEF BlockAnswer
  <2>2. answer.cmd = "BLOCK_ANSWER" /\ answer.data # NULL
    BY <1>3, <2>1 DEF BlockAnswer
  <2>3. IsBlockAvailable(n) /\ BlockHeld(n) = ReadFrom(Stored, n)
    BY <2>1 DEF BlockHeld
  <2>. HIDE DEF n
  <2>4. InRange(n) => InFile(n) /\ ReadFrom(Stored, n) = BlockIn(Stored, n)
    BY <1>1, <1>2, <1>3, <2>3, BlockWhole DEF BlockOf
  <2>. QED
    BY <1>3, <2>2, <2>3, <2>4 DEF RightAnswer, AsksFor, n
<1>4. CASE request.cmd = "WRITE_BLOCK" /\ request.len = NumSize + BLOCK_SIZE
           /\ answer = Empty("OK")
  BY <1>4 DEF RightAnswer, AsksFor
<1>5. CASE request.cmd = "IS_BLOCK_AVAILABLE" /\ answer \in {Empty("OK"), Empty("NOK")}
           /\ (request.len = NumSize => answer = Empty(Available(n)))
  <2>. HIDE DEF n
  <2>1. request.len = NumSize /\ InRange(n) => (IsBlockAvailable(n) <=> InFile(n))
    BY <1>1, BlockArithmetic
  <2>2. request.len = NumSize /\ InRange(n) =>
          answer = Empty(IF InFile(n) THEN "OK" ELSE "NOK")
    BY <1>5, <2>1 DEF Available
  <2>. QED
    BY <1>5, <2>2 DEF RightAnswer, n
<1>. QED
  BY <1>3, <1>4, <1>5 DEF ReplyTo

\* A block in the file is available, and its number is that of no other block.
LEMMA InFileAvailable ==
  ASSUME NEW n \in Nat, InFile(n)
  PROVE  IsBlockAvailable(n) /\ InRange(n)
<1>1. /\ Offset(n) \in Nat /\ (n + 1) * BLOCK_SIZE = Offset(n) + BLOCK_SIZE
      /\ InRange(n) => (IsBlockAvailable(n) <=> InFile(n))
  BY BlockArithmetic
<1>2. Offset(n) + BLOCK_SIZE <= FileLength
  BY <1>1 DEF InFile
<1>3. Offset(n) < Width
  BY <1>1, <1>2, BlockAssumption, LengthAssumption
<1>. QED
  BY <1>1, <1>3 DEF InRange, Offset

\* What ends without an answer, while the client waits, was not to be served.
LEMMA NotDropped ==
  ASSUME AnswerInv, [ProtocolNext]_protocolVars, Keeps, peerOpen, Answerable(request),
         pc # "handshake", pc' # pc
  PROVE  pc' \notin {"refused", "crashed"} /\ ~HandlerReturns
<1>1. /\ [Next]_vars /\ TypeInv /\ Fits /\ FitPlace /\ Honest(request) /\ Servable(request)
      /\ Legible(request) /\ ReplyPlace
  BY ReceiverStep DEF AnswerInv, ReceiverInv, FitInv, ReplyInv, Keeps, Answerable
<1>2. \/ AsksFor(request, "READ_BLOCK", NumSize) /\ InFile(NumberIn(request))
      \/ AsksFor(request, "WRITE_BLOCK", NumSize + BLOCK_SIZE)
      \/ AsksFor(request, "IS_BLOCK_AVAILABLE", NumSize)
  BY DEF Answerable
<1>3. pc = "handler" => packet.cmd = request.cmd /\ packet.len = request.len
  BY <1>1 DEF FitPlace
<1>4. pc = "handler" => ~RefusePacket /\ ~LockOrMapping
  BY <1>2, <1>3 DEF AsksFor, RefusePacket, LockOrMapping
<1>5. PacketReceived => pc' \notin {"refused", "crashed"} /\ ~HandlerReturns
  <2>1. PacketReceived => pc = "handler"
    BY DEF PacketReceived, ReadBlock, WriteBlock, IsAvailable, LockOrMapping, RefusePacket,
           HandlerAnswers, HandlerReturns, HandlerExits
  <2>2. ReadBlock \/ WriteBlock \/ IsAvailable => pc' \in {"sendFrame", "sendPacket"}
    BY DEF ReadBlock, WriteBlock, IsAvailable, HandlerAnswers
  <2>3. HandlerReturns => pc' = "done"
    BY DEF HandlerReturns
  <2>. QED
    BY <1>4, <2>1, <2>2, <2>3 DEF PacketReceived
<1>6. Handler => pc = "handler"
  BY DEF Handler, HandlerAnswers, HandlerReturns, HandlerExits
<1>7. pc = "handler" => PacketReceived
  <2>1. Connection => pc # "handler"
    BY DEF Connection, Handshake, ReadHeader, ReadPayload, ReadLine, ParseHeaders, ReadTail,
           ReadFrameHeader, ReadFrameLength, ReadMask, ReadFramePayload, ReadFrameNoArray, FrameNotAllocated,
           SendFrame, SendLength, SendPacket, SendPayload
  <2>2. Client \/ UNCHANGED protocolVars => pc' = pc
    BY DEF Client, ClientSends, ClientCloses, protocolVars, vars
  <2>. QED
    BY <2>1, <2>2 DEF ProtocolNext, ConnectionStep
<1>8. pc' # "refused"
  <2>. SUFFICES ASSUME pc' = "refused" PROVE FALSE
    OBVIOUS
  <2>1. Handshake \/ Handler
    BY <1>1, NotRefused
  <2>2. ~Handshake
    BY DEF Handshake
  <2>. QED
    BY <1>5, <1>6, <1>7, <2>1, <2>2
<1>9. pc' # "crashed"
  <2>. SUFFICES ASSUME pc' = "crashed" PROVE FALSE
    OBVIOUS
  <2>1. ~ReadLine
    <3>1. ReadLine => IsHttp(request)
      BY <1>1 DEF ReadLine, TypeInv, PlaceInv
    <3>2. IsHttp(request) => Len(request.lines) < MaxHeaders - 1
      BY <1>1 DEF Servable
    <3>. QED
      BY <1>1, <3>1, <3>2, LinesFit
  <2>2. ~FrameNotAllocated /\ ~ReadFrameNoArray
    BY <1>1, PacketAllocated, FitArray DEF FrameNotAllocated
  <2>3. SendPayload /\ answer.len > 0 /\ answer.data = NULL
    BY <1>1, <2>1, <2>2, CrashingStep
  <2>4. ReplyTo(request, answer)
    BY <1>1, <2>3 DEF ReplyPlace, SendPayload, Sending
  <2>. DEFINE n == NumberIn(request)
  <2>5. AsksFor(request, "READ_BLOCK", NumSize) /\ answer = BlockAnswer(BlockHeld(n))
    BY <2>3, <2>4 DEF ReplyTo, Empty, AsksFor
  <2>6. InFile(n)
    BY <1>2, <2>5 DEF AsksFor
  <2>7. n \in Numbers /\ n \in Nat
    BY <2>5, NumberSent DEF AsksFor
  <2>8. BlockHeld(n) = NULL
    BY <2>3, <2>5 DEF BlockAnswer
  <2>. HIDE DEF n
  <2>9. IsBlockAvailable(n) /\ uint64(n * BLOCK_SIZE) + BLOCK_SIZE <= FileLength
    BY <2>6, <2>7, InFileAvailable, BlockArithmetic DEF Offset
  <2>10. ReadFrom(Stored, n) # NULL
    BY <2>7, <2>9, ReplyAssumption DEF Numbers
  <2>. QED
    BY <2>8, <2>9, <2>10 DEF BlockHeld
<1>10. ~HandlerReturns
  <2>1. HandlerReturns => pc = "handler"
    BY DEF HandlerReturns
  <2>. QED
    BY <1>5, <1>7, <2>1
<1>. QED
  BY <1>8, <1>9, <1>10

\* The states of the exchange, one by one.
LEMMA ExchangeStates ==
  ASSUME TypeInv
  PROVE  /\ pc = "handshake" => ExchangeState = "greeting"
         /\ pc = "done" /\ answer # NULL => ExchangeState = "answered"
         /\ pc = "done" /\ answer = NULL => ExchangeState = "over"
         /\ pc \in {"refused", "crashed"} => ExchangeState = "over"
         /\ pc \notin {"handshake", "done", "refused", "crashed"} =>
              ExchangeState = "waiting"
         /\ ExchangeState # "answered" => Heard = NULL
         /\ ExchangeState = "answered" => Heard = Received
BY DEF ExchangeState, Heard

Step == [Promise!Next]_<<request, Keeps, peerOpen, ExchangeState, Heard>>

LEMMA ExchangeInit == ProtocolInit => Promise!Init
<1>. SUFFICES ASSUME ProtocolInit PROVE Promise!Init
  OBVIOUS
<1>1. request \in Requests /\ peerOpen = TRUE /\ pc = "handshake"
  BY DEF ProtocolInit, Init
<1>2. ExchangeState = "greeting" /\ Heard = NULL
  BY <1>1 DEF ExchangeState, Heard
<1>3. Keeps \in BOOLEAN
  BY DEF Keeps
<1>. QED
  BY <1>1, <1>2, <1>3 DEF Promise!Init

LEMMA ClientStep ==
  ASSUME ExchangeInv, [ProtocolNext]_protocolVars, Client
  PROVE  Step
<1>1. request' = request /\ ExchangeState' = ExchangeState /\ Heard' = Heard
  <2>1. UNCHANGED <<request, pc, answer, out>>
    BY DEF Client, ClientSends, ClientCloses
  <2>. QED
    BY <2>1 DEF ExchangeState, Heard, Received, Reply, InFrame, Sent101
<1>2. Keeps' => Keeps
  BY <1>1, ReceiverStep, FitsBefore DEF Keeps, ExchangeInv, AnswerInv, ReceiverInv
<1>3. CASE peerOpen' = peerOpen
  <2>1. CASE Keeps /\ ~Keeps'
    <3>1. Keeps' = FALSE
      BY <2>1 DEF Keeps
    <3>. QED
      BY <1>1, <1>3, <2>1, <3>1 DEF Step, Promise!Next, Promise!Lapse
  <2>2. CASE ~(Keeps /\ ~Keeps')
    <3>1. Keeps' = Keeps
      BY <1>2, <2>2 DEF Keeps
    <3>. QED
      BY <1>1, <1>3, <3>1 DEF Step
  <2>. QED
    BY <2>1, <2>2
<1>4. CASE peerOpen' # peerOpen
  <2>1. peerOpen /\ peerOpen' = FALSE
    BY <1>4 DEF Client, ClientSends, ClientCloses
  <2>. QED
    BY <1>1, <1>2, <2>1 DEF Step, Promise!Next, Promise!HangUp
<1>. QED
  BY <1>3, <1>4

LEMMA ServerStep ==
  ASSUME ExchangeInv, [ProtocolNext]_protocolVars, Connection \/ PacketReceived
  PROVE  Step
<1>1. /\ [Next]_vars /\ TypeInv /\ AnswerInv /\ OutInv /\ request \in Requests
      /\ TypeInv' /\ AnswerInv' /\ OutInv'
  <2>1. [Next]_vars /\ TypeInv /\ AnswerInv /\ OutInv /\ request \in Requests
    BY ReceiverStep DEF ExchangeInv, AnswerInv, ReceiverInv, TypeInv, StreamInv
  <2>2. ReceiverInv' /\ ReplyInv'
    BY ReceiverKept, ReplyKept DEF ExchangeInv, AnswerInv
  <2>3. FitInv' /\ OutInv'
    BY <2>1, FitStep, OutStep DEF AnswerInv
  <2>. QED
    BY <2>1, <2>2, <2>3 DEF AnswerInv, ReceiverInv
<1>2. UNCHANGED clientVars /\ pc \notin {"done", "refused", "crashed"}
  BY DEF Connection, Handshake, ReadHeader, ReadPayload, ReadLine, ParseHeaders, ReadTail,
         ReadFrameHeader, ReadFrameLength, ReadMask, ReadFramePayload, ReadFrameNoArray, FrameNotAllocated,
         SendFrame, SendLength, SendPacket, SendPayload, PacketReceived, ReadBlock,
         WriteBlock, IsAvailable, LockOrMapping, RefusePacket, HandlerAnswers,
         HandlerReturns, HandlerExits
<1>3. request' = request /\ peerOpen' = peerOpen /\ Keeps' = Keeps
  <2>1. UNCHANGED <<request, wire, cuts, peerOpen>>
    BY <1>2 DEF clientVars
  <2>. QED
    BY <2>1 DEF Keeps, Fits, Honest, Sent, HttpEnd, BodyStart, Whole
<1>4. CASE pc = "handshake"
  <2>1. ExchangeState = "greeting" /\ Heard = NULL
    BY <1>1, <1>4, ExchangeStates
  <2>2. \/ peerOpen /\ pc' = "header"
        \/ pc' = "refused"
    BY <1>4 DEF Connection, Handshake, ReadHeader, ReadPayload, ReadLine, ParseHeaders,
           ReadTail, ReadFrameHeader, ReadFrameLength, ReadMask, ReadFramePayload, ReadFrameNoArray,
           FrameNotAllocated, SendFrame, SendLength, SendPacket, SendPayload, PacketReceived,
           ReadBlock, WriteBlock, IsAvailable, LockOrMapping, RefusePacket, HandlerAnswers,
           HandlerReturns, HandlerExits
  <2>3. CASE peerOpen /\ pc' = "header"
    <3>1. ExchangeState' = "waiting" /\ Heard' = NULL
      BY <1>1, <2>3 DEF ExchangeState, Heard
    <3>. QED
      BY <1>3, <2>1, <2>3, <3>1 DEF Step, Promise!Next, Promise!LetIn
  <2>4. CASE pc' = "refused"
    <3>1. ExchangeState' = "over" /\ Heard' = NULL
      BY <1>1, <2>4 DEF ExchangeState, Heard
    <3>. QED
      BY <1>3, <2>1, <3>1 DEF Step, Promise!Next, Promise!TurnAway
  <2>. QED
    BY <2>2, <2>3, <2>4
<1>5. CASE pc # "handshake"
  <2>1. ExchangeState = "waiting" /\ Heard = NULL
    BY <1>1, <1>2, <1>5, ExchangeStates
  <2>2. CASE pc' \notin {"handshake", "done", "refused", "crashed"}
    <3>1. ExchangeState' = "waiting" /\ Heard' = NULL
      BY <1>1, <2>2 DEF ExchangeState, Heard
    <3>. QED
      BY <1>3, <2>1, <3>1 DEF Step
  <2>3. CASE pc' \in {"refused", "crashed"}
    <3>1. ExchangeState' = "over" /\ Heard' = NULL
      BY <1>1, <2>3 DEF ExchangeState, Heard
    <3>2. ~(Keeps /\ peerOpen /\ request \in {r \in Requests : Answerable(r)})
      BY <1>1, <1>2, <1>5, <2>3, NotDropped
    <3>. QED
      BY <1>3, <2>1, <3>1, <3>2 DEF Step, Promise!Next, Promise!Drop
  <2>4. CASE pc' = "done" /\ answer' = NULL
    <3>1. ExchangeState' = "over" /\ Heard' = NULL
      BY <1>1, <2>4 DEF ExchangeState, Heard
    <3>2. HandlerReturns
      <4>1. ~Connection
        <5>1. Connection => SendPayload
          BY <2>4 DEF Connection, Handshake, ReadHeader, ReadPayload, ReadLine, ParseHeaders,
                 ReadTail, ReadFrameHeader, ReadFrameLength, ReadMask, ReadFramePayload, ReadFrameNoArray,
                 FrameNotAllocated, SendFrame, SendLength, SendPacket, Write
        <5>2. SendPayload => answer' = answer /\ answer \in Answers
          BY <1>1 DEF SendPayload, ExchangeInv, OutInv, Sending
        <5>. QED
          BY <2>4, <5>1, <5>2, NullAssumption
      <4>. QED
        BY <2>4, <4>1 DEF PacketReceived, ReadBlock, WriteBlock, IsAvailable, LockOrMapping,
               RefusePacket, HandlerAnswers, HandlerExits
    <3>3. ~(Keeps /\ peerOpen /\ request \in {r \in Requests : Answerable(r)})
      BY <1>1, <1>2, <1>5, <2>4, <3>2, NotDropped
    <3>. QED
      BY <1>3, <2>1, <3>1, <3>3 DEF Step, Promise!Next, Promise!Drop
  <2>5. CASE pc' = "done" /\ answer' # NULL
    <3>1. ExchangeState' = "answered" /\ Heard' = Received'
      BY <1>1, <2>5 DEF ExchangeState, Heard
    <3>2. Heard' \in HeardOf(answer')
      BY <1>1, <2>5, <3>1, DecodesNext DEF AnswerDecodable, HeardOf, Readable
    <3>3. Keeps => Heard' \in [r \in Requests |-> RightMessages(r)][request]
      <4>. SUFFICES ASSUME Keeps
                    PROVE  Heard' \in [r \in Requests |-> RightMessages(r)][request]
        OBVIOUS
      <4>1. SendPayload
        <5>1. ~PacketReceived
          <6>1. PacketReceived => answer = NULL
            BY <1>1 DEF PacketReceived, ReadBlock, WriteBlock, IsAvailable, LockOrMapping,
               RefusePacket, HandlerAnswers, HandlerReturns, HandlerExits, OutInv, Sending,
               Ended
          <6>2. PacketReceived => pc' # "done" \/ answer' = answer
            BY DEF PacketReceived, ReadBlock, WriteBlock, IsAvailable, LockOrMapping,
               RefusePacket, HandlerAnswers, HandlerReturns, HandlerExits
          <6>. QED
            BY <2>5, <6>1, <6>2
        <5>. QED
          BY <2>5, <5>1 DEF Connection, Handshake, ReadHeader, ReadPayload, ReadLine,
                 ParseHeaders, ReadTail, ReadFrameHeader, ReadFrameLength, ReadMask,
                 ReadFramePayload, ReadFrameNoArray, FrameNotAllocated, SendFrame, SendLength, SendPacket,
                 Write
      <4>2. answer' = answer /\ answer \in Answers
        BY <1>1, <4>1 DEF SendPayload, OutInv, Sending
      <4>3. answer.len > 0 => answer.data # NULL
        BY <1>1, <2>5, <4>2 DEF OutInv
      <4>4. RightAnswer(request, answer)
        <5>1. ReplyTo(request, answer)
          BY <1>1, <4>1 DEF SendPayload, AnswerInv, ReplyInv, ReplyPlace, Keeps, Sending
        <5>. QED
          BY <1>1, <4>2, <4>3, <5>1, RightReply
      <4>5. HeardOf(answer') \subseteq RightMessages(request)
        BY <4>2, <4>4 DEF RightMessages
      <4>. QED
        BY <1>1, <3>2, <4>5
    <3>. QED
      BY <1>3, <2>1, <3>1, <3>3 DEF Step, Promise!Next, Promise!Answer
  <2>6. pc' # "handshake"
    BY DEF Connection, Handshake, ReadHeader, ReadPayload, ReadLine, ParseHeaders,
           ReadTail, ReadFrameHeader, ReadFrameLength, ReadMask, ReadFramePayload, ReadFrameNoArray,
           FrameNotAllocated, SendFrame, SendLength, SendPacket, SendPayload, Write,
           PacketReceived, ReadBlock, WriteBlock, IsAvailable, LockOrMapping, RefusePacket,
           HandlerAnswers, HandlerReturns, HandlerExits
  <2>. QED
    BY <2>2, <2>3, <2>4, <2>5, <2>6
<1>. QED
  BY <1>4, <1>5

LEMMA ExchangeStep == ExchangeInv /\ [ProtocolNext]_protocolVars => Step
<1>. SUFFICES ASSUME ExchangeInv, [ProtocolNext]_protocolVars PROVE Step
  OBVIOUS
<1>1. CASE UNCHANGED protocolVars
  <2>1. UNCHANGED vars
    BY <1>1 DEF protocolVars
  <2>. QED
    BY <2>1 DEF Step, vars, clientVars, Keeps, Fits, Honest, Sent, HttpEnd, BodyStart, Whole,
           ExchangeState, Heard, Received, Reply, InFrame, Sent101
<1>2. CASE Client
  BY <1>2, ClientStep
<1>3. CASE Connection \/ PacketReceived
  BY <1>3, ServerStep
<1>. QED
  BY <1>1, <1>2, <1>3 DEF ProtocolNext, ConnectionStep

\* The child keeps the promise of Exchange for every request, every way to cut it
\* into records, every block size and file length: whoever keeps to the protocol
\* decodes the right answer or gets none, never a second one, and a request that
\* has to be served is not dropped while its client waits (secnet.cpp:29-302,
\* 67-117, protocol.cpp:10-75).
THEOREM ExchangeCorrect == ProtocolSpec => ImplementsExchange
<1>1. ExchangeInv /\ [ProtocolNext]_protocolVars => [Promise!Next]_(Promise!exchangeVars)
  BY ExchangeStep DEF Step, Promise!exchangeVars
<1>. QED
  BY <1>1, ExchangeInit, ExchangeInvariance, PTL DEF ProtocolSpec, ImplementsExchange, Promise!Spec

=============================================================================

------------------------------- MODULE SecNet -------------------------------
(***************************************************************************)
(* One connection of a Shepoo server: the class SecNet, in the forked child *)
(* that serves one client (server/src/secnet.cpp).                         *)
(*                                                                         *)
(* Bytes come in TLS records.  SSL_read waits for a record, returns bytes  *)
(* of one record only, however many were asked for, and nothing once the   *)
(* client has closed; the code never looks at what it returns.  A client   *)
(* sends a packet at once, or an HTTP request that opens a WebSocket and   *)
(* then the packet in a frame.                                             *)
(*                                                                         *)
(* The unit of data is a cell <<kind, value>>: version and command of a    *)
(* packet are one cell, as are its length, a byte of its payload, a line   *)
(* of the HTTP request, either byte of a frame header, an extended length  *)
(* and a masking key.  A cell that is read as one of another kind may have *)
(* any value.                                                              *)
(***************************************************************************)
EXTENDS Integers, Sequences, FiniteSets

CONSTANTS
  Requests,   \* bound: what the client may send, see RequestAssumption
  MaxCuts,    \* bound: records that the client of a request may end early
  MaxRecord,  \* the cells that fit into a TLS record
  Answers,    \* bound: what the receiver of a packet may send back
  Commands,   \* the values of version and command
  ZeroCommand, \* both zero
  Lengths,    \* bound: the lengths that uninitialised memory may hold
  MAX_PACKET_PAYLOAD_SIZE,
  MaxHeaders, \* 15
  LEN16,      \* 126, the 7-bit length that announces a uint16_t
  LEN64,      \* 127, the 7-bit length that announces a uint64_t
  MAX16,      \* 65535
  Width,      \* number of values of a uint64_t
  HostOrder16, \* what the host makes of the bytes of a uint16_t in network order
  HostOrder64, \* what it makes of those of a uint64_t
  MaxHeap,    \* bound: the largest array that new can allocate, so small that
              \* SSL_read gets its length as an int
  NULL

HeaderSize == 2 \* sizeof(Packet), in cells

ASSUME LengthAssumption ==
  /\ {MAX_PACKET_PAYLOAD_SIZE, MaxHeaders, MaxHeap} \subseteq Nat
  /\ MaxCuts \in [Requests -> Nat]
  /\ {LEN16, LEN64, MAX16, Width, MaxRecord} \subseteq Nat \ {0}
  /\ HeaderSize < LEN16 /\ LEN16 < LEN64 /\ LEN64 <= MAX16
  /\ MAX16 + 1 < Width
  /\ Lengths \subseteq 0 .. (Width - 1)

\* On a big-endian host both are the identity, on a little-endian one they reverse
\* the bytes, and the client's host reads its own numbers.
ASSUME ByteOrderAssumption ==
  /\ HostOrder16 \in [0 .. MAX16 -> 0 .. MAX16]
  /\ \A n \in 0 .. MAX16 : HostOrder16[HostOrder16[n]] = n
  /\ HostOrder64 \in [0 .. (Width - 1) -> 0 .. (Width - 1)]
  /\ \A n \in 0 .. (Width - 1) : HostOrder64[HostOrder64[n]] = n
  /\ HostOrder64[Width - 1] = Width - 1

\* lines: the HTTP header lines, or <<>> for a client without WebSocket; more
\* than MaxHeaders lines, the request line included, are not modelled.
ASSUME RequestAssumption ==
  ZeroCommand \in Commands /\ \A r \in Requests :
    /\ r.cmd \in Commands
    /\ r.len \in 0 .. (Width - 1)
    /\ r.masked \in BOOLEAN /\ r.binary \in BOOLEAN
    /\ r.lines \in Seq({r.lines[i] : i \in DOMAIN r.lines})
    /\ Len(r.lines) < MaxHeaders
    /\ r.data \in Seq({r.data[i] : i \in DOMAIN r.data})
    /\ HeaderSize + Len(r.data) + 1 < Width
    /\ \A i \in DOMAIN r.data : r.data[i][1] \in {"data", "byte"}

\* sendPacket gets as many bytes as it is told, or a null pointer.
ASSUME AnswerAssumption ==
  \A a \in Answers :
    /\ DOMAIN a = {"cmd", "len", "data"}
    /\ a.len \in Nat /\ HeaderSize + a.len < Width
    /\ a.data # NULL =>
         a.data \in Seq({a.data[i] : i \in DOMAIN a.data}) /\ Len(a.data) = a.len

ASSUME NullAssumption ==
  NULL \notin {"version 13", "protocol shepoo"} /\ NULL \notin Answers

VARIABLES
  request,   \* what the client of this connection sends
  wire,      \* the cells that the client has not sent yet
  cuts,      \* the numbers of cells after which it has ended a record
  inbox,     \* the records that have arrived and are not read
  peerOpen,  \* the client has not closed the connection
  pc,        \* where the child stands
  webSocket, \* _webSocket, which the constructor leaves as it finds it
  lines,     \* headerLines
  headers,   \* the local variable of the same name
  frame,     \* header, payloadLength and maskingKey of handleWebSocketFrame
  packet,    \* the packet that was read
  payload,   \* the cells that go with it
  answer,    \* the arguments of sendPacket
  out        \* the cells written to the client

clientVars == <<request, wire, cuts, peerOpen>>
httpVars   == <<lines, headers>>
packetVars == <<packet, payload>>
vars == <<clientVars, inbox, pc, webSocket, httpVars, frame, packetVars, answer, out>>

Garbage == <<"garbage", 0>>

\* The values that a cell may have for code that takes it for one of a kind.
ReadAs(kind, cell, values) == IF cell[1] = kind THEN {cell[2]} ELSE values

uint64(x) == x % Width
uint16(x) == x % (MAX16 + 1)

\* The number n of a frame whose 7-bit length is len7, moved as it is between
\* memory and stream: each of both sides takes the other's bytes in its own order.
InHostOrder(len7, n) ==
  CASE len7 = LEN16 -> HostOrder16[uint16(n)]
    [] len7 = LEN64 -> HostOrder64[n]
    [] OTHER        -> n

Ended == {"done", "refused", "crashed"}

-----------------------------------------------------------------------------
(***************************************************************************)
(* The client.                                                             *)
(***************************************************************************)

PacketCells(p) == <<<<"cmd", p.cmd>>, <<"len", p.len>>>> \o p.data

IsHttp(r) == r.lines # <<>>

\* The first bytes of the request line, the rest of it, the header lines, each
\* with its '\r', and the empty line as "\n\r" and '\n'.
HttpCells(r) ==
  <<<<"get", 0>>, <<"text", 0>>, <<"line", "request">>>>
    \o [i \in 1 .. Len(r.lines) |-> <<"line", r.lines[i]>>]
    \o <<<<"end", 0>>, <<"lf", 0>>>>

Len7(n) == IF n < LEN16 THEN n ELSE IF n <= MAX16 THEN LEN16 ELSE LEN64

\* What the server makes of the length of a frame of n cells.
HostLength(n) == InHostOrder(Len7(n), n)

\* The second byte of a frame and, where it calls for one, the extended length,
\* in network order.
LengthCells(n, isMasked) ==
  <<<<"len7", [len |-> Len7(n), masked |-> isMasked]>>>>
    \o (IF n < LEN16 THEN <<>> ELSE <<<<"ext", n>>>>)

\* A frame of RFC 6455.
FrameHead(r) ==
  <<<<"op", r.binary>>>> \o LengthCells(Len(PacketCells(r)), r.masked)
    \o (IF r.masked THEN <<<<"mask", 0>>>> ELSE <<>>)

FrameBody(r) ==
  IF r.masked
    THEN [i \in 1 .. Len(PacketCells(r)) |-> <<"masked", PacketCells(r)[i]>>]
    ELSE PacketCells(r)

Cells(r) ==
  IF IsHttp(r) THEN HttpCells(r) \o FrameHead(r) \o FrameBody(r)
               ELSE PacketCells(r)

Init ==
  /\ request \in Requests
  /\ wire = Cells(request)
  /\ cuts = {}
  /\ inbox = <<>>
  /\ peerOpen = TRUE
  /\ pc = "handshake"
  /\ webSocket \in BOOLEAN
  /\ lines = <<>>
  /\ headers = 0
  /\ frame = [binary |-> FALSE, len |-> 0, masked |-> FALSE, keyRead |-> FALSE]
  /\ packet = [cmd |-> ZeroCommand, len |-> 0]
  /\ payload = <<>>
  /\ answer = NULL
  /\ out = <<>>

\* A record of n cells.
ClientSends(n) ==
  /\ peerOpen
  /\ n \in 1 .. Len(wire)
  /\ n <= MaxRecord
  /\ n < Len(wire) => Cardinality(cuts) < MaxCuts[request]
  /\ inbox' = Append(inbox, SubSeq(wire, 1, n))
  /\ wire' = SubSeq(wire, n + 1, Len(wire))
  /\ cuts' = cuts \cup {Len(Cells(request)) - Len(wire) + n}
  /\ UNCHANGED <<request, peerOpen, pc, webSocket, httpVars, frame, packetVars,
                 answer, out>>

ClientCloses ==
  /\ peerOpen
  /\ peerOpen' = FALSE
  /\ UNCHANGED <<request, wire, cuts, inbox, pc, webSocket, httpVars, frame,
                 packetVars, answer, out>>

-----------------------------------------------------------------------------
(***************************************************************************)
(* SSL_read and SSL_write.                                                 *)
(***************************************************************************)

AtMost(n, m) == IF n < m THEN n ELSE m

\* What SSL_read of n bytes returns.
Got(n) ==
  IF inbox = <<>> THEN <<>> ELSE SubSeq(inbox[1], 1, AtMost(n, Len(inbox[1])))

\* SSL_read of n bytes; for n = 0, too, it waits for a record.
Read(n) ==
  /\ inbox # <<>> \/ ~peerOpen
  /\ inbox' =
       IF inbox = <<>> THEN <<>>
       ELSE IF Len(inbox[1]) <= n THEN Tail(inbox)
       ELSE <<SubSeq(inbox[1], n + 1, Len(inbox[1]))>> \o Tail(inbox)

\* An uninitialised buffer of n cells after SSL_read has filled its front.
Buffer(n) == [i \in 1 .. n |-> IF i <= Len(Got(n)) THEN Got(n)[i] ELSE Garbage]

\* SSL_write to a client that is gone ends the child by SIGPIPE, or not yet.
Write(cells, next) ==
  \/ /\ out' = out \o cells
     /\ pc' = next
  \/ /\ ~peerOpen
     /\ pc' = "crashed"
     /\ UNCHANGED out

-----------------------------------------------------------------------------
(***************************************************************************)
(* The constructor.                                                        *)
(***************************************************************************)

\* SSL_accept fails for a client that is gone, and for one that has no TLS.
Handshake ==
  /\ pc = "handshake"
  /\ \/ peerOpen /\ pc' = "header"
     \/ pc' = "refused"
  /\ UNCHANGED <<clientVars, inbox, webSocket, httpVars, frame, packetVars,
                 answer, out>>

\* The packet is zeroed before SSL_read.
ReadHeader ==
  /\ pc = "header"
  /\ Read(HeaderSize)
  /\ LET got == Got(HeaderSize) IN
       IF got # <<>> /\ got[1][1] = "get"
         THEN pc' = "lines" /\ UNCHANGED packet
         ELSE /\ packet' = [cmd |-> IF got = <<>> THEN ZeroCommand ELSE got[1][2],
                            len |-> IF Len(got) < 2 THEN 0 ELSE got[2][2]]
              /\ pc' = IF packet'.len > MAX_PACKET_PAYLOAD_SIZE
                         THEN "refused" ELSE "payload"
  /\ UNCHANGED <<clientVars, webSocket, httpVars, frame, payload, answer, out>>

ReadPayloadAll ==
  /\ pc = "payload"
  /\ Read(packet.len)
  /\ Len(Got(packet.len)) = packet.len
  /\ payload' = Buffer(packet.len)
  /\ pc' = "handler"
  /\ UNCHANGED <<clientVars, webSocket, httpVars, frame, packet, answer, out>>

ReadPayload ==
  /\ pc = "payload"
  /\ Read(packet.len)
  /\ payload' = Buffer(packet.len)
  /\ pc' = "handler"
  /\ UNCHANGED <<clientVars, webSocket, httpVars, frame, packet, answer, out>>

-----------------------------------------------------------------------------
(***************************************************************************)
(* handleWebSocket.                                                        *)
(***************************************************************************)

ReadLineCountsAll ==
  /\ pc = "lines"
  /\ Read(1)
  /\ headers' = headers + 1
  /\ UNCHANGED <<clientVars, pc, webSocket, lines, frame, packetVars, answer, out>>

\* One character or one line in the loop that splits the request.  At the end
\* of the stream the loop appends a zero byte again and again.  The line after
\* the last one that fits is written behind the array.
ReadLine ==
  /\ pc = "lines"
  /\ Read(1)
  /\ LET cell == IF Got(1) = <<>> THEN Garbage ELSE Got(1)[1] IN
       \/ /\ cell[1] = "line"
          /\ lines' = Append(lines, cell[2])
          /\ headers' = headers + 1
          /\ pc' \in IF headers' = MaxHeaders THEN {"parse", "crashed"} ELSE {"lines"}
       \/ /\ cell[1] = "end"
          /\ headers' = headers - 1
          /\ pc' = "parse"
          /\ UNCHANGED lines
       \/ /\ cell[1] \notin {"line", "end"}
          /\ UNCHANGED <<pc, httpVars>>
  /\ UNCHANGED <<clientVars, webSocket, frame, packetVars, answer, out>>

ParsedLinesLate == 3 .. headers

\* The indices into lines that the loop "for(int i = 1; i < headers; i++)"
\* visits: lines[i + 1] is headerLines[i].
ParsedLines == 2 .. headers

\* The value of the header that the last of the given lines sets.
LastOf(values) ==
  LET found == {i \in ParsedLines : lines[i] \in values}
  IN  IF found = {} THEN NULL
      ELSE lines[CHOOSE i \in found : \A j \in found : j <= i]

HeadersAccepted ==
  /\ LastOf({"version 13", "version 8"}) = "version 13"
  /\ LastOf({"protocol shepoo", "protocol chat"}) = "protocol shepoo"

\* The answer is one cell: its wording is the same for every client.
ParseHeaders ==
  /\ pc = "parse"
  /\ IF HeadersAccepted THEN Write(<<<<"http", 101>>>>, "tail")
     ELSE pc' = "refused" /\ UNCHANGED out
  /\ UNCHANGED <<clientVars, inbox, webSocket, httpVars, frame, packetVars, answer>>

NoTail == 0

\* sizeof(tmp) in cells of the record that is read next.
TailSize == IF inbox # <<>> /\ inbox[1][1][1] = "end" THEN 2 ELSE 3

ReadTail ==
  /\ pc = "tail"
  /\ Read(TailSize)
  /\ webSocket' = TRUE
  /\ pc' = "frame"
  /\ UNCHANGED <<clientVars, httpVars, frame, packetVars, answer, out>>

-----------------------------------------------------------------------------
(***************************************************************************)
(* handleWebSocketFrame.                                                   *)
(***************************************************************************)

ReadFrameHeader ==
  /\ pc = "frame"
  /\ Read(2)
  /\ LET got == Got(2)
         zero == [len |-> 0, masked |-> FALSE]
         any == [len : 0 .. LEN64, masked : BOOLEAN]
     IN  \E binary \in IF got = <<>> THEN {FALSE} ELSE ReadAs("op", got[1], BOOLEAN),
            second \in IF Len(got) < 2 THEN {zero} ELSE ReadAs("len7", got[2], any) :
           /\ frame' = [binary |-> binary, len |-> second.len,
                        masked |-> second.masked, keyRead |-> FALSE]
           /\ pc' = CASE second.len \in {LEN16, LEN64} -> "length"
                      [] OTHER -> IF second.masked THEN "mask" ELSE "framePayload"
  /\ UNCHANGED <<clientVars, webSocket, httpVars, packetVars, answer, out>>

\* Neither variable for the length is initialised before SSL_read, and neither is
\* converted after it.
ReadFrameLength ==
  /\ pc = "length"
  /\ Read(1)
  /\ LET cell == IF Got(1) = <<>> THEN Garbage ELSE Got(1)[1] IN
       \E n \in IF cell[1] = "ext" THEN {InHostOrder(frame.len, cell[2])} ELSE Lengths :
         frame' = [frame EXCEPT !.len = IF frame.len = LEN16 THEN uint16(n) ELSE n]
  /\ pc' = IF frame.masked THEN "mask" ELSE "framePayload"
  /\ UNCHANGED <<clientVars, webSocket, httpVars, packetVars, answer, out>>

SkipMask ==
  /\ pc = "mask"
  /\ frame' = [frame EXCEPT !.keyRead = TRUE]
  /\ pc' = "framePayload"
  /\ UNCHANGED <<clientVars, inbox, webSocket, httpVars, packetVars, answer, out>>

ReadMask ==
  /\ pc = "mask"
  /\ Read(1)
  /\ frame' = [frame EXCEPT !.keyRead = Got(1) # <<>> /\ Got(1)[1][1] = "mask"]
  /\ pc' = "framePayload"
  /\ UNCHANGED <<clientVars, webSocket, httpVars, packetVars, answer, out>>

UnmaskNever(cell) == cell

\* XOR with the masking key; what is not masked by that key becomes garbage.
Unmask(cell) ==
  IF ~frame.masked THEN cell
  ELSE IF frame.keyRead /\ cell[1] = "masked" THEN cell[2] ELSE Garbage

\* new[] of payloadLength + 1 bytes.
Allocated == uint64(frame.len + 1) <= MaxHeap

NeverTruncated(len) == FALSE

\* The frame has no room for the payload that its packet announces.
Truncated(len) == frame.len < uint64(HeaderSize + len)

\* The size of the array wraps around to nothing.
NoArray == frame.len + 1 = Width

\* SSL_read into the new array, then the checks, then the packet is emitted
\* with everything that follows it in the frame.
ReadFramePayload ==
  /\ pc = "framePayload"
  /\ Allocated /\ ~NoArray
  /\ Read(frame.len)
  /\ LET cells == [i \in 1 .. frame.len |-> Unmask(Buffer(frame.len)[i])] IN
       \/ /\ ~frame.binary \/ frame.len < HeaderSize
          /\ pc' = "refused"
          /\ UNCHANGED packetVars
       \/ /\ frame.binary /\ frame.len >= HeaderSize
          /\ \E cmd \in ReadAs("cmd", cells[1], Commands),
                len \in ReadAs("len", cells[2], Lengths) :
               \/ /\ Truncated(len)
                  /\ pc' = "refused"
                  /\ UNCHANGED packetVars
               \/ /\ ~Truncated(len)
                  /\ packet' = [cmd |-> cmd, len |-> len]
                  /\ payload' = SubSeq(cells, HeaderSize + 1, frame.len)
                  /\ pc' = "handler"
  /\ UNCHANGED <<clientVars, webSocket, httpVars, frame, answer, out>>

\* The zero byte is written before an array of no bytes, SSL_read of -1 bytes fails
\* at once, and the loop that unmasks never gets to its end.  What lies on the heap
\* is taken for the packet, which no length is too long for.
ReadFrameNoArray ==
  /\ pc = "framePayload"
  /\ NoArray
  /\ \/ pc' = "crashed" /\ UNCHANGED packetVars
     \/ /\ ~frame.masked /\ ~frame.binary
        /\ pc' = "refused"
        /\ UNCHANGED packetVars
     \/ /\ ~frame.masked /\ frame.binary
        /\ packet' \in [cmd : Commands, len : Lengths]
        /\ payload' = <<>>
        /\ pc' = "handler"
  /\ UNCHANGED <<clientVars, inbox, webSocket, httpVars, frame, answer, out>>

\* std::bad_alloc is caught by nobody.
FrameNotAllocated ==
  /\ pc = "framePayload"
  /\ ~Allocated
  /\ pc' = "crashed"
  /\ UNCHANGED <<clientVars, inbox, webSocket, httpVars, frame, packetVars,
                 answer, out>>

-----------------------------------------------------------------------------
(***************************************************************************)
(* The receiver of the packet, of which this class knows that it may call  *)
(* sendPacket, return or exit.  Module Protocol says what it does.         *)
(***************************************************************************)

HandlerAnswers(a) ==
  /\ pc = "handler"
  /\ answer' = a
  /\ pc' = IF webSocket THEN "sendFrame" ELSE "sendPacket"
  /\ UNCHANGED <<clientVars, inbox, webSocket, httpVars, frame, packetVars, out>>

\* emit() returns, then the constructor, then ListenLoop calls exit(-1).
HandlerReturns ==
  /\ pc = "handler"
  /\ pc' = "done"
  /\ UNCHANGED <<clientVars, inbox, webSocket, httpVars, frame, packetVars,
                 answer, out>>

HandlerExits ==
  /\ pc = "handler"
  /\ pc' = "refused"
  /\ UNCHANGED <<clientVars, inbox, webSocket, httpVars, frame, packetVars,
                 answer, out>>

-----------------------------------------------------------------------------
(***************************************************************************)
(* sendPacket.                                                             *)
(***************************************************************************)

FrameLengthBare(a) == a.len

FrameLength(a) == uint64(HeaderSize + a.len)

AnswerLen7(a) ==
  IF FrameLength(a) < LEN16 THEN FrameLength(a)
  ELSE IF FrameLength(a) < MAX16 THEN LEN16 ELSE LEN64

SendFrame ==
  /\ pc = "sendFrame"
  /\ Write(<<<<"op", TRUE>>, <<"len7", [len |-> AnswerLen7(answer), masked |-> FALSE]>>>>,
           IF AnswerLen7(answer) \in {LEN16, LEN64} THEN "sendLength" ELSE "sendPacket")
  /\ UNCHANGED <<clientVars, inbox, webSocket, httpVars, frame, packetVars, answer>>

\* Written as it lies in memory.
SendLength ==
  /\ pc = "sendLength"
  /\ Write(<<<<"ext", InHostOrder(AnswerLen7(answer), FrameLength(answer))>>>>,
           "sendPacket")
  /\ UNCHANGED <<clientVars, inbox, webSocket, httpVars, frame, packetVars, answer>>

SendPacket ==
  /\ pc = "sendPacket"
  /\ Write(<<<<"cmd", answer.cmd>>, <<"len", answer.len>>>>, "sendPayload")
  /\ UNCHANGED <<clientVars, inbox, webSocket, httpVars, frame, packetVars, answer>>

\* SSL_write of no bytes writes nothing; of more than that from the null
\* pointer it crashes.
SendPayload ==
  /\ pc = "sendPayload"
  /\ CASE answer.len = 0 -> pc' = "done" /\ UNCHANGED out
       [] answer.len > 0 /\ answer.data = NULL -> pc' = "crashed" /\ UNCHANGED out
       [] OTHER -> Write(answer.data, "done")
  /\ UNCHANGED <<clientVars, inbox, webSocket, httpVars, frame, packetVars, answer>>

-----------------------------------------------------------------------------

Client == ClientCloses \/ \E n \in 1 .. MaxRecord : ClientSends(n)

Connection ==
  \/ Handshake \/ ReadHeader \/ ReadPayload
  \/ ReadLine \/ ParseHeaders \/ ReadTail
  \/ ReadFrameHeader \/ ReadFrameLength \/ ReadMask
  \/ ReadFramePayload \/ ReadFrameNoArray \/ FrameNotAllocated
  \/ SendFrame \/ SendLength \/ SendPacket \/ SendPayload

Handler ==
  \/ \E a \in Answers : HandlerAnswers(a)
  \/ HandlerReturns
  \/ HandlerExits

Next == Client \/ Connection \/ Handler

Spec == Init /\ [][Next]_vars

\* The child is scheduled; the client need not send anything nor ever close.
FairSpec == Spec /\ WF_vars(Connection \/ Handler)

-----------------------------------------------------------------------------
(***************************************************************************)
(* Properties.                                                             *)
(***************************************************************************)

TypeOK ==
  /\ request \in Requests
  /\ peerOpen \in BOOLEAN
  /\ pc \in {"handshake", "header", "payload", "lines", "parse", "tail", "frame",
             "length", "mask", "framePayload", "handler", "sendFrame",
             "sendLength", "sendPacket", "sendPayload"} \cup Ended
  /\ webSocket \in BOOLEAN
  /\ headers \in 0 .. MaxHeaders /\ headers <= Len(lines)
  /\ frame \in [binary : BOOLEAN, len : 0 .. (Width - 1), masked : BOOLEAN,
                keyRead : BOOLEAN]
  /\ packet \in [cmd : Commands, len : 0 .. (Width - 1)]
  /\ answer \in Answers \cup {NULL}
  /\ \A k \in 1 .. Len(inbox) : inbox[k] # <<>>

\* The client speaks the protocol: it announces the payload that it sends.
Honest(r) == r.len = Len(r.data) /\ r.binary

\* No record ends between the cells first and last of what the client sends.
Whole(first, last) == \A c \in cuts : c < first \/ c >= last

HttpEnd   == Len(HttpCells(request))
BodyStart == HttpEnd + Len(FrameHead(request)) + 1

\* Whatever the child reads at once, the client has sent in one record, and the
\* frame in other records than the HTTP request.
ReadsMatchRecords ==
  IF IsHttp(request)
    THEN /\ HttpEnd \in cuts
         /\ Whole(HttpEnd + 1, HttpEnd + 2)
         /\ Whole(BodyStart, Len(Cells(request)))
    ELSE Whole(1, 2) /\ Whole(3, Len(Cells(request)))

\* The same of a request that is under way, by a client that waits for the end
\* of it: once broken, it stays broken.
Total(r) == Len(Cells(r))
Sent == Total(request) - Len(wire)

Fits ==
  /\ peerOpen \/ wire = <<>>
  /\ IF IsHttp(request)
       THEN /\ HttpEnd < Sent => HttpEnd \in cuts
            /\ Whole(HttpEnd + 1, HttpEnd + 2)
            /\ Whole(BodyStart, Total(request))
       ELSE Whole(1, 2) /\ Whole(3, Total(request))

\* What is emitted is the client's packet, and its payload begins with the client's
\* payload, on either transport and in whatever order the host reads the length of
\* a frame, when the records fit the reads and the client did not close early
\* (secnet.cpp:46,62,239,250-302).
FaithfulDelivery ==
  pc = "handler" /\ Honest(request) /\ wire = <<>> /\ ReadsMatchRecords =>
    /\ packet = [cmd |-> request.cmd, len |-> request.len]
    /\ packet.len <= Len(payload)
    /\ SubSeq(payload, 1, packet.len) = request.data

\* The receiver may read as many bytes of payload as the packet announces, but for
\* two lengths: header and payload together are too long for a uint64_t, or the
\* array for the frame is (secnet.cpp:61,274,294-302).
PayloadInBounds ==
  pc = "handler" =>
    \/ packet.len <= Len(payload)
    \/ HeaderSize + packet.len >= Width
    \/ NoArray

\* A request asks for version 13 and for shepoo before its last line, and nowhere
\* for anything else.
Wanted == {"version 13", "protocol shepoo"}
LinesOf(ls) == {ls[i] : i \in 1 .. Len(ls)}
Unmistakable(ls) ==
  /\ Wanted \subseteq {ls[i] : i \in 1 .. (Len(ls) - 1)}
  /\ {"version 8", "protocol chat"} \cap LinesOf(ls) = {}

\* A request is accepted only if it asks for version 13 and for shepoo, an
\* unmistakable one is not refused, and none that leaves a place of the array
\* free crashes the child (secnet.cpp:126-214).
HeadersJudged ==
  [][/\ pc = "parse" /\ pc' = "tail" => Wanted \subseteq LinesOf(request.lines)
     /\ pc = "parse" /\ pc' = "refused" => ~Unmistakable(request.lines)
     /\ pc = "lines" /\ pc' = "crashed" => Len(request.lines) >= MaxHeaders - 1]_vars

\* The packet in a frame that a client takes to be that long, or NULL.
Unframed(cells, length) ==
  LET body == SubSeq(cells, IF cells[2][2].len < LEN16 THEN 3 ELSE 4, Len(cells))
  IN  IF Len(body) = length THEN body ELSE NULL

\* The length of a frame for RFC 6455, that is in network order.
LengthIn(cells) == IF cells[2][2].len < LEN16 THEN cells[2][2].len ELSE cells[3][2]

Sent101 == out[1] = <<"http", 101>>
Reply   == IF Sent101 THEN Tail(out) ELSE out
InFrame == Reply[1][1] = "op"

\* The packet that a client of RFC 6455 finds in all that it has received, or NULL.
Received == IF InFrame THEN Unframed(Reply, LengthIn(Reply)) ELSE Reply

Message(a) == PacketCells([a EXCEPT !.data = IF @ = NULL THEN <<>> ELSE @])

\* The frame of an answer is as long in network order as in the host's.
Readable(a) == InHostOrder(AnswerLen7(a), FrameLength(a)) = FrameLength(a)

\* From an answer that was sent completely a client gets that answer or nothing, and
\* never nothing when it comes without a frame or in one whose length needs no
\* uint16_t or uint64_t or reads the same in both orders.  Whoever reads the length
\* in the order of the host, gets every answer (secnet.cpp:80-115).
AnswerDecodable ==
  pc = "done" /\ answer # NULL =>
    /\ Received \in {Message(answer), NULL}
    /\ ~InFrame \/ Readable(answer) => Received = Message(answer)
    /\ InFrame => Unframed(Reply, InHostOrder(Reply[2][2].len, LengthIn(Reply)))
                     = Message(answer)

\* Once a client has sent everything, in records that fit the reads, its packet
\* is emitted while it waits for the answer, unless the host reads another length
\* of the frame (secnet.cpp:256-264).  A packet without payload is not: SSL_read
\* of no bytes waits for another record (secnet.cpp:62).  Nor is one after as many
\* headers as the array holds: it may have crashed the child.
Servable(r) ==
  /\ Honest(r)
  /\ r.len <= MAX_PACKET_PAYLOAD_SIZE
  /\ IF IsHttp(r) THEN Unmistakable(r.lines) /\ Len(r.lines) < MaxHeaders - 1
                  ELSE r.len > 0

\* The length of the frame reads the same in the host's order as in network order.
Legible(r) ==
  LET n == Len(PacketCells(r)) IN IsHttp(r) => HostLength(n) = n

HonestServed ==
  pc = "header" /\ wire = <<>> /\ ReadsMatchRecords
  /\ Servable(request) /\ Legible(request)
    ~> pc = "handler" \/ ~peerOpen

\* When a child has answered a client that sent its packet and no more, nothing
\* of what it sent is left unread, however the records were cut within the reads:
\* exit() closes the socket without SSL_shutdown, and with unread input it would
\* reset the connection and lose an answer under way (secnet.cpp:442-443,67-74).
AnswerNotReset ==
  pc = "done" /\ answer # NULL /\ Servable(request) /\ wire = <<>> /\ ReadsMatchRecords
    => inbox = <<>>

\* After its client has closed, a child that is past the lines of the HTTP
\* request ends: no read and no write waits for a client that is gone
\* (secnet.cpp:46,62,239,250-276).
EndsAfterClose ==
  ~peerOpen /\ pc \notin {"header", "lines"} ~> pc \in Ended

-----------------------------------------------------------------------------
(***************************************************************************)
(* What comments and messages of the code say, and the code does not do.   *)
(***************************************************************************)

\* "we only handle a maximum of MAX_PACKET_PAYLOAD_SIZE" (secnet.cpp:57): a
\* payload of at most this size is delivered.
LimitHandled ==
  pc = "handler" /\ ~IsHttp(request) /\ Honest(request) /\ wire = <<>> /\ Whole(1, 2) =>
    payload = request.data

\* "It's HTTP, probably Websocket as we use this one" (secnet.cpp:50): a client
\* without HTTP is answered without frames.
PlainAnswerUnframed ==
  pc = "done" /\ answer # NULL /\ peerOpen /\ ~IsHttp(request) => out[1][1] = "cmd"

\* "if the fork can't handle the client, there is no reason to allow it staying
\* alive" (secnet.cpp:31): the child of a client that is gone ends.
NoChildWithoutClient == ~peerOpen ~> pc \in Ended

=============================================================================

------------------------------ MODULE MCSecNet ------------------------------
(***************************************************************************)
(* Instances of SecNet for TLC, on a little-endian host.  A byte of a      *)
(* number has three values, a uint16_t two bytes and a uint64_t three.  A  *)
(* frame of up to 4 cells has a 7-bit length, one of 5 to 8 cells a 16-bit *)
(* length, a longer one a 64-bit length.  The lengths 8 and 10 read the    *)
(* same in both orders, 5 and 7 as each other.                             *)
(***************************************************************************)
EXTENDS SecNet

Payload(n) == [i \in 1 .. n |-> <<"data", i>>]

Packet(cmd, len, n) ==
  [lines |-> <<>>, cmd |-> cmd, len |-> len, data |-> Payload(n),
   masked |-> FALSE, binary |-> TRUE]

PlainRequests ==
  {Packet(1, n, n) : n \in {0, 1, 3}}
    \cup {Packet(1, 4, 2), Packet(1, 1, 2), Packet(1, 9, 1)}

V13 == "version 13"
V8  == "version 8"
PS  == "protocol shepoo"
PC  == "protocol chat"

\* MaxHeaders is 5: four header lines and the request line fill the array.
HttpLines ==
  {<<V13, PS, "key">>, <<"key", V13, PS>>, <<PS, V8, V13, "key">>,
   <<V13, "key", "other", PS>>, <<V13, PS, PC, "key">>}

GoodHttp == <<V13, PS, "key">>

Framed(r, ls, masked) == [r EXCEPT !.lines = ls, !.masked = masked]

WebSocketRequests ==
  {Framed(Packet(1, 1, 1), ls, TRUE) : ls \in HttpLines}
    \cup {Framed(Packet(1, n, n), GoodHttp, n < 6) : n \in {0, 3, 5, 6, 7, 8}}
    \cup {Framed(Packet(1, len, 1), GoodHttp, TRUE) : len \in {2, 25}}
    \cup {[Framed(Packet(1, 1, 1), GoodHttp, FALSE) EXCEPT !.binary = FALSE]}

MCRequests == PlainRequests \cup WebSocketRequests

\* A long frame is only set off from the HTTP request.
MCCuts == [r \in MCRequests |-> IF IsHttp(r) /\ Len(r.data) # 1 THEN 1 ELSE 2]

OneCut    == [r \in MCRequests |-> 1]
ThreeCuts == [r \in MCRequests |-> 3]

\* Answers whose frames have lengths of 7, 16 and 64 bits, the first of the
\* latter at the boundary, the last one legible.  Those without payload and those
\* of a missing block are in MCProtocol.
MCAnswers == {[cmd |-> 7, len |-> n, data |-> Payload(n)] : n \in {1, 5, 6, 8}}

\* For the runs about what comments say.
FewAnswers == {[cmd |-> 7, len |-> 1, data |-> Payload(1)]}

MCLengths == {0, 1, 9, 25, 26}

\* The bytes of a number in reverse order.
Byte(n, i) == (n \div 3 ^ i) % 3
Reversed16 == [n \in 0 .. 8 |-> 3 * Byte(n, 0) + Byte(n, 1)]
Reversed64 == [n \in 0 .. 26 |-> 9 * Byte(n, 0) + 3 * Byte(n, 1) + Byte(n, 2)]

=============================================================================

----------------------------- MODULE MCProtocol -----------------------------
(***************************************************************************)
(* Instances of Protocol for TLC: block numbers of two bytes 0 .. 4, blocks *)
(* of 3 cells, a file of 7 cells, which ends within a block, and arithmetic *)
(* modulo 27, so that block 9 wraps around to block 0.  Lengths of frames   *)
(* are those of MCSecNet: the answer to READ_BLOCK takes a frame of 5 cells *)
(* and WRITE_BLOCK one of 7, and the host takes each for the other.         *)
(***************************************************************************)
EXTENDS Protocol

Number(n) == <<<<"byte", n \div Base>>, <<"byte", n % Base>>>>

Request(cmd, data) ==
  [lines |-> <<>>, cmd |-> cmd, len |-> Len(data), data |-> data,
   masked |-> FALSE, binary |-> TRUE]

NewBlock == <<<<"byte", 1>>, <<"byte", 2>>, <<"byte", 0>>>>

PlainRequests ==
  {Request("READ_BLOCK", Number(n)) : n \in {0, 1, 2, 5, 7, 9}}
    \cup {Request("IS_BLOCK_AVAILABLE", Number(n)) : n \in {0, 1, 2, 5, 9}}
    \cup {Request("WRITE_BLOCK", Number(n) \o NewBlock) : n \in {1, 7}}
    \cup {Request(cmd, Number(1)) :
            cmd \in {"LOCK_BLOCKS", "GET_MAPPING", "OK", "BAD_VERSION"}}
    \cup {Request("READ_BLOCK", Number(1) \o NewBlock),
          Request("WRITE_BLOCK", Number(1)),
          Request("IS_BLOCK_AVAILABLE", <<<<"byte", 0>>>>)}

GoodHttp == <<"version 13", "protocol shepoo", "key">>
FullHttp == <<"version 13", "key", "key", "protocol shepoo">>

WebSocketRequests ==
  {[r EXCEPT !.lines = GoodHttp, !.masked = TRUE] :
     r \in {Request("READ_BLOCK", Number(1)), Request("READ_BLOCK", Number(7)),
            Request("IS_BLOCK_AVAILABLE", Number(2)),
            Request("WRITE_BLOCK", Number(1) \o NewBlock),
            Request("IS_BLOCK_AVAILABLE", Number(1) \o <<<<"byte", 0>>>>)}}
    \cup {[Request("READ_BLOCK", Number(0)) EXCEPT !.lines = FullHttp]}

MCRequests == PlainRequests \cup WebSocketRequests

\* The two longest are only set off from the HTTP request.
MCCuts == [r \in MCRequests |-> IF IsHttp(r) /\ Len(r.data) > NumSize THEN 1 ELSE 2]

MCCommands ==
  {"READ_BLOCK", "WRITE_BLOCK", "LOCK_BLOCKS", "GET_MAPPING",
   "IS_BLOCK_AVAILABLE", "BLOCK_ANSWER", "OK", "NOK", "BAD_VERSION"}

\* The answers that packetReceived may send.
MCAnswers ==
  {Empty(cmd) : cmd \in {"OK", "NOK"}}
    \cup {[cmd |-> "BLOCK_ANSWER", len |-> BLOCK_SIZE, data |-> d] :
            d \in {NULL} \cup {[i \in 1 .. BLOCK_SIZE |-> <<"stored", k + i>>] :
                               k \in {0, BLOCK_SIZE}}}

MCLengths == {0, 2, 5, 9}

Byte(n, i) == (n \div 3 ^ i) % 3
Reversed16 == [n \in 0 .. 8 |-> 3 * Byte(n, 0) + Byte(n, 1)]
Reversed64 == [n \in 0 .. 26 |-> 9 * Byte(n, 0) + 3 * Byte(n, 1) + Byte(n, 2)]

=============================================================================

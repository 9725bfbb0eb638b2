------------------------------ MODULE MCShepoo ------------------------------
(***************************************************************************)
(* Instances of Shepoo for TLC: blocks of one byte and a file of one or    *)
(* two of them, which other programs shrink, grow, delete and put back.    *)
(***************************************************************************)
EXTENDS Shepoo

CONSTANTS c1, c2 \* the connections

Request(cmd, n, http) == [cmd |-> cmd, num |-> n, http |-> http]

\* Block 1 may be in the file, and may be lost or added while the server runs.
MCRequests ==
  {Request("READ_BLOCK", 1, FALSE), Request("IS_BLOCK_AVAILABLE", 1, TRUE)}

=============================================================================

------------------------------- MODULE Shepoo -------------------------------
(***************************************************************************)
(* A Shepoo server as a whole: the processes and sockets of module         *)
(* Listener, one child per connection that reads a request and answers it, *)
(* and the block file of module BlockStorage, which other programs change. *)
(* The server may die and be started again; then the file is measured      *)
(* anew, and every fork hands the measured length down to a child.         *)
(*                                                                         *)
(* What the child does with bytes and records is the matter of modules     *)
(* SecNet and Protocol; here a request arrives as a whole or not at all,   *)
(* and of the commands there are the two about blocks of the file.         *)
(***************************************************************************)
EXTENDS Listener

CONSTANTS
  Requests, \* bound: what clients ask, see RequestAssumption
  MaxLives, \* bound: how often the server is started
  Resets,   \* bound: the connections that clients may reset
  Earlier,  \* bound: the connections that are opened before the others
  Lengths,  \* bound: the lengths that other programs give the block file
  BlockNumbers, BLOCK_SIZE, Width, MaxLength, Inodes, NoFile, NULL, Unread,
  Garbage   \* as in BlockStorage

ASSUME LengthsAssumption == Lengths \subseteq 0 .. MaxLength /\ MaxLives \in Nat

ASSUME StorageAssumption ==
  /\ BLOCK_SIZE \in Nat \ {0}
  /\ Width \in Nat \ {0}
  /\ MaxLength \in Nat
  /\ BlockNumbers \subseteq Nat
  /\ NULL \notin [0 .. (BLOCK_SIZE - 1) -> (Inodes \X Nat) \cup {Garbage}]

ASSUME RequestAssumption ==
  /\ NULL \notin Requests
  /\ \A r \in Requests :
       /\ r.cmd \in {"READ_BLOCK", "IS_BLOCK_AVAILABLE"}
       /\ r.num \in BlockNumbers
       /\ r.http \in BOOLEAN

VARIABLES
  path, size,         \* the block file: the variables of BlockStorage
  pc, num, fd, block, failed, \* getBlock in every child: those of BlockStorage
  length, \* _fileLength of every process
  life,   \* history: the start of the server that a process descends from
  wants,  \* the request that a client has sent or will send, NULL for none
  stage,  \* where a child that serves stands
  told    \* the answer that a client has got

fileVars    == <<path, size>>
getBlockVars == <<pc, num, fd, block, failed>>
sessionVars == <<wants, stage, told>>
shepooVars  == <<vars, fileVars, getBlockVars, length, life, sessionVars>>

\* Blockstorage as process p has it.  The locks of others do not matter to it:
\* see GetBlockReturns in BlockStorage.
Storage(p) == INSTANCE BlockStorage WITH
  Readers <- Conns, fileLength <- length[p], regionLocks <- {}

ShepooInit ==
  /\ Init
  /\ path \in Inodes \cup {NoFile}
  /\ size \in [Inodes -> Lengths]
  /\ pc     = [c \in Conns |-> "idle"]
  /\ num    = [c \in Conns |-> 0]
  /\ fd     = [c \in Conns |-> NoFile]
  /\ block  = [c \in Conns |-> NULL]
  /\ failed = {}
  /\ length = [p \in Processes |-> 0]
  /\ life   = [p \in Processes |-> 0]
  /\ wants  = [c \in Conns |-> NULL]
  /\ stage  = [c \in Conns |-> "reading"]
  /\ told   = [c \in Conns |-> NULL]

-----------------------------------------------------------------------------
(***************************************************************************)
(* The server process.                                                     *)
(***************************************************************************)

\* The file is measured before the socket is bound; what happens to it in
\* between might as well happen afterwards, as nobody is served yet.
StartServer ==
  /\ life[Server] < MaxLives
  /\ Start
  /\ length' = [length EXCEPT ![Server] = Storage(Server)!StatSize]
  /\ life' = [life EXCEPT ![Server] = @ + 1]
  /\ UNCHANGED <<fileVars, getBlockVars, sessionVars>>

ForkMeasures ==
  /\ Fork
  /\ length' = [length EXCEPT ![newSocket] = Storage(Server)!StatSize]
  /\ life' = [life EXCEPT ![newSocket] = life[Server]]
  /\ UNCHANGED <<fileVars, getBlockVars, sessionVars>>

ForkChild ==
  /\ Fork
  /\ length' = [length EXCEPT ![newSocket] = length[Server]]
  /\ life' = [life EXCEPT ![newSocket] = life[Server]]
  /\ UNCHANGED <<fileVars, getBlockVars, sessionVars>>

Inherited == <<fileVars, getBlockVars, length, life, sessionVars>>

RunServer ==
  \/ ForkChild
  \/ (Accept \/ ForkFails \/ ParentCloses) /\ UNCHANGED Inherited

-----------------------------------------------------------------------------
(***************************************************************************)
(* A child.  Its stages: "reading" the header and the payload, in the      *)
(* "lines" of an HTTP request, in the "handler" of the packet, and "over". *)
(***************************************************************************)

Serves(c, s) == child[c] = "serving" /\ stage[c] = s

Goto(c, s) == stage' = [stage EXCEPT ![c] = s]

\* What is left alone by a step within a child.
ChildAlone == UNCHANGED <<vars, fileVars, length, life, wants>>

ReadRequest(c) ==
  /\ Serves(c, "reading")
  /\ wants[c] # NULL
  /\ Goto(c, IF wants[c].http THEN "lines" ELSE "handler")
  /\ UNCHANGED <<getBlockVars, told>>
  /\ ChildAlone

\* The handshake fails, or nothing or too little is read.
ReadFails(c) ==
  /\ Serves(c, "reading")
  /\ c \notin peerOpen
  /\ Goto(c, "over")
  /\ UNCHANGED <<getBlockVars, told>>
  /\ ChildAlone

\* A client that closes within the HTTP request leaves the child in the loop
\* over its lines for ever; one that has sent all of it need not.
ReadLines(c) ==
  /\ Serves(c, "lines")
  /\ Goto(c, "handler")
  /\ UNCHANGED <<getBlockVars, told>>
  /\ ChildAlone

Asks(c, cmd) == Serves(c, "handler") /\ wants[c].cmd = cmd

CallGetBlock(c) ==
  /\ Asks(c, "READ_BLOCK")
  /\ ChildAlone
  /\ \/ Storage(c)!CallAvailable(c, wants[c].num)
     \/ Storage(c)!CallUnavailable(c, wants[c].num)
  /\ UNCHANGED <<stage, told>>

RunGetBlock(c) ==
  /\ Serves(c, "handler")
  /\ ChildAlone
  /\ Storage(c)!GetBlockStep(c)
  /\ UNCHANGED <<stage, told>>

\* sendPacket; to a client that is gone it may end in SIGPIPE, and to one that
\* has reset the connection nothing is sent.
Tells(c, a) ==
  /\ \/ sock[c] # "reset" /\ told' = [told EXCEPT ![c] = a]
     \/ c \notin peerOpen /\ UNCHANGED told
  /\ Goto(c, "over")
  /\ UNCHANGED getBlockVars
  /\ ChildAlone

Reply(cmd) == [cmd |-> cmd, data |-> NULL]

AnswerReadIfAny(c) ==
  /\ Asks(c, "READ_BLOCK")
  /\ pc[c] = "returned"
  /\ block[c] # NULL
  /\ Tells(c, [cmd |-> "BLOCK_ANSWER", data |-> block[c]])

\* For a missing block the header is sent, then the null pointer is read and
\* the child crashes.
AnswerRead(c) ==
  /\ Asks(c, "READ_BLOCK")
  /\ pc[c] = "returned"
  /\ Tells(c, [cmd |-> "BLOCK_ANSWER", data |-> block[c]])

AnswerAvailable(c) ==
  /\ Asks(c, "IS_BLOCK_AVAILABLE")
  /\ Tells(c, Reply(IF Storage(c)!IsBlockAvailable(wants[c].num)
                      THEN "OK" ELSE "NOK"))

ChildEnds(c) ==
  /\ stage[c] = "over"
  /\ ChildExits(c)
  /\ UNCHANGED Inherited

StartChild(c) == ClosesListener(c) /\ UNCHANGED Inherited

RunChild(c) ==
  \/ ReadRequest(c)
  \/ ReadFails(c)
  \/ c \in peerOpen /\ ReadLines(c)
  \/ CallGetBlock(c) \/ RunGetBlock(c)
  \/ AnswerRead(c) \/ AnswerAvailable(c)
  \/ ChildEnds(c)

-----------------------------------------------------------------------------
(***************************************************************************)
(* Clients, kernel and the other programs on the machine.                  *)
(***************************************************************************)

ClientConnects(c) ==
  /\ c \in Earlier \/ \A d \in Earlier : sock[d] # "none"
  /\ Connect(c)
  /\ \E r \in Requests \cup {NULL} : wants' = [wants EXCEPT ![c] = r]
  /\ UNCHANGED <<fileVars, getBlockVars, length, life, stage, told>>

FileChanges ==
  /\ UNCHANGED <<vars, length, life, sessionVars>>
  /\ \/ Storage(Server)!DeleteFile
     \/ \E i \in Inodes, l \in Lengths :
          Storage(Server)!InstallFile(i, l) \/ Storage(Server)!ResizeFile(l)

Expires(c) == TimeWaitExpires(c) /\ UNCHANGED Inherited

ShepooNext ==
  \/ StartServer
  \/ RunServer
  \/ ServerDies /\ UNCHANGED Inherited
  \/ FileChanges
  \/ \E c \in Conns :
       \/ StartChild(c) \/ RunChild(c) \/ ReadLines(c)
       \/ ClientConnects(c)
       \/ PeerCloses(c) /\ UNCHANGED Inherited
       \/ c \in Resets /\ PeerResets(c) /\ UNCHANGED Inherited
       \/ Expires(c)

ShepooSpec == ShepooInit /\ [][ShepooNext]_shepooVars

ProcessStep ==
  RunServer \/ \E c \in Conns : StartChild(c) \/ RunChild(c) \/ Expires(c)

\* Some process of the server is scheduled, and TIME_WAIT has an end: as every
\* process comes to rest, this is no more than fairness for each of them.
\* Nobody has to start the server, a client need neither send anything nor
\* close, and the child of one that closes within its HTTP lines is not in it.
FairShepooSpec == ShepooSpec /\ WF_shepooVars(ProcessStep)

-----------------------------------------------------------------------------
(***************************************************************************)
(* Properties.                                                             *)
(***************************************************************************)

ShepooTypeOK ==
  /\ TypeOK
  /\ length \in [Processes -> 0 .. MaxLength]
  /\ life \in [Processes -> 0 .. MaxLives]
  /\ stage \in [Conns -> {"reading", "lines", "handler", "over"}]
  /\ \A c \in Conns :
       /\ wants[c] # NULL => wants[c] \in Requests
       /\ told[c] # NULL =>
            told[c].cmd \in {"BLOCK_ANSWER", "OK", "NOK"} /\ wants[c] # NULL

\* What one child says of a block binds all children of the same start of the
\* server: a block that was said to be available is sent by every one of them,
\* and one that was said not to be by none, although they ask in different
\* processes, later, and of a file that has been resized, replaced or deleted
\* since (blockstorage.cpp:16,25,50, secnet.cpp:437).
PromiseKept ==
  \A c, d \in Conns :
    (/\ told[c] # NULL /\ told[d] # NULL
     /\ wants[c].cmd = "IS_BLOCK_AVAILABLE" /\ wants[d].cmd = "READ_BLOCK"
     /\ wants[c].num = wants[d].num
     /\ life[c] = life[d])
      => (told[c].cmd = "OK" <=> told[d].data # NULL)

\* A client that sends a request and stays is answered or sees its connection
\* closed, though other clients are silent, forks fail, the server dies and the
\* block file goes away (secnet.cpp:21-65,427-455, protocol.cpp:10-75).
AnsweredOrClosed ==
  \A c \in Conns :
    sock[c] = "queued" /\ wants[c] # NULL ~>
      told[c] # NULL \/ sock[c] \in {"closed", "timewait"} \/ c \notin peerOpen

Spins(c) == Serves(c, "lines") /\ c \notin peerOpen

\* Of a dead server nothing keeps the port when its clients have gone, but a
\* child that was left in the lines of an HTTP request: the server can be
\* started again (secnet.cpp:401, 147-168).
RestartPossible ==
  server = "down" /\ peerOpen = {} ~>
    CanBind \/ server # "down" \/ peerOpen # {} \/ \E c \in Conns : Spins(c)

=============================================================================

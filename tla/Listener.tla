------------------------------ MODULE Listener ------------------------------
(***************************************************************************)
(* The accept loop of a Shepoo server (SecNet::Initialize, ListenLoop and  *)
(* the first line of the constructor, server/src/secnet.cpp).              *)
(*                                                                         *)
(* The server process accepts a connection, forks a child for it and       *)
(* closes its own copy of the connection's descriptor; the child closes    *)
(* its copy of the listening socket and serves the client.  The sockets    *)
(* are kernel objects: one lives for as long as some process holds a       *)
(* descriptor of it.  What a child does with its client is the matter of   *)
(* module SecNet; here it serves for any time and exits.                   *)
(***************************************************************************)
EXTENDS Integers, Sequences, FiniteSets

CONSTANTS
  Conns,      \* bound: the connections that clients ever open
  MaxProcs,   \* children, zombies included, that the system has room for
  MaxBacklog, \* SOMAXCONN
  Server,     \* the server process; the child for connection c is named c
  Listen,     \* the listening socket
  NoConn      \* newSocket holds no descriptor

ASSUME NamesAssumption ==
  /\ Server \notin Conns
  /\ Listen \notin Conns
  /\ NoConn \notin Conns

ASSUME LimitAssumption == MaxProcs \in Nat /\ MaxBacklog \in Nat

VARIABLES
  server,    \* where the server process stands in ListenLoop, or "down"
  newSocket, \* the local variable of the same name
  child,     \* the state of every child process
  orphans,   \* the children whose parent has died
  fds,       \* the sockets of which a process holds a descriptor
  sock,      \* the state of the server's end of every connection
  peerOpen,  \* the connections that the client has not closed
  backlog    \* the queue of the listening socket

vars == <<server, newSocket, child, orphans, fds, sock, peerOpen, backlog>>

Processes == Conns \cup {Server}
Sockets   == Conns \cup {Listen}

Live == {c \in Conns : child[c] \in {"forked", "serving"}}

\* A zombie keeps its slot in the process table: nobody ever calls wait().
ProcessSlots == {c \in Conns : child[c] \in {"forked", "serving", "zombie"}}

Holders(f, s) == {p \in Processes : s \in f[p]}

-----------------------------------------------------------------------------
(***************************************************************************)
(* Closing descriptors.  The kernel closes a connection with its last      *)
(* descriptor, and resets the queued ones with the last descriptor of the  *)
(* listening socket.  Who closes first is left in TIME_WAIT.               *)
(***************************************************************************)

SockAfter(f, c) ==
  CASE sock[c] = "accepted" /\ Holders(f, c) = {} ->
         IF c \in peerOpen THEN "timewait" ELSE "closed"
    [] sock[c] = "reset" /\ Holders(f, c) = {} -> "closed"
    [] sock[c] = "queued" /\ Holders(f, Listen) = {} -> "closed"
    [] OTHER -> sock[c]

CloseTo(f) ==
  /\ fds' = f
  /\ sock' = [c \in Conns |-> SockAfter(f, c)]
  /\ backlog' = IF Holders(f, Listen) = {} THEN <<>> ELSE backlog

-----------------------------------------------------------------------------

Init ==
  /\ server = "down"
  /\ newSocket = NoConn
  /\ child = [c \in Conns |-> "none"]
  /\ orphans = {}
  /\ fds = [p \in Processes |-> {}]
  /\ sock = [c \in Conns |-> "none"]
  /\ peerOpen = {}
  /\ backlog = <<>>

(***************************************************************************)
(* The server process.                                                     *)
(***************************************************************************)

\* With SO_REUSEADDR only another listening socket is in the way.
CanBindReused == Holders(fds, Listen) = {}

\* bind() without SO_REUSEADDR is refused while any socket has the port.  One
\* that its client has reset gives the port back while a child still holds it.
CanBind ==
  /\ Holders(fds, Listen) = {}
  /\ \A c \in Conns : sock[c] \notin {"accepted", "timewait"}

\* Initialize up to its call of ListenLoop.  When bind() fails the program
\* exits and is as down as it was.
Start ==
  /\ server = "down"
  /\ CanBind
  /\ server' = "accept"
  /\ fds' = [fds EXCEPT ![Server] = {Listen}]
  /\ UNCHANGED <<newSocket, child, orphans, sock, peerOpen, backlog>>

AcceptUnchecked ==
  /\ server = "accept"
  /\ backlog = <<>>
  /\ newSocket' = -1
  /\ server' = "fork"
  /\ UNCHANGED <<child, orphans, fds, sock, peerOpen, backlog>>

\* A failing accept() is logged and tried again: a stuttering step.
Accept ==
  /\ server = "accept"
  /\ backlog # <<>>
  /\ LET c == Head(backlog) IN
       /\ newSocket' = c
       /\ sock' = [sock EXCEPT ![c] = "accepted"]
       /\ fds' = [fds EXCEPT ![Server] = @ \cup {c}]
  /\ backlog' = Tail(backlog)
  /\ server' = "fork"
  /\ UNCHANGED <<child, orphans, peerOpen>>

CanFork == Cardinality(ProcessSlots) < MaxProcs

Fork ==
  /\ server = "fork"
  /\ CanFork
  /\ server' = "parent"
  /\ child' = [child EXCEPT ![newSocket] = "forked"]
  /\ fds' = [fds EXCEPT ![newSocket] = fds[Server]]
  /\ UNCHANGED <<newSocket, orphans, sock, peerOpen, backlog>>

\* fork() returns -1, which takes the branch of the parent.
ForkFails ==
  /\ server = "fork"
  /\ ~CanFork
  /\ server' = "parent"
  /\ UNCHANGED <<newSocket, child, orphans, fds, sock, peerOpen, backlog>>

ParentKeepsSocket ==
  /\ server = "parent"
  /\ server' = "accept"
  /\ newSocket' = NoConn
  /\ UNCHANGED <<child, orphans, fds, sock, peerOpen, backlog>>

ParentCloses ==
  /\ server = "parent"
  /\ server' = "accept"
  /\ CloseTo([fds EXCEPT ![Server] = @ \ {newSocket}])
  /\ newSocket' = NoConn
  /\ UNCHANGED <<child, orphans, peerOpen>>

\* The server is killed: its children live on, and init reaps the zombies.
ServerDies ==
  /\ server # "down"
  /\ server' = "down"
  /\ newSocket' = NoConn
  /\ child' = [c \in Conns |-> IF child[c] = "zombie" THEN "reaped" ELSE child[c]]
  /\ orphans' = orphans \cup Live
  /\ CloseTo([fds EXCEPT ![Server] = {}])
  /\ UNCHANGED <<peerOpen>>

ServerStep == Accept \/ Fork \/ ForkFails \/ ParentCloses

(***************************************************************************)
(* A child process.                                                        *)
(***************************************************************************)

KeepsListener(c) ==
  /\ child[c] = "forked"
  /\ child' = [child EXCEPT ![c] = "serving"]
  /\ UNCHANGED <<server, newSocket, orphans, fds, sock, peerOpen, backlog>>

\* close(SecNet::_serverSocket).
ClosesListener(c) ==
  /\ child[c] = "forked"
  /\ child' = [child EXCEPT ![c] = "serving"]
  /\ CloseTo([fds EXCEPT ![c] = @ \ {Listen}])
  /\ UNCHANGED <<server, newSocket, orphans, peerOpen>>

\* The constructor of SecNet returns into exit(-1), exits or crashes.
ChildExits(c) ==
  /\ child[c] = "serving"
  /\ child' = [child EXCEPT ![c] = IF c \in orphans THEN "reaped" ELSE "zombie"]
  /\ orphans' = orphans \ {c}
  /\ CloseTo([fds EXCEPT ![c] = {}])
  /\ UNCHANGED <<server, newSocket, peerOpen>>

(***************************************************************************)
(* The clients and the kernel.                                             *)
(***************************************************************************)

Connect(c) ==
  /\ sock[c] = "none"
  /\ Holders(fds, Listen) # {}
  /\ Len(backlog) < MaxBacklog
  /\ sock' = [sock EXCEPT ![c] = "queued"]
  /\ peerOpen' = peerOpen \cup {c}
  /\ backlog' = Append(backlog, c)
  /\ UNCHANGED <<server, newSocket, child, orphans, fds>>

PeerCloses(c) ==
  /\ c \in peerOpen
  /\ peerOpen' = peerOpen \ {c}
  /\ UNCHANGED <<server, newSocket, child, orphans, fds, sock, backlog>>

\* A reset ends the connection, not the descriptors.  One that arrives earlier,
\* in the queue, shows when the connection is accepted.
PeerResets(c) ==
  /\ sock[c] = "accepted"
  /\ sock' = [sock EXCEPT ![c] = "reset"]
  /\ peerOpen' = peerOpen \ {c}
  /\ UNCHANGED <<server, newSocket, child, orphans, fds, backlog>>

TimeWaitExpires(c) ==
  /\ sock[c] = "timewait"
  /\ sock' = [sock EXCEPT ![c] = "closed"]
  /\ UNCHANGED <<server, newSocket, child, orphans, fds, peerOpen, backlog>>

-----------------------------------------------------------------------------

Next ==
  \/ Start
  \/ ServerStep
  \/ ServerDies
  \/ \E c \in Conns :
       \/ ClosesListener(c)
       \/ ChildExits(c)
       \/ Connect(c)
       \/ PeerCloses(c)
       \/ PeerResets(c)
       \/ TimeWaitExpires(c)

Spec == Init /\ [][Next]_vars

\* The loop of a running server and the first line of a child are straight
\* code; a restart, the client and the end of a child are not promised.
FairSpec ==
  /\ Spec
  /\ WF_vars(ServerStep)
  /\ \A c \in Conns : WF_vars(ClosesListener(c))

-----------------------------------------------------------------------------
(***************************************************************************)
(* Properties.                                                             *)
(***************************************************************************)

TypeOK ==
  /\ server \in {"down", "accept", "fork", "parent"}
  /\ newSocket \in Conns \cup {NoConn}
  /\ child \in [Conns -> {"none", "forked", "serving", "zombie", "reaped"}]
  /\ orphans \subseteq Conns
  /\ fds \in [Processes -> SUBSET Sockets]
  /\ sock \in [Conns -> {"none", "queued", "accepted", "reset", "timewait", "closed"}]
  /\ peerOpen \subseteq Conns
  /\ backlog \in Seq(Conns)

\* A child that serves a client holds that client's connection and nothing
\* else, however many connections were open when it was forked and whatever
\* became of the server (secnet.cpp:23,447).
ChildIsolation ==
  \A c \in Conns : child[c] = "serving" => fds[c] = {c}

\* When the server waits in accept() it holds nothing but the listening socket:
\* no connection of the past leaks a descriptor (secnet.cpp:447).
NoDescriptorLeak ==
  server = "accept" => fds[Server] = {Listen}

\* An accepted connection is always in somebody's hands, even if its client has
\* reset it: its own child has it, or the server between accept() and
\* close(newSocket), and no third process can keep it from being closed
\* (secnet.cpp:429-447).
ConnectionOwned ==
  \A c \in Conns : sock[c] \in {"accepted", "reset"} =>
    /\ Holders(fds, c) # {}
    /\ Holders(fds, c) \subseteq {c, Server}
    /\ Server \in Holders(fds, c) => newSocket = c

\* No server runs beside a child of a dead one that has a client, whom it would
\* answer from another length of the block file: as long as the child holds the
\* connection, and its client has not reset it, the port is in use and bind()
\* fails (secnet.cpp:387-407, blockstorage.cpp:16).
NoOrphanBesideServer ==
  server # "down" => \A c \in orphans : sock[c] = "reset"

\* A client in the queue is accepted or reset, even when the others never send
\* a byte and when the server dies with a child about to close the listening
\* socket (secnet.cpp:23,427-455).
QueueDrains ==
  \A c \in Conns : sock[c] = "queued" ~> sock[c] # "queued"

\* A client whose child has exited, or who got none because fork() failed, sees
\* the connection closed (secnet.cpp:439-447).
ClosedWithoutChild ==
  \A c \in Conns :
    sock[c] = "accepted" /\ c \notin Live ~> sock[c] # "accepted" \/ c \in Live

-----------------------------------------------------------------------------
(***************************************************************************)
(* What a client sees of all this: module Sessions.                        *)
(***************************************************************************)

ServiceState ==
  IF server # "down" THEN "up"
  ELSE IF Holders(fds, Listen) # {} THEN "closing" ELSE "down"

SessionState(c) ==
  CASE sock[c] = "none"     -> "none"
    [] sock[c] = "queued"   -> "waiting"
    [] sock[c] = "accepted" -> IF child[c] = "none" THEN "taken"
                               ELSE IF c \in Live THEN "served" ELSE "finished"
    [] OTHER                -> "over"

Promise == INSTANCE Sessions WITH
  service <- ServiceState,
  session <- [c \in Conns |-> SessionState(c)],
  queue   <- backlog

\* The accept loop, its children and the kernel together keep the promise of
\* module Sessions: first come first served, one connection in the hands of the
\* server at a time, sessions that survive the server and each other, a queue
\* that nobody but the death of the server empties, and no second server while
\* a session of the first one lasts (secnet.cpp:23,401,427-455).
KeepsPromise == Promise!Spec

=============================================================================

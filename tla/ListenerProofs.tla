--------------------------- MODULE ListenerProofs ---------------------------
(***************************************************************************)
(* Proofs about Listener for every number of connections and every limit   *)
(* on processes and on the queue of the listening socket.                  *)
(***************************************************************************)
EXTENDS Listener, TLAPS

(***************************************************************************)
(* The inductive invariant: what exactly every process has open, and which *)
(* connections may be in the queue or in the hands of the server.          *)
(***************************************************************************)

\* A connection that has been accepted, and perhaps reset by its client.
Taken(c) == sock[c] \in {"accepted", "reset"}

\* The local variable newSocket is set between accept() and close().
NewSocketSet ==
  /\ server \in {"down", "accept"} => newSocket = NoConn
  /\ server \in {"fork", "parent"} =>
       newSocket \in Conns /\ Taken(newSocket)
  /\ server = "fork" => child[newSocket] = "none"

ServerDescriptors ==
  /\ server = "down" => fds[Server] = {}
  /\ server = "accept" => fds[Server] = {Listen}
  /\ server \in {"fork", "parent"} => fds[Server] = {Listen, newSocket}

ChildDescriptors ==
  \A c \in Conns :
    /\ child[c] = "forked" => fds[c] = {c, Listen}
    /\ child[c] = "serving" => fds[c] = {c}
    /\ child[c] \in {"none", "zombie", "reaped"} => fds[c] = {}

\* Every queued connection is in the queue only once.
QueueSound ==
  /\ \A i \in 1 .. Len(backlog) : sock[backlog[i]] = "queued"
  /\ \A i, j \in 1 .. Len(backlog) : backlog[i] = backlog[j] => i = j

NoChildBeforeAccept ==
  \A c \in Conns : sock[c] \in {"none", "queued"} => child[c] = "none"

AcceptedHeld ==
  \A c \in Conns : Taken(c) => Holders(fds, c) # {}

IInv ==
  /\ TypeOK
  /\ NewSocketSet
  /\ ServerDescriptors
  /\ ChildDescriptors
  /\ QueueSound
  /\ NoChildBeforeAccept
  /\ AcceptedHeld

-----------------------------------------------------------------------------

LEMMA InitInv == Init => IInv
  BY NamesAssumption DEF Init, IInv, TypeOK, NewSocketSet, ServerDescriptors,
     ChildDescriptors, QueueSound, NoChildBeforeAccept, AcceptedHeld, Taken, Processes,
     Sockets

\* What closing descriptors leaves of the invariant, whoever closes them.
LEMMA CloseToKeeps ==
  ASSUME TypeOK, QueueSound,
         NEW f \in [Processes -> SUBSET Sockets], CloseTo(f)
  PROVE  /\ fds' \in [Processes -> SUBSET Sockets]
         /\ sock' \in [Conns -> {"none", "queued", "accepted", "reset", "timewait", "closed"}]
         /\ backlog' \in Seq(Conns)
         /\ QueueSound'
         /\ AcceptedHeld'
         /\ \A c \in Conns :
              /\ sock'[c] \in {"none", "queued"} => sock'[c] = sock[c]
              /\ Taken(c) /\ Holders(f, c) # {} => sock'[c] = sock[c]
<1>1. \A c \in Conns : sock'[c] = SockAfter(f, c)
  BY DEF CloseTo
<1>2. sock' \in [Conns -> {"none", "queued", "accepted", "reset", "timewait", "closed"}]
  BY DEF CloseTo, SockAfter, TypeOK
<1>3. /\ fds' \in [Processes -> SUBSET Sockets]
      /\ backlog' \in Seq(Conns)
  BY DEF CloseTo, TypeOK
<1>4. QueueSound'
  <2>1. CASE Holders(f, Listen) = {}
    BY <2>1 DEF CloseTo, QueueSound
  <2>2. CASE Holders(f, Listen) # {}
    <3>1. backlog' = backlog
      BY <2>2 DEF CloseTo
    <3>2. ASSUME NEW i \in 1 .. Len(backlog)
          PROVE  sock'[backlog[i]] = "queued"
      <4>1. backlog[i] \in Conns /\ sock[backlog[i]] = "queued"
        BY DEF TypeOK, QueueSound
      <4>. QED
        BY <1>1, <2>2, <4>1 DEF SockAfter
    <3>. QED
      BY <3>1, <3>2 DEF QueueSound
  <2>. QED
    BY <2>1, <2>2
<1>5. \A c \in Conns :
        /\ sock'[c] \in {"none", "queued"} => sock'[c] = sock[c]
        /\ Taken(c) /\ Holders(f, c) # {} => sock'[c] = sock[c]
  BY <1>1 DEF SockAfter, Taken
<1>6. AcceptedHeld'
  <2>1. \A c \in Conns : Taken(c)' => Holders(f, c) # {}
    BY <1>1 DEF SockAfter, Taken
  <2>. QED
    BY <2>1 DEF AcceptedHeld, Taken, CloseTo, Holders
<1>. QED
  BY <1>2, <1>3, <1>4, <1>5, <1>6

LEMMA StartKeeps == IInv /\ Start => IInv'
  BY NamesAssumption DEF Start, CanBind, IInv, TypeOK, NewSocketSet, Taken,
     ServerDescriptors, ChildDescriptors, QueueSound, NoChildBeforeAccept,
     AcceptedHeld, Holders, Processes, Sockets

\* accept() takes a queued connection, which has no child yet.
LEMMA AcceptKeeps == IInv /\ Accept => IInv'
<1>. SUFFICES ASSUME IInv, Accept PROVE IInv'
  OBVIOUS
<1>. DEFINE c == Head(backlog)
<1>. USE NamesAssumption DEF IInv
<1>1. /\ Len(backlog) \in Nat \ {0}
      /\ c = backlog[1]
      /\ c \in Conns
      /\ sock[c] = "queued"
      /\ child[c] = "none"
  BY DEF Accept, TypeOK, QueueSound, NoChildBeforeAccept
<1>2. /\ newSocket' = c
      /\ sock' = [sock EXCEPT ![c] = "accepted"]
      /\ fds' = [fds EXCEPT ![Server] = @ \cup {c}]
      /\ backlog' = Tail(backlog)
      /\ server = "accept" /\ server' = "fork"
      /\ UNCHANGED <<child, orphans, peerOpen>>
  BY DEF Accept
<1>. HIDE DEF c
<1>3. /\ backlog' \in Seq(Conns)
      /\ Len(backlog') = Len(backlog) - 1
      /\ \A i \in 1 .. Len(backlog') : backlog'[i] = backlog[i + 1]
  BY <1>1, <1>2 DEF TypeOK
<1>4. TypeOK'
  BY <1>1, <1>2, <1>3 DEF TypeOK, Processes, Sockets
<1>5. NewSocketSet'
  BY <1>1, <1>2 DEF NewSocketSet, Taken, TypeOK
<1>6. ServerDescriptors'
  BY <1>1, <1>2 DEF ServerDescriptors, TypeOK, Processes
<1>7. ChildDescriptors'
  BY <1>1, <1>2 DEF ChildDescriptors, TypeOK, Processes
<1>8. QueueSound'
  <2>1. ASSUME NEW i \in 1 .. Len(backlog')
        PROVE  backlog'[i] \in Conns /\ backlog'[i] # c /\ sock[backlog'[i]] = "queued"
    <3>1. i + 1 \in 1 .. Len(backlog) /\ i + 1 # 1 /\ 1 \in 1 .. Len(backlog)
      BY <1>1, <1>3
    <3>2. backlog'[i] = backlog[i + 1] /\ c = backlog[1]
      BY <1>1, <1>3
    <3>3. sock[backlog[i + 1]] = "queued" /\ backlog[i + 1] # backlog[1]
      BY <3>1 DEF QueueSound
    <3>4. backlog[i + 1] \in Conns
      BY <3>1 DEF TypeOK
    <3>. QED
      BY <3>2, <3>3, <3>4
  <2>2. \A i \in 1 .. Len(backlog') : sock'[backlog'[i]] = "queued"
    BY <1>2, <2>1 DEF TypeOK
  <2>3. \A i, j \in 1 .. Len(backlog') : backlog'[i] = backlog'[j] => i = j
    <3>. SUFFICES ASSUME NEW i \in 1 .. Len(backlog'), NEW j \in 1 .. Len(backlog'),
                         backlog'[i] = backlog'[j]
                  PROVE  i = j
      OBVIOUS
    <3>1. i + 1 \in 1 .. Len(backlog) /\ j + 1 \in 1 .. Len(backlog)
      BY <1>1, <1>3
    <3>2. backlog[i + 1] = backlog[j + 1]
      BY <1>3
    <3>3. i + 1 = j + 1
      BY <3>1, <3>2 DEF QueueSound
    <3>. QED
      BY <3>3
  <2>. QED
    BY <2>2, <2>3 DEF QueueSound
<1>9. NoChildBeforeAccept'
  BY <1>1, <1>2 DEF NoChildBeforeAccept, TypeOK
<1>10. AcceptedHeld'
  <2>1. \A p \in Processes : fds[p] \subseteq fds'[p]
    BY <1>2 DEF TypeOK
  <2>2. c \in fds'[Server] /\ Server \in Processes
    BY <1>2 DEF TypeOK, Processes
  <2>3. \A d \in Conns : Taken(d)' => d = c \/ Taken(d)
    BY <1>2 DEF TypeOK, Taken
  <2>4. \A d \in Conns :
          Taken(d)' => \E p \in Processes : d \in fds'[p]
    BY <2>1, <2>2, <2>3 DEF AcceptedHeld, Taken, Holders
  <2>. QED
    BY <2>4 DEF AcceptedHeld, Holders
<1>. QED
  BY <1>4, <1>5, <1>6, <1>7, <1>8, <1>9, <1>10

\* The child gets a copy of everything that the server has open.
LEMMA ForkKeeps == IInv /\ Fork => IInv'
<1>. SUFFICES ASSUME IInv, Fork PROVE IInv'
  OBVIOUS
<1>. USE NamesAssumption DEF IInv
<1>1. /\ newSocket \in Conns /\ newSocket # Server
      /\ child[newSocket] = "none"
      /\ Taken(newSocket)
      /\ fds[Server] = {Listen, newSocket}
  BY DEF Fork, NewSocketSet, ServerDescriptors
<1>2. TypeOK'
  BY <1>1 DEF Fork, TypeOK, Processes, Sockets
<1>3. NewSocketSet' /\ ServerDescriptors'
  BY <1>1 DEF Fork, NewSocketSet, Taken, ServerDescriptors, TypeOK
<1>4. ChildDescriptors'
  BY <1>1 DEF Fork, ChildDescriptors, TypeOK, Processes
<1>5. QueueSound'
  BY DEF Fork, QueueSound
<1>6. NoChildBeforeAccept'
  BY <1>1 DEF Fork, NoChildBeforeAccept, Taken, TypeOK
<1>7. AcceptedHeld'
  <2>1. fds[newSocket] = {}
    BY <1>1 DEF ChildDescriptors
  <2>2. \A p \in Processes : fds[p] \subseteq fds'[p]
    BY <2>1 DEF Fork, TypeOK
  <2>. QED
    BY <2>2 DEF Fork, AcceptedHeld, Taken, Holders
<1>. QED
  BY <1>2, <1>3, <1>4, <1>5, <1>6, <1>7

LEMMA ForkFailsKeeps == IInv /\ ForkFails => IInv'
  BY DEF ForkFails, IInv, TypeOK, NewSocketSet, ServerDescriptors,
     ChildDescriptors, QueueSound, NoChildBeforeAccept, AcceptedHeld, Taken, Holders

\* close(newSocket) in the server.
LEMMA ParentClosesKeeps == IInv /\ ParentCloses => IInv'
<1>. SUFFICES ASSUME IInv, ParentCloses PROVE IInv'
  OBVIOUS
<1>. USE NamesAssumption DEF IInv
<1>. DEFINE f == [fds EXCEPT ![Server] = @ \ {newSocket}]
<1>1. f \in [Processes -> SUBSET Sockets] /\ CloseTo(f) /\ fds' = f
  BY DEF ParentCloses, CloseTo, TypeOK, Processes
<1>2. newSocket \in Conns /\ newSocket # Listen /\ fds[Server] = {Listen, newSocket}
  BY DEF ParentCloses, NewSocketSet, Taken, ServerDescriptors
<1>3. f[Server] = {Listen} /\ \A c \in Conns : f[c] = fds[c]
  BY <1>2 DEF TypeOK, Processes
<1>. HIDE DEF f
<1>4. TypeOK'
  BY <1>1, <1>2, CloseToKeeps DEF ParentCloses, TypeOK
<1>5. NewSocketSet' /\ ServerDescriptors'
  BY <1>1, <1>3 DEF ParentCloses, NewSocketSet, ServerDescriptors
<1>6. ChildDescriptors'
  BY <1>1, <1>3 DEF ParentCloses, ChildDescriptors
<1>7. QueueSound' /\ AcceptedHeld'
  BY <1>1, CloseToKeeps
<1>8. NoChildBeforeAccept'
  BY <1>1, CloseToKeeps DEF ParentCloses, NoChildBeforeAccept
<1>. QED
  BY <1>4, <1>5, <1>6, <1>7, <1>8

\* The descriptors of a dead server are closed, those of its children are not.
LEMMA ServerDiesKeeps == IInv /\ ServerDies => IInv'
<1>. SUFFICES ASSUME IInv, ServerDies PROVE IInv'
  OBVIOUS
<1>. USE NamesAssumption DEF IInv
<1>. DEFINE f == [fds EXCEPT ![Server] = {}]
<1>1. f \in [Processes -> SUBSET Sockets] /\ CloseTo(f) /\ fds' = f
  BY DEF ServerDies, CloseTo, TypeOK, Processes
<1>2. f[Server] = {} /\ \A c \in Conns : f[c] = fds[c]
  BY DEF TypeOK, Processes
<1>. HIDE DEF f
<1>3. \A c \in Conns :
        child'[c] = IF child[c] = "zombie" THEN "reaped" ELSE child[c]
  BY DEF ServerDies
<1>4. child' \in [Conns -> {"none", "forked", "serving", "zombie", "reaped"}]
  BY DEF ServerDies, TypeOK
<1>5. TypeOK'
  BY <1>1, <1>4, CloseToKeeps DEF ServerDies, TypeOK, Live
<1>6. NewSocketSet' /\ ServerDescriptors'
  BY <1>1, <1>2 DEF ServerDies, NewSocketSet, ServerDescriptors
<1>7. ChildDescriptors'
  BY <1>1, <1>2, <1>3 DEF ChildDescriptors
<1>8. QueueSound' /\ AcceptedHeld'
  BY <1>1, CloseToKeeps
<1>9. NoChildBeforeAccept'
  BY <1>1, <1>3, CloseToKeeps DEF NoChildBeforeAccept
<1>. QED
  BY <1>5, <1>6, <1>7, <1>8, <1>9

\* close(SecNet::_serverSocket) in the child.
LEMMA ClosesListenerKeeps ==
  ASSUME IInv, NEW c \in Conns, ClosesListener(c)
  PROVE  IInv'
<1>. USE NamesAssumption DEF IInv
<1>. DEFINE f == [fds EXCEPT ![c] = @ \ {Listen}]
<1>1. f \in [Processes -> SUBSET Sockets] /\ CloseTo(f) /\ fds' = f
  BY DEF ClosesListener, CloseTo, TypeOK, Processes
<1>2. /\ fds[c] = {c, Listen}
      /\ f[c] = {c}
      /\ \A p \in Processes \ {c} : f[p] = fds[p]
      /\ f[Server] = fds[Server]
  BY DEF ClosesListener, ChildDescriptors, TypeOK, Processes
<1>. HIDE DEF f
<1>3. TypeOK'
  BY <1>1, CloseToKeeps DEF ClosesListener, TypeOK
<1>4. NewSocketSet'
  <2>. SUFFICES ASSUME server \in {"fork", "parent"}
                PROVE  Taken(newSocket)' /\ (server = "fork" => newSocket # c)
    BY DEF ClosesListener, NewSocketSet, TypeOK
  <2>1. newSocket \in Conns /\ Taken(newSocket) /\ newSocket \in f[Server]
    BY <1>2 DEF NewSocketSet, ServerDescriptors
  <2>2. Holders(f, newSocket) # {}
    BY <2>1 DEF Holders, Processes
  <2>3. sock'[newSocket] = sock[newSocket]
    BY <1>1, <2>1, <2>2, CloseToKeeps
  <2>. QED
    BY <2>1, <2>3 DEF ClosesListener, NewSocketSet, Taken
<1>5. ServerDescriptors'
  BY <1>1, <1>2 DEF ClosesListener, ServerDescriptors
<1>6. ChildDescriptors'
  BY <1>1, <1>2 DEF ClosesListener, ChildDescriptors, TypeOK, Processes
<1>7. QueueSound' /\ AcceptedHeld'
  BY <1>1, CloseToKeeps
<1>8. NoChildBeforeAccept'
  BY <1>1, CloseToKeeps DEF ClosesListener, NoChildBeforeAccept, TypeOK
<1>. QED
  BY <1>3, <1>4, <1>5, <1>6, <1>7, <1>8

LEMMA ChildExitsKeeps ==
  ASSUME IInv, NEW c \in Conns, ChildExits(c)
  PROVE  IInv'
<1>. USE NamesAssumption DEF IInv
<1>. DEFINE f == [fds EXCEPT ![c] = {}]
<1>1. f \in [Processes -> SUBSET Sockets] /\ CloseTo(f) /\ fds' = f
  BY DEF ChildExits, CloseTo, TypeOK, Processes
<1>2. /\ f[c] = {}
      /\ \A p \in Processes \ {c} : f[p] = fds[p]
      /\ f[Server] = fds[Server]
  BY DEF TypeOK, Processes
<1>. HIDE DEF f
<1>3. TypeOK'
  BY <1>1, CloseToKeeps DEF ChildExits, TypeOK
<1>4. NewSocketSet'
  <2>. SUFFICES ASSUME server \in {"fork", "parent"}
                PROVE  Taken(newSocket)' /\ (server = "fork" => newSocket # c)
    BY DEF ChildExits, NewSocketSet, TypeOK
  <2>1. newSocket \in Conns /\ Taken(newSocket) /\ newSocket \in f[Server]
    BY <1>2 DEF NewSocketSet, ServerDescriptors
  <2>2. Holders(f, newSocket) # {}
    BY <2>1 DEF Holders, Processes
  <2>3. sock'[newSocket] = sock[newSocket]
    BY <1>1, <2>1, <2>2, CloseToKeeps
  <2>. QED
    BY <2>1, <2>3 DEF ChildExits, NewSocketSet, Taken
<1>5. ServerDescriptors'
  BY <1>1, <1>2 DEF ChildExits, ServerDescriptors
<1>6. ChildDescriptors'
  BY <1>1, <1>2 DEF ChildExits, ChildDescriptors, TypeOK, Processes
<1>7. QueueSound' /\ AcceptedHeld'
  BY <1>1, CloseToKeeps
<1>8. NoChildBeforeAccept'
  BY <1>1, CloseToKeeps DEF ChildExits, NoChildBeforeAccept, TypeOK
<1>. QED
  BY <1>3, <1>4, <1>5, <1>6, <1>7, <1>8

\* A new connection goes to the end of the queue, and is in it for the first time.
LEMMA ConnectKeeps ==
  ASSUME IInv, NEW c \in Conns, Connect(c)
  PROVE  IInv'
<1>. USE NamesAssumption DEF IInv
<1>1. /\ backlog' = Append(backlog, c)
      /\ sock[c] = "none"
      /\ sock' = [sock EXCEPT ![c] = "queued"]
      /\ backlog \in Seq(Conns)
  BY DEF Connect, TypeOK
<1>2. /\ backlog' \in Seq(Conns)
      /\ Len(backlog) \in Nat
      /\ Len(backlog') = Len(backlog) + 1
      /\ backlog'[Len(backlog')] = c
      /\ \A i \in 1 .. Len(backlog) : backlog'[i] = backlog[i]
  BY <1>1
<1>3. TypeOK'
  BY <1>1, <1>2 DEF Connect, TypeOK
<1>4. /\ NewSocketSet'
      /\ ServerDescriptors'
      /\ ChildDescriptors'
      /\ NoChildBeforeAccept'
  BY <1>1 DEF Connect, NewSocketSet, Taken, ServerDescriptors, ChildDescriptors,
              NoChildBeforeAccept, TypeOK
<1>5. QueueSound'
  <2>1. \A i \in 1 .. Len(backlog) : backlog[i] \in Conns /\ backlog[i] # c
    BY <1>1 DEF QueueSound
  <2>2. \A i \in 1 .. Len(backlog') : i = Len(backlog') \/ i \in 1 .. Len(backlog)
    BY <1>2
  <2>3. \A i \in 1 .. Len(backlog') : sock'[backlog'[i]] = "queued"
    BY <1>1, <1>2, <2>1, <2>2 DEF QueueSound, TypeOK
  <2>4. \A i, j \in 1 .. Len(backlog') : backlog'[i] = backlog'[j] => i = j
    BY <1>2, <2>1, <2>2 DEF QueueSound
  <2>. QED
    BY <2>3, <2>4 DEF QueueSound
<1>6. AcceptedHeld'
  BY <1>1 DEF Connect, AcceptedHeld, Taken, Holders, TypeOK
<1>. QED
  BY <1>3, <1>4, <1>5, <1>6

LEMMA KernelKeeps ==
  ASSUME IInv, NEW c \in Conns, PeerCloses(c) \/ PeerResets(c) \/ TimeWaitExpires(c)
  PROVE  IInv'
<1>1. CASE PeerCloses(c)
  BY <1>1 DEF PeerCloses, IInv, TypeOK, NewSocketSet, ServerDescriptors,
     ChildDescriptors, QueueSound, NoChildBeforeAccept, AcceptedHeld, Taken, Holders
<1>2. CASE TimeWaitExpires(c)
  BY <1>2 DEF TimeWaitExpires, IInv, TypeOK, NewSocketSet, ServerDescriptors,
     ChildDescriptors, QueueSound, NoChildBeforeAccept, AcceptedHeld, Taken, Holders
<1>3. CASE PeerResets(c)
  BY <1>3 DEF PeerResets, IInv, TypeOK, NewSocketSet, ServerDescriptors,
     ChildDescriptors, QueueSound, NoChildBeforeAccept, AcceptedHeld, Taken, Holders
<1>. QED
  BY <1>1, <1>2, <1>3

LEMMA NextInv == IInv /\ [Next]_vars => IInv'
<1>1. CASE UNCHANGED vars
  BY <1>1 DEF vars, IInv, TypeOK, NewSocketSet, ServerDescriptors,
     ChildDescriptors, QueueSound, NoChildBeforeAccept, AcceptedHeld, Taken, Holders
<1>2. CASE Next
  BY <1>2, StartKeeps, AcceptKeeps, ForkKeeps, ForkFailsKeeps, ParentClosesKeeps,
     ServerDiesKeeps, ClosesListenerKeeps, ChildExitsKeeps, ConnectKeeps,
     KernelKeeps DEF Next, ServerStep
<1>. QED
  BY <1>1, <1>2

-----------------------------------------------------------------------------
(***************************************************************************)
(* The theorems.                                                           *)
(***************************************************************************)

\* The strengthened invariant holds in every reachable state.
THEOREM Invariance == Spec => []IInv
  BY InitInv, NextInv, PTL DEF Spec

\* Every variable of the listener keeps its type, for any number of connections.
THEOREM TypeCorrect == Spec => []TypeOK
  BY Invariance, PTL DEF IInv

\* A serving child holds its own connection only, for any number of
\* connections, failing forks and server deaths (secnet.cpp:23,447).
THEOREM IsolationCorrect == Spec => []ChildIsolation
<1>1. IInv => ChildIsolation
  BY DEF IInv, ChildDescriptors, ChildIsolation
<1>. QED
  BY <1>1, Invariance, PTL

\* The server leaks no descriptor of a connection (secnet.cpp:447).
THEOREM NoLeakCorrect == Spec => []NoDescriptorLeak
<1>1. IInv => NoDescriptorLeak
  BY DEF IInv, ServerDescriptors, NoDescriptorLeak
<1>. QED
  BY <1>1, Invariance, PTL

\* Every accepted connection is held by its child or by the server that has
\* just accepted it, and by nobody else (secnet.cpp:429-447).
THEOREM OwnershipCorrect == Spec => []ConnectionOwned
<1>1. IInv => ConnectionOwned
  <2>. SUFFICES ASSUME IInv, NEW c \in Conns, Taken(c)
                PROVE  /\ Holders(fds, c) # {}
                       /\ Holders(fds, c) \subseteq {c, Server}
                       /\ Server \in Holders(fds, c) => newSocket = c
    BY DEF ConnectionOwned, Taken
  <2>. USE NamesAssumption DEF IInv
  <2>1. Holders(fds, c) # {}
    BY DEF AcceptedHeld
  <2>2. ASSUME NEW p \in Conns, c \in fds[p]
        PROVE  p = c
    BY <2>2 DEF ChildDescriptors, TypeOK
  <2>3. c \in fds[Server] => newSocket = c
    BY DEF ServerDescriptors, TypeOK
  <2>. QED
    BY <2>1, <2>2, <2>3 DEF Holders, Processes
<1>. QED
  BY <1>1, Invariance, PTL

=============================================================================

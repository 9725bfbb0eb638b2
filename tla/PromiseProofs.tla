---------------------------- MODULE PromiseProofs ----------------------------
(***************************************************************************)
(* Proof that Listener implements Sessions, for every number of            *)
(* connections and every limit on processes and on the queue.              *)
(***************************************************************************)
EXTENDS ListenerProofs

(***************************************************************************)
(* What the invariant of ListenerProofs leaves open, and the mapping of    *)
(* sessions depends on.                                                    *)
(***************************************************************************)

LiveTaken == \A c \in Live : Taken(c)

OrphansLive == orphans \subseteq Live

\* Who waits in the queue waits for a listening socket that exists.
QueueHeld ==
  Holders(fds, Listen) = {} =>
    /\ backlog = <<>>
    /\ \A c \in Conns : sock[c] # "queued"

RInv ==
  /\ IInv
  /\ LiveTaken
  /\ OrphansLive
  /\ NoOrphanBesideServer
  /\ QueueHeld

-----------------------------------------------------------------------------

\* The queue after a close() is the queue before it, or there is no queue.
LEMMA CloseToQueue ==
  ASSUME NEW f, CloseTo(f)
  PROVE  QueueHeld'
BY DEF CloseTo, QueueHeld, SockAfter, Holders, Processes

\* A running server has the listening socket open.
LEMMA ServerListens ==
  ASSUME IInv, server # "down"
  PROVE  Listen \in fds[Server] /\ Holders(fds, Listen) # {}
<1>1. Listen \in fds[Server]
  BY DEF IInv, TypeOK, ServerDescriptors
<1>. QED
  BY <1>1 DEF Holders, Processes

\* A live child has its connection open.
LEMMA LiveHolds ==
  ASSUME IInv, NEW c \in Live
  PROVE  c \in fds[c] /\ c \in Conns
BY DEF IInv, ChildDescriptors, Live

\* An accepted connection without a live child is the server's newSocket.
LEMMA InHandIsNewSocket ==
  ASSUME IInv, NEW c \in Conns, Taken(c), c \notin Live
  PROVE  server \in {"fork", "parent"} /\ newSocket = c /\ Holders(fds, c) = {Server}
<1>. USE NamesAssumption DEF IInv
<1>1. ASSUME NEW p \in Conns
      PROVE  c \notin fds[p]
  <2>1. CASE p = c
    BY <2>1 DEF ChildDescriptors, Live, TypeOK
  <2>2. CASE p # c
    BY <2>2 DEF ChildDescriptors, TypeOK
  <2>. QED
    BY <2>1, <2>2
<1>2. Holders(fds, c) = {Server}
  BY <1>1 DEF AcceptedHeld, Holders, Processes
<1>3. c \in fds[Server]
  BY <1>2 DEF Holders
<1>. QED
  BY <1>2, <1>3 DEF ServerDescriptors, TypeOK

LEMMA InitRInv == Init => RInv
<1>. SUFFICES ASSUME Init PROVE RInv
  OBVIOUS
<1>1. IInv
  BY InitInv
<1>. QED
  BY <1>1 DEF Init, RInv, LiveTaken, OrphansLive, NoOrphanBesideServer, QueueHeld, Live

\* A live child keeps its connection whoever closes something else.
LEMMA CloseToLive ==
  ASSUME IInv, LiveTaken, NEW f, CloseTo(f),
         NEW c \in Live, c \in f[c]
  PROVE  sock'[c] = sock[c] /\ Taken(c)
<1>1. c \in Conns /\ Taken(c)
  BY DEF LiveTaken, Live
<1>2. Holders(f, c) # {}
  BY <1>1 DEF Holders, Processes
<1>. QED
  BY <1>1, <1>2 DEF CloseTo, SockAfter, Taken

\* One step of the listener keeps what the mapping needs.
LEMMA NextRInv == RInv /\ [Next]_vars => RInv'
<1>. SUFFICES ASSUME RInv, [Next]_vars PROVE RInv'
  OBVIOUS
<1>. USE NamesAssumption
<1>0. IInv /\ TypeOK /\ IInv'
  BY NextInv DEF RInv, IInv
<1>1. CASE Start
  <2>1. \A c \in Live : sock[c] = "reset"
    BY <1>1 DEF RInv, LiveTaken, Taken, Start, CanBind, Live
  <2>2. UNCHANGED <<orphans, sock>> /\ Live' = Live
    BY <1>1 DEF Start, Live
  <2>3. QueueHeld'
    BY <1>0, <1>1 DEF RInv, QueueHeld, Start, CanBind
  <2>. QED
    BY <1>0, <2>1, <2>2, <2>3 DEF RInv, LiveTaken, Taken, OrphansLive,
       NoOrphanBesideServer
<1>2. CASE Accept
  <2>1. QueueHeld'
    <3>1. server' # "down"
      BY <1>2 DEF Accept
    <3>. QED
      BY <1>0, <3>1 DEF QueueHeld, IInv, TypeOK, ServerDescriptors, Holders, Processes
  <2>2. \A c \in Conns : Taken(c) => sock'[c] = sock[c]
    <3>1. sock[Head(backlog)] = "queued"
      BY <1>0, <1>2 DEF Accept, IInv, TypeOK, QueueSound
    <3>. QED
      BY <1>0, <1>2, <3>1 DEF Accept, TypeOK, Taken
  <2>3. UNCHANGED <<child, orphans>> /\ server # "down"
    BY <1>2 DEF Accept
  <2>. QED
    BY <1>0, <2>1, <2>2, <2>3 DEF RInv, LiveTaken, Taken, OrphansLive,
       NoOrphanBesideServer, Live
<1>3. CASE Fork
  <2>1. server' # "down" /\ server # "down" /\ UNCHANGED <<orphans, sock>>
    BY <1>3 DEF Fork
  <2>2. QueueHeld'
    BY <1>0, <2>1 DEF QueueHeld, IInv, TypeOK, ServerDescriptors, Holders, Processes
  <2>3. newSocket \in Conns /\ Taken(newSocket)
    BY <1>0, <1>3 DEF IInv, NewSocketSet, Fork
  <2>4. Live' = Live \cup {newSocket}
    BY <1>0, <1>3, <2>3 DEF Fork, Live, TypeOK
  <2>. QED
    BY <1>0, <2>1, <2>2, <2>3, <2>4 DEF RInv, LiveTaken, Taken, OrphansLive,
       NoOrphanBesideServer
<1>4. CASE ForkFails
  BY <1>0, <1>4 DEF ForkFails, RInv, LiveTaken, Taken, OrphansLive,
     NoOrphanBesideServer, QueueHeld, Live, Holders
<1>5. CASE ParentCloses
  <2>. DEFINE f == [fds EXCEPT ![Server] = @ \ {newSocket}]
  <2>1. CloseTo(f) /\ UNCHANGED <<child, orphans>> /\ server # "down"
    BY <1>5 DEF ParentCloses
  <2>2. \A c \in Conns : f[c] = fds[c]
    BY <1>0 DEF TypeOK, Processes
  <2>. HIDE DEF f
  <2>3. \A c \in Live : sock'[c] = sock[c]
    BY <1>0, <2>1, <2>2, LiveHolds, CloseToLive DEF RInv
  <2>. QED
    BY <1>0, <2>1, <2>3, CloseToQueue DEF RInv, LiveTaken, Taken, OrphansLive,
       NoOrphanBesideServer, Live
<1>6. CASE ServerDies
  <2>. DEFINE f == [fds EXCEPT ![Server] = {}]
  <2>1. CloseTo(f) /\ server' = "down" /\ orphans' = orphans \cup Live
    BY <1>6 DEF ServerDies
  <2>2. \A c \in Conns : f[c] = fds[c]
    BY <1>0 DEF TypeOK, Processes
  <2>. HIDE DEF f
  <2>3. Live' = Live
    BY <1>0, <1>6 DEF ServerDies, Live, TypeOK
  <2>4. \A c \in Live : sock'[c] = sock[c]
    BY <1>0, <2>1, <2>2, LiveHolds, CloseToLive DEF RInv
  <2>. QED
    BY <1>0, <2>1, <2>3, <2>4, CloseToQueue DEF RInv, LiveTaken, Taken, OrphansLive,
       NoOrphanBesideServer
<1>7. ASSUME NEW c \in Conns, ClosesListener(c)
      PROVE  RInv'
  <2>. DEFINE f == [fds EXCEPT ![c] = @ \ {Listen}]
  <2>1. CloseTo(f) /\ UNCHANGED <<server, orphans>>
    BY <1>7 DEF ClosesListener
  <2>2. \A d \in Conns : d \in fds[d] => d \in f[d]
    BY <1>0 DEF TypeOK, Processes
  <2>. HIDE DEF f
  <2>3. Live' = Live
    BY <1>0, <1>7 DEF ClosesListener, Live, TypeOK
  <2>4. \A d \in Live : sock'[d] = sock[d]
    BY <1>0, <2>1, <2>2, LiveHolds, CloseToLive DEF RInv
  <2>. QED
    BY <1>0, <2>1, <2>3, <2>4, CloseToQueue DEF RInv, LiveTaken, Taken, OrphansLive,
       NoOrphanBesideServer
<1>8. ASSUME NEW c \in Conns, ChildExits(c)
      PROVE  RInv'
  <2>. DEFINE f == [fds EXCEPT ![c] = {}]
  <2>1. CloseTo(f) /\ UNCHANGED server /\ orphans' = orphans \ {c}
    BY <1>8 DEF ChildExits
  <2>2. \A d \in Conns \ {c} : f[d] = fds[d]
    BY <1>0 DEF TypeOK, Processes
  <2>. HIDE DEF f
  <2>3. Live' = Live \ {c}
    BY <1>0, <1>8 DEF ChildExits, Live, TypeOK
  <2>4. \A d \in Live \ {c} : sock'[d] = sock[d]
    BY <1>0, <2>1, <2>2, LiveHolds, CloseToLive DEF RInv
  <2>. QED
    BY <1>0, <2>1, <2>3, <2>4, CloseToQueue DEF RInv, LiveTaken, Taken, OrphansLive,
       NoOrphanBesideServer
<1>9. ASSUME NEW c \in Conns, Connect(c)
      PROVE  RInv'
  <2>1. Holders(fds, Listen) # {} /\ UNCHANGED <<server, child, orphans, fds>>
    BY <1>9 DEF Connect
  <2>2. \A d \in Conns : Taken(d) => sock'[d] = sock[d]
    BY <1>0, <1>9 DEF Connect, TypeOK, Taken
  <2>. QED
    BY <1>0, <2>1, <2>2 DEF RInv, LiveTaken, Taken, OrphansLive, NoOrphanBesideServer,
       QueueHeld, Live, Holders
<1>10. ASSUME NEW c \in Conns, PeerCloses(c) \/ PeerResets(c) \/ TimeWaitExpires(c)
       PROVE  RInv'
  <2>1. /\ UNCHANGED <<server, child, orphans, fds, backlog>>
        /\ \A d \in Conns : /\ Taken(d) => Taken(d)'
                            /\ sock[d] = "reset" => sock'[d] = "reset"
                            /\ sock'[d] = "queued" => sock[d] = "queued"
    BY <1>0, <1>10 DEF PeerCloses, PeerResets, TimeWaitExpires, TypeOK, Taken
  <2>. QED
    BY <1>0, <2>1 DEF RInv, LiveTaken, OrphansLive, NoOrphanBesideServer,
       QueueHeld, Live, Holders
<1>11. CASE UNCHANGED vars
  BY <1>0, <1>11 DEF vars, RInv, LiveTaken, Taken, OrphansLive, NoOrphanBesideServer,
     QueueHeld, Live, Holders
<1>. QED
  BY <1>1, <1>2, <1>3, <1>4, <1>5, <1>6, <1>7, <1>8, <1>9, <1>10, <1>11
     DEF Next, ServerStep

\* What the mapping needs holds in every reachable state.
THEOREM RInvariance == Spec => []RInv
  BY InitRInv, NextRInv, PTL DEF Spec

\* No server runs beside a child of a dead one that has a client, for any number
\* of connections, resets and restarts (secnet.cpp:387-407).
THEOREM NoOrphanCorrect == Spec => []NoOrphanBesideServer
<1>1. RInv => NoOrphanBesideServer
  BY DEF RInv
<1>. QED
  BY <1>1, RInvariance, PTL

-----------------------------------------------------------------------------
(***************************************************************************)
(* Every step of the listener is a step of Sessions or changes nothing     *)
(* that a client sees.                                                     *)
(***************************************************************************)

Session == [c \in Conns |-> SessionState(c)]

Same == ServiceState' = ServiceState /\ Session' = Session /\ backlog' = backlog

Step == [Promise!Next]_<<ServiceState, Session, backlog>>

LEMMA PromiseInit == Init => Promise!Init
<1>. SUFFICES ASSUME Init PROVE Promise!Init
  OBVIOUS
<1>1. ServiceState = "down"
  BY DEF Init, ServiceState, Holders
<1>2. \A c \in Conns : SessionState(c) = "none"
  BY DEF Init, SessionState
<1>. QED
  BY <1>1, <1>2 DEF Promise!Init, Init

\* The states of the service and of a session, one by one.
LEMMA ServiceStates ==
  /\ server # "down" => ServiceState = "up"
  /\ server = "down" /\ Holders(fds, Listen) # {} => ServiceState = "closing"
  /\ server = "down" /\ Holders(fds, Listen) = {} => ServiceState = "down"
BY DEF ServiceState

LEMMA SessionStates ==
  ASSUME TypeOK, NEW c \in Conns
  PROVE  /\ SessionState(c) = "none" <=> sock[c] = "none"
         /\ SessionState(c) = "waiting" <=> sock[c] = "queued"
         /\ SessionState(c) = "taken" <=> sock[c] = "accepted" /\ child[c] = "none"
         /\ SessionState(c) = "served" <=> sock[c] = "accepted" /\ c \in Live
         /\ SessionState(c) = "finished" <=>
              sock[c] = "accepted" /\ child[c] \in {"zombie", "reaped"}
         /\ SessionState(c) = "over" <=> sock[c] \in {"reset", "timewait", "closed"}
         /\ SessionState(c) \in {"taken", "finished"} <=>
              sock[c] = "accepted" /\ c \notin Live
BY DEF SessionState, TypeOK, Live

\* bind() is refused while a session of a dead server lasts.
LEMMA StartStep == RInv /\ Start => Promise!Open
<1>. SUFFICES ASSUME RInv, Start PROVE Promise!Open
  OBVIOUS
<1>1. ServiceState = "down" /\ ServiceState' = "up"
  BY DEF Start, CanBind, ServiceState
<1>2. \A c \in Conns : SessionState(c) \notin {"taken", "finished", "served"}
  BY SessionStates DEF RInv, IInv, Start, CanBind
<1>3. Session' = Session
  BY DEF Start, Session, SessionState, Live
<1>. QED
  BY <1>1, <1>2, <1>3 DEF Promise!Open, Promise!Ongoing, Promise!InHand, Start, Session

\* A server in accept() has nothing else in its hands.
LEMMA AcceptStep == RInv /\ Accept => Promise!Take
<1>. SUFFICES ASSUME RInv, Accept PROVE Promise!Take
  OBVIOUS
<1>0. IInv /\ TypeOK
  BY DEF RInv, IInv
<1>1. ServiceState = "up" /\ ServiceState' = "up"
  BY DEF Accept, ServiceState
<1>2. \A c \in Conns : SessionState(c) \notin {"taken", "finished"}
  BY <1>0, InHandIsNewSocket, SessionStates DEF Accept, Taken
<1>. DEFINE c == Head(backlog)
<1>3. c \in Conns /\ sock[c] = "queued" /\ child[c] = "none"
  BY <1>0 DEF Accept, IInv, TypeOK, QueueSound, NoChildBeforeAccept
<1>4. sock' = [sock EXCEPT ![c] = "accepted"] /\ child' = child
  BY DEF Accept
<1>. HIDE DEF c
<1>5. Session' = [Session EXCEPT ![c] = "taken"]
  BY <1>0, <1>3, <1>4 DEF Session, SessionState, Live, TypeOK
<1>. QED
  BY <1>1, <1>2, <1>5 DEF Promise!Take, Promise!InHand, Accept, Session, c

\* The child that is forked serves the connection in newSocket, unless its
\* client has reset it.
LEMMA ForkStep == RInv /\ Fork => Same \/ \E c \in Conns : Promise!Serve(c)
<1>. SUFFICES ASSUME RInv, Fork PROVE Same \/ \E c \in Conns : Promise!Serve(c)
  OBVIOUS
<1>0. IInv /\ TypeOK
  BY DEF RInv, IInv
<1>1. ServiceState = "up" /\ ServiceState' = "up"
  BY DEF Fork, ServiceState
<1>2. newSocket \in Conns /\ Taken(newSocket) /\ child[newSocket] = "none"
  BY <1>0 DEF Fork, IInv, NewSocketSet
<1>3. CASE sock[newSocket] = "accepted"
  <2>1. Session[newSocket] = "taken"
    BY <1>2, <1>3 DEF Session, SessionState
  <2>2. Session' = [Session EXCEPT ![newSocket] = "served"]
    BY <1>0, <1>2, <1>3 DEF Fork, Session, SessionState, Live, TypeOK
  <2>. QED
    BY <1>1, <1>2, <2>1, <2>2 DEF Promise!Serve, Fork, Session
<1>4. CASE sock[newSocket] = "reset"
  <2>1. Session' = Session
    BY <1>0, <1>2, <1>4 DEF Fork, Session, SessionState, Live, TypeOK
  <2>. QED
    BY <1>1, <2>1 DEF Same, Fork
<1>. QED
  BY <1>2, <1>3, <1>4 DEF Taken

\* Nobody sees that a fork has failed, before the connection is closed.
LEMMA ForkFailsStep == RInv /\ ForkFails => Same
  BY DEF ForkFails, Same, ServiceState, Session, SessionState, Live, Holders

\* A connection whose holders stay the same stays what it is.
LEMMA CloseToSession ==
  ASSUME IInv, NEW f, CloseTo(f), NEW d \in Conns,
         d \in Live => d \in f[d],
         d \in Live <=> d \in Live',
         child'[d] = "none" <=> child[d] = "none",
         LiveTaken
  PROVE  /\ d \in Live => SessionState(d)' = SessionState(d)
         /\ sock[d] \in {"none", "reset", "timewait", "closed"} =>
              SessionState(d)' = SessionState(d)
         /\ sock[d] = "accepted" /\ Holders(f, d) # {} =>
              SessionState(d)' = SessionState(d)
         /\ sock[d] = "accepted" /\ Holders(f, d) = {} => SessionState(d)' = "over"
         /\ sock[d] = "queued" /\ Holders(f, Listen) # {} =>
              SessionState(d)' = SessionState(d)
         /\ sock[d] = "queued" /\ Holders(f, Listen) = {} => SessionState(d)' = "over"
<1>1. sock'[d] = SockAfter(f, d)
  BY DEF CloseTo
<1>2. d \in Live => sock'[d] = sock[d] /\ Taken(d)
  BY CloseToLive DEF LiveTaken
<1>. QED
  BY <1>1, <1>2 DEF SockAfter, SessionState, IInv, TypeOK, Taken

\* close(newSocket) ends a session that has no child, and no other.
LEMMA ParentClosesStep ==
  RInv /\ ParentCloses => Same \/ \E c \in Conns : Promise!Release(c)
<1>. SUFFICES ASSUME RInv, ParentCloses
              PROVE  Same \/ \E c \in Conns : Promise!Release(c)
  OBVIOUS
<1>. USE NamesAssumption
<1>0. IInv /\ TypeOK /\ LiveTaken
  BY DEF RInv, IInv
<1>. DEFINE f == [fds EXCEPT ![Server] = @ \ {newSocket}]
<1>1. CloseTo(f) /\ UNCHANGED child /\ Live' = Live
  BY DEF ParentCloses, Live
<1>2. ServiceState = "up" /\ ServiceState' = "up"
  BY DEF ParentCloses, ServiceState
<1>3. newSocket \in Conns /\ Taken(newSocket) /\ newSocket # Listen
  BY <1>0 DEF ParentCloses, IInv, NewSocketSet
<1>4. /\ \A d \in Conns : f[d] = fds[d]
      /\ Listen \in f[Server]
      /\ Holders(f, newSocket) = Holders(fds, newSocket) \ {Server}
      /\ \A s \in Conns \ {newSocket} : Holders(f, s) = Holders(fds, s)
  BY <1>0, <1>3, ServerListens DEF ParentCloses, TypeOK, Processes, Holders
<1>. HIDE DEF f
<1>5. Holders(f, Listen) # {} /\ backlog' = backlog
  BY <1>1, <1>4 DEF Holders, Processes, CloseTo
<1>6. ASSUME NEW d \in Conns, d # newSocket \/ d \in Live
      PROVE  SessionState(d)' = SessionState(d)
  <2>1. d \in Live => d \in f[d]
    BY <1>0, <1>4, LiveHolds
  <2>2. sock[d] = "accepted" => Holders(f, d) # {}
    <3>1. CASE d \in Live
      BY <2>1, <3>1 DEF Holders, Processes
    <3>2. CASE d # newSocket
      BY <1>0, <1>4, <3>2 DEF IInv, AcceptedHeld, Taken
    <3>. QED
      BY <1>6, <3>1, <3>2
  <2>3. sock[d] \in {"none", "queued", "accepted", "reset", "timewait", "closed"}
    BY <1>0 DEF TypeOK
  <2>. QED
    BY <1>0, <1>1, <1>5, <2>1, <2>2, <2>3, CloseToSession
<1>7. CASE newSocket \in Live \/ sock[newSocket] = "reset"
  <2>1. PICK c \in Conns : c = newSocket
    BY <1>3
  <2>2. /\ child'[c] = "none" <=> child[c] = "none"
        /\ c \in Live <=> c \in Live'
    BY <1>1
  <2>3. SessionState(c)' = SessionState(c)
    <3>1. CASE c \in Live
      BY <1>6, <3>1
    <3>2. CASE c \notin Live
      BY <1>0, <1>1, <1>7, <2>1, <2>2, <3>2, CloseToSession
    <3>. QED
      BY <3>1, <3>2
  <2>4. Session' = Session
    BY <1>6, <2>1, <2>3 DEF Session
  <2>. QED
    BY <1>2, <1>5, <2>4 DEF Same
<1>8. CASE newSocket \notin Live /\ sock[newSocket] = "accepted"
  <2>0. PICK c \in Conns : c = newSocket
    BY <1>3
  <2>1. Holders(f, c) = {}
    BY <1>0, <1>3, <1>4, <1>8, <2>0, InHandIsNewSocket
  <2>2. SessionState(c)' = "over"
    BY <1>0, <1>1, <1>3, <1>8, <2>0, <2>1, CloseToSession
  <2>3. Session' = [Session EXCEPT ![c] = "over"]
    BY <1>6, <2>0, <2>2 DEF Session
  <2>4. SessionState(c) \in {"taken", "finished"}
    BY <1>0, <1>3, <1>8, <2>0, SessionStates
  <2>. QED
    BY <1>2, <1>5, <2>0, <2>3, <2>4 DEF Promise!Release, Promise!InHand, Session
<1>. QED
  BY <1>3, <1>7, <1>8 DEF Taken

\* The death of the server ends what has no child, and the queue unless a child
\* still holds the listening socket.
LEMMA ServerDiesStep == RInv /\ ServerDies => Promise!Stop
<1>. SUFFICES ASSUME RInv, ServerDies PROVE Promise!Stop
  OBVIOUS
<1>. USE NamesAssumption
<1>0. IInv /\ TypeOK /\ LiveTaken
  BY DEF RInv, IInv
<1>. DEFINE f == [fds EXCEPT ![Server] = {}]
<1>1. CloseTo(f) /\ fds' = f
  BY DEF ServerDies, CloseTo
<1>2. /\ Live' = Live
      /\ \A d \in Conns : child'[d] = "none" <=> child[d] = "none"
  BY <1>0 DEF ServerDies, Live, TypeOK
<1>3. /\ \A d \in Conns : f[d] = fds[d]
      /\ f[Server] = {}
  BY <1>0 DEF TypeOK, Processes
<1>. HIDE DEF f
<1>4. ServiceState = "up" /\
      ServiceState' = IF Holders(f, Listen) # {} THEN "closing" ELSE "down"
  BY <1>1 DEF ServerDies, ServiceState
<1>5. ASSUME NEW d \in Conns
      PROVE  SessionState(d)' =
               IF \/ SessionState(d) \in {"taken", "finished"}
                  \/ SessionState(d) = "waiting" /\ Holders(f, Listen) = {}
               THEN "over" ELSE SessionState(d)
  <2>1. d \in Live => d \in f[d]
    BY <1>0, <1>3, LiveHolds
  <2>2. sock[d] = "accepted" /\ d \notin Live => Holders(f, d) = {}
    <3>. SUFFICES ASSUME sock[d] = "accepted", d \notin Live
                  PROVE  \A p \in Processes : d \notin f[p]
      BY DEF Holders
    <3>1. Holders(fds, d) = {Server}
      BY <1>0, InHandIsNewSocket DEF Taken
    <3>. QED
      BY <1>3, <3>1 DEF Holders, Processes
  <2>3. sock[d] \in {"none", "queued", "accepted", "reset", "timewait", "closed"}
    BY <1>0 DEF TypeOK
  <2>4. CASE d \in Live
    BY <1>0, <1>1, <1>2, <2>1, <2>4, CloseToSession, SessionStates DEF LiveTaken, Taken
  <2>5. CASE d \notin Live /\ sock[d] = "accepted"
    BY <1>0, <1>1, <1>2, <2>2, <2>5, CloseToSession, SessionStates
  <2>6. CASE d \notin Live /\ sock[d] = "queued"
    BY <1>0, <1>1, <1>2, <2>6, CloseToSession, SessionStates
  <2>7. CASE d \notin Live /\ sock[d] \in {"none", "reset", "timewait", "closed"}
    BY <1>0, <1>1, <1>2, <2>7, CloseToSession, SessionStates
  <2>. QED
    BY <2>3, <2>4, <2>5, <2>6, <2>7
<1>6. CASE Holders(f, Listen) # {}
  <2>1. backlog' = backlog
    BY <1>1, <1>6 DEF CloseTo
  <2>2. Promise!Cut({"taken", "finished"})
    BY <1>5, <1>6 DEF Promise!Cut
  <2>. QED
    BY <1>4, <1>6, <2>1, <2>2 DEF Promise!Stop
<1>7. CASE Holders(f, Listen) = {}
  <2>1. backlog' = <<>>
    BY <1>1, <1>7 DEF CloseTo
  <2>2. Promise!Cut({"taken", "finished", "waiting"})
    BY <1>5, <1>7 DEF Promise!Cut
  <2>. QED
    BY <1>4, <1>7, <2>1, <2>2 DEF Promise!Stop
<1>. QED
  BY <1>6, <1>7

\* close(SecNet::_serverSocket) in the child is what ends the queue of a dead
\* server, if no other child has the listening socket open.
LEMMA ClosesListenerStep ==
  ASSUME RInv, NEW c \in Conns, ClosesListener(c)
  PROVE  Same \/ Promise!Close
<1>. USE NamesAssumption
<1>0. IInv /\ TypeOK /\ LiveTaken
  BY DEF RInv, IInv
<1>. DEFINE f == [fds EXCEPT ![c] = @ \ {Listen}]
<1>1. CloseTo(f) /\ fds' = f /\ server' = server
  BY DEF ClosesListener, CloseTo
<1>2. /\ Live' = Live
      /\ \A d \in Conns : child'[d] = "none" <=> child[d] = "none"
  BY <1>0 DEF ClosesListener, Live, TypeOK
<1>3. /\ \A s \in Conns : Holders(f, s) = Holders(fds, s)
      /\ \A d \in Conns : d \in fds[d] => d \in f[d]
      /\ f[Server] = fds[Server]
      /\ c \in Holders(fds, Listen)
  BY <1>0 DEF ClosesListener, IInv, ChildDescriptors, TypeOK, Processes, Holders
<1>. HIDE DEF f
<1>4. ASSUME NEW d \in Conns
      PROVE  SessionState(d)' =
               IF SessionState(d) = "waiting" /\ Holders(f, Listen) = {}
               THEN "over" ELSE SessionState(d)
  <2>1. d \in Live => d \in f[d]
    BY <1>0, <1>3, LiveHolds
  <2>2. sock[d] = "accepted" => Holders(f, d) # {}
    BY <1>0, <1>3 DEF IInv, AcceptedHeld, Taken
  <2>3. CASE sock[d] = "queued"
    BY <1>0, <1>1, <1>2, <2>1, <2>3, CloseToSession, SessionStates
  <2>4. CASE sock[d] \in {"none", "accepted", "reset", "timewait", "closed"}
    BY <1>0, <1>1, <1>2, <2>1, <2>2, <2>4, CloseToSession, SessionStates
  <2>. QED
    BY <1>0, <2>3, <2>4 DEF TypeOK
<1>5. CASE Holders(f, Listen) # {}
  <2>1. ServiceState' = ServiceState /\ backlog' = backlog
    BY <1>1, <1>3, <1>5 DEF ServiceState, CloseTo
  <2>2. Session' = Session
    BY <1>4, <1>5 DEF Session
  <2>. QED
    BY <2>1, <2>2 DEF Same
<1>6. CASE Holders(f, Listen) = {}
  <2>1. server = "down"
    BY <1>0, <1>3, <1>6, ServerListens DEF Holders, Processes
  <2>2. ServiceState = "closing" /\ ServiceState' = "down" /\ backlog' = <<>>
    BY <1>1, <1>3, <1>6, <2>1 DEF ServiceState, CloseTo
  <2>3. Promise!Cut({"waiting"})
    BY <1>4, <1>6 DEF Promise!Cut
  <2>. QED
    BY <2>2, <2>3 DEF Promise!Close
<1>. QED
  BY <1>5, <1>6

\* A child that exits ends its own session, or leaves it in the hands of the
\* server that has not yet closed its copy of the connection.  If its client had
\* reset the connection, the session was over.
LEMMA ChildExitsStep ==
  ASSUME RInv, NEW c \in Conns, ChildExits(c)
  PROVE  Same \/ Promise!Finish(c)
<1>. USE NamesAssumption
<1>0. IInv /\ TypeOK /\ LiveTaken
  BY DEF RInv, IInv
<1>. DEFINE f == [fds EXCEPT ![c] = {}]
<1>1. CloseTo(f) /\ fds' = f /\ server' = server
  BY DEF ChildExits, CloseTo
<1>2. /\ c \in Live /\ Taken(c) /\ fds[c] = {c} /\ c # Listen
      /\ child'[c] \in {"zombie", "reaped"}
      /\ \A d \in Conns \ {c} : child'[d] = child[d]
  BY <1>0 DEF ChildExits, IInv, ChildDescriptors, Live, LiveTaken, TypeOK
<1>3. Live' = Live \ {c}
  BY <1>0 DEF ChildExits, Live, TypeOK
<1>4. /\ \A s \in Sockets \ {c} : Holders(f, s) = Holders(fds, s)
      /\ \A d \in Conns \ {c} : f[d] = fds[d]
      /\ f[c] = {}
  BY <1>0, <1>2 DEF TypeOK, Processes, Holders
<1>. HIDE DEF f
<1>5. ServiceState' = ServiceState /\ backlog' = backlog
  BY <1>1, <1>2, <1>4 DEF ServiceState, CloseTo, RInv, QueueHeld, Sockets
<1>6. ASSUME NEW d \in Conns, d # c
      PROVE  SessionState(d)' = SessionState(d)
  <2>1. d \in Live => d \in f[d]
    BY <1>0, <1>4, <1>6, LiveHolds
  <2>2. sock[d] = "accepted" => Holders(f, d) # {}
    BY <1>0, <1>4, <1>6 DEF IInv, AcceptedHeld, Taken, Sockets
  <2>3. sock[d] = "queued" => Holders(f, Listen) # {}
    BY <1>2, <1>4 DEF RInv, QueueHeld, Sockets
  <2>4. sock[d] \in {"none", "queued", "accepted", "reset", "timewait", "closed"}
    BY <1>0 DEF TypeOK
  <2>5. /\ d \in Live <=> d \in Live'
        /\ child'[d] = "none" <=> child[d] = "none"
    BY <1>2, <1>3, <1>6
  <2>. QED
    BY <1>0, <1>1, <2>1, <2>2, <2>3, <2>4, <2>5, CloseToSession
<1>7. sock[c] = "accepted" => SessionState(c) = "served"
  BY <1>0, <1>2, SessionStates
<1>8. CASE sock[c] = "accepted" /\ Holders(f, c) = {}
  <2>1. sock'[c] \in {"timewait", "closed"}
    BY <1>1, <1>2, <1>8 DEF CloseTo, SockAfter
  <2>2. SessionState(c)' = "over"
    BY <2>1 DEF SessionState
  <2>3. Session' = [Session EXCEPT ![c] = "over"]
    BY <1>6, <2>2 DEF Session
  <2>. QED
    BY <1>5, <1>7, <1>8, <2>3 DEF Promise!Finish, Session
<1>9. CASE sock[c] = "accepted" /\ Holders(f, c) # {}
  <2>1. sock'[c] = "accepted"
    BY <1>1, <1>2, <1>9 DEF CloseTo, SockAfter
  <2>2. SessionState(c)' = "finished"
    BY <1>2, <1>3, <2>1 DEF SessionState
  <2>3. c \in fds[Server]
    <3>1. PICK p \in Processes : c \in f[p]
      BY <1>9 DEF Holders
    <3>2. p \notin Conns
      BY <1>0, <1>4, <3>1 DEF IInv, ChildDescriptors, TypeOK
    <3>. QED
      BY <1>0, <1>1, <3>1, <3>2 DEF Processes, ChildExits, f, TypeOK
  <2>4. server \in {"fork", "parent"} /\ newSocket = c
    BY <1>0, <1>2, <2>3 DEF IInv, TypeOK, ServerDescriptors
  <2>5. ServiceState = "up"
    BY <2>4 DEF ServiceState
  <2>6. \A d \in Conns : SessionState(d) \notin {"taken", "finished"}
    BY <1>0, <1>2, <2>4, InHandIsNewSocket, SessionStates DEF Taken
  <2>7. Session' = [Session EXCEPT ![c] = "finished"]
    BY <1>6, <2>2 DEF Session
  <2>. QED
    BY <1>5, <1>7, <1>9, <2>5, <2>6, <2>7 DEF Promise!Finish, Promise!InHand, Session
<1>10. CASE sock[c] = "reset"
  <2>1. sock'[c] \in {"reset", "closed"}
    BY <1>1, <1>2, <1>10 DEF CloseTo, SockAfter
  <2>2. SessionState(c)' = SessionState(c)
    BY <1>10, <2>1 DEF SessionState
  <2>3. Session' = Session
    BY <1>6, <2>2 DEF Session
  <2>. QED
    BY <1>5, <2>3 DEF Same
<1>. QED
  BY <1>2, <1>8, <1>9, <1>10 DEF Taken

\* The kernel completes connections for a socket that anybody holds.
LEMMA ConnectStep ==
  ASSUME RInv, NEW c \in Conns, Connect(c)
  PROVE  Promise!Arrive(c)
<1>0. TypeOK
  BY DEF RInv, IInv
<1>1. ServiceState' = ServiceState /\ ServiceState # "down"
  BY DEF Connect, ServiceState
<1>2. SessionState(c) = "none"
  BY DEF Connect, SessionState
<1>3. Session' = [Session EXCEPT ![c] = "waiting"]
  BY <1>0 DEF Connect, Session, SessionState, Live, TypeOK
<1>. QED
  BY <1>1, <1>2, <1>3 DEF Promise!Arrive, Connect, Session

\* A client that closes and the end of TIME_WAIT change no session.
LEMMA KernelStep ==
  ASSUME RInv, NEW c \in Conns, PeerCloses(c) \/ TimeWaitExpires(c)
  PROVE  Same
<1>0. TypeOK
  BY DEF RInv, IInv
<1>1. /\ UNCHANGED <<server, child, fds, backlog>>
      /\ \A d \in Conns : \/ sock'[d] = sock[d]
                          \/ sock[d] = "timewait" /\ sock'[d] = "closed"
  BY <1>0 DEF PeerCloses, TimeWaitExpires, TypeOK
<1>2. \A d \in Conns : SessionState(d)' = SessionState(d)
  BY <1>1 DEF SessionState, Live
<1>3. ServiceState' = ServiceState
  BY <1>1 DEF ServiceState, Holders
<1>. QED
  BY <1>1, <1>2, <1>3 DEF Same, Session

\* A reset ends the session of a child, or one in the hands of the server.
LEMMA ResetStep ==
  ASSUME RInv, NEW c \in Conns, PeerResets(c)
  PROVE  Promise!Release(c) \/ Promise!Finish(c)
<1>0. IInv /\ TypeOK
  BY DEF RInv, IInv
<1>1. /\ UNCHANGED <<server, child, fds, backlog>>
      /\ sock[c] = "accepted" /\ sock' = [sock EXCEPT ![c] = "reset"]
  BY DEF PeerResets
<1>2. SessionState(c)' = "over" /\ \A d \in Conns \ {c} : SessionState(d)' = SessionState(d)
  BY <1>0, <1>1 DEF SessionState, Live, TypeOK
<1>3. Session' = [Session EXCEPT ![c] = "over"]
  BY <1>2 DEF Session
<1>4. ServiceState' = ServiceState
  BY <1>1 DEF ServiceState, Holders
<1>5. CASE c \in Live
  <2>1. SessionState(c) = "served"
    BY <1>0, <1>1, <1>5, SessionStates
  <2>. QED
    BY <1>1, <1>3, <1>4, <2>1 DEF Promise!Finish, Session
<1>6. CASE c \notin Live
  <2>1. server # "down"
    BY <1>0, <1>1, <1>6, InHandIsNewSocket DEF Taken
  <2>2. ServiceState = "up" /\ SessionState(c) \in {"taken", "finished"}
    BY <1>0, <1>1, <1>6, <2>1, SessionStates DEF ServiceState
  <2>. QED
    BY <1>1, <1>3, <1>4, <2>2 DEF Promise!Release, Promise!InHand, Session
<1>. QED
  BY <1>5, <1>6

\* All steps together.
LEMMA NextStep == RInv /\ [Next]_vars => Step
<1>. SUFFICES ASSUME RInv, [Next]_vars PROVE Step
  OBVIOUS
<1>1. CASE UNCHANGED vars
  BY <1>1 DEF vars, Step, ServiceState, Session, SessionState, Live, Holders
<1>2. CASE Next
  <2>1. \/ Same
        \/ Promise!Open \/ Promise!Take \/ Promise!Stop \/ Promise!Close
        \/ \E c \in Conns : \/ Promise!Arrive(c) \/ Promise!Serve(c)
                            \/ Promise!Release(c) \/ Promise!Finish(c)
    BY <1>2, StartStep, AcceptStep, ForkStep, ForkFailsStep, ParentClosesStep,
       ServerDiesStep, ClosesListenerStep, ChildExitsStep, ConnectStep, KernelStep,
       ResetStep
       DEF Next, ServerStep
  <2>. QED
    BY <2>1 DEF Step, Same, Promise!Next
<1>. QED
  BY <1>1, <1>2

\* The accept loop keeps the promise of Sessions for any number of connections,
\* any limit on processes and any queue, through failing forks, children that
\* outlive the server and restarts (secnet.cpp:23,401,427-455).
THEOREM PromiseCorrect == Spec => KeepsPromise
<1>1. RInv /\ [Next]_vars => [Promise!Next]_(Promise!sessionVars)
  BY NextStep DEF Step, Session, Promise!sessionVars
<1>. QED
  BY <1>1, PromiseInit, RInvariance, PTL DEF Spec, KeepsPromise, Promise!Spec

=============================================================================

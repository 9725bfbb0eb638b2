---------------------------- MODULE ShepooProofs ----------------------------
(***************************************************************************)
(* Proof that the children of one start of a server agree on which blocks  *)
(* there are, for every number of clients and requests, every block size   *)
(* and word width, and whatever becomes of the file.                       *)
(***************************************************************************)
EXTENDS Shepoo, ListenerProofs

\* What the child of connection c says to a check for block n.
Available(c, n) == Storage(c)!IsBlockAvailable(n)

\* The check is a matter of the inherited length and of nothing else.
LEMMA AvailableByLength ==
  ASSUME NEW c \in Conns, NEW d \in Conns, NEW n, length[c] = length[d]
  PROVE  Available(c, n) <=> Available(d, n)
BY DEF Available, Storage!IsBlockAvailable, Storage!uint64, Storage!ByteOffset

LEMMA AvailableKeeps ==
  ASSUME NEW c \in Conns, NEW n, length'[c] = length[c]
  PROVE  Available(c, n)' <=> Available(c, n)
BY DEF Available, Storage!IsBlockAvailable, Storage!uint64, Storage!ByteOffset

-----------------------------------------------------------------------------
(***************************************************************************)
(* The inductive invariant, above that of the accept loop.                 *)
(***************************************************************************)

Blocks == [0 .. (BLOCK_SIZE - 1) -> (Inodes \X Nat) \cup {Garbage}] \cup {NULL}

Types ==
  /\ path \in Inodes \cup {NoFile}
  /\ size \in [Inodes -> 0 .. MaxLength]
  /\ length \in [Processes -> 0 .. MaxLength]
  /\ life \in [Processes -> 0 .. MaxLives]
  /\ pc \in [Conns -> {"idle", "open", "lock", "read", "unlock", "returned"}]
  /\ num \in [Conns -> Nat]
  /\ fd \in [Conns -> Inodes \cup {NoFile}]
  /\ block \in [Conns -> Blocks]
  /\ wants \in [Conns -> Requests \cup {NULL}]
  /\ stage \in [Conns -> {"reading", "lines", "handler", "over"}]
  /\ told \in [Conns -> [cmd : {"BLOCK_ANSWER", "OK", "NOK"}, data : Blocks] \cup {NULL}]

\* All processes of one start have the length that its server has measured.
Descent ==
  /\ \A p \in Processes : life[p] <= life[Server]
  /\ server # "down" => life[Server] # 0
  /\ \A p, q \in Processes : life[p] # 0 /\ life[p] = life[q] => length[p] = length[q]
  /\ \A c \in Conns : child[c] # "none" => life[c] # 0

\* Before the fork there is nothing of a child.
NotYet ==
  \A c \in Conns :
    child[c] = "none" => told[c] = NULL /\ pc[c] = "idle" /\ stage[c] = "reading"

\* In the handler there is a request, and getBlock is called for it.
HasRequest ==
  \A c \in Conns :
    /\ stage[c] \in {"lines", "handler"} => wants[c] # NULL
    /\ pc[c] # "idle" =>
         wants[c] # NULL /\ wants[c].cmd = "READ_BLOCK" /\ num[c] = wants[c].num

\* getBlock returns a block if, and only if, the check has found it available.
GotBlock ==
  \A c \in Conns :
    /\ pc[c] \in {"idle", "open", "lock", "read"} => block[c] = NULL
    /\ pc[c] \in {"open", "lock", "read", "unlock"} => Available(c, num[c])
    /\ pc[c] = "unlock" => block[c] # NULL
    /\ pc[c] = "returned" => (block[c] # NULL <=> Available(c, num[c]))

\* Answers are those of the check.
ToldTruth ==
  \A c \in Conns : told[c] # NULL =>
    /\ child[c] # "none" /\ wants[c] # NULL
    /\ wants[c].cmd = "IS_BLOCK_AVAILABLE" =>
         (told[c].cmd = "OK" <=> Available(c, wants[c].num))
    /\ wants[c].cmd = "READ_BLOCK" =>
         (told[c].data # NULL <=> Available(c, wants[c].num))

SInv ==
  /\ IInv
  /\ Types
  /\ Descent
  /\ NotYet
  /\ HasRequest
  /\ GotBlock
  /\ ToldTruth

-----------------------------------------------------------------------------

LEMMA InitSInv == ShepooInit => SInv
<1>. SUFFICES ASSUME ShepooInit PROVE SInv
  OBVIOUS
<1>. USE DEF ShepooInit
<1>1. IInv
  BY InitInv
<1>2. Types
  <2>1. 0 \in 0 .. MaxLength /\ 0 \in 0 .. MaxLives
    BY LengthsAssumption, StorageAssumption
  <2>2. size \in [Inodes -> 0 .. MaxLength]
    BY LengthsAssumption
  <2>. QED
    BY <2>1, <2>2 DEF Types, Blocks
<1>3. Descent
  BY DEF Descent, Init, Processes
<1>4. NotYet /\ HasRequest /\ GotBlock /\ ToldTruth
  BY DEF NotYet, HasRequest, GotBlock, ToldTruth
<1>. QED
  BY <1>1, <1>2, <1>3, <1>4 DEF SInv

\* Every step of the server is a step of its accept loop, or none.
LEMMA ListenerStep == ShepooNext => [Next]_vars
<1>. SUFFICES ASSUME ShepooNext PROVE Next \/ UNCHANGED vars
  OBVIOUS
<1>1. CASE StartServer \/ RunServer \/ (ServerDies /\ UNCHANGED Inherited)
  BY <1>1 DEF StartServer, RunServer, ForkChild, Next, ServerStep
<1>2. CASE FileChanges
  BY <1>2 DEF FileChanges
<1>3. ASSUME NEW c \in Conns, StartChild(c) \/ RunChild(c) \/ ReadLines(c)
      PROVE  Next \/ UNCHANGED vars
  BY <1>3 DEF StartChild, RunChild, ReadLines, ReadRequest, ReadFails, CallGetBlock,
     RunGetBlock, AnswerRead, AnswerAvailable, Tells, ChildEnds, ChildAlone, Next
<1>4. ASSUME NEW c \in Conns,
             \/ ClientConnects(c)
             \/ (PeerCloses(c) \/ PeerResets(c)) /\ UNCHANGED Inherited
             \/ Expires(c)
      PROVE  Next \/ UNCHANGED vars
  BY <1>4 DEF ClientConnects, Expires, Next
<1>. QED
  BY <1>1, <1>2, <1>3, <1>4 DEF ShepooNext

\* What a step keeps that touches neither getBlock nor an answer, forks nobody
\* and starts no server.
LEMMA QuietStep ==
  ASSUME SInv, IInv',
         UNCHANGED <<pc, num, fd, block, length, life, wants, stage, told>>,
         \A c \in Conns : child'[c] = "none" <=> child[c] = "none",
         server' = server \/ server # "down",
         path' \in Inodes \cup {NoFile},
         size' \in [Inodes -> 0 .. MaxLength]
  PROVE  SInv'
<1>1. \A c \in Conns : \A n : Available(c, n)' <=> Available(c, n)
  BY AvailableKeeps
<1>2. Types'
  BY DEF SInv, Types
<1>3. Descent' /\ NotYet'
  BY DEF SInv, Descent, NotYet
<1>4. HasRequest' /\ GotBlock' /\ ToldTruth'
  BY <1>1 DEF SInv, HasRequest, GotBlock, ToldTruth
<1>. QED
  BY <1>2, <1>3, <1>4 DEF SInv

\* The steps of the accept loop, of clients and of other programs are quiet.
LEMMA LoopKeeps ==
  ASSUME SInv, IInv',
         UNCHANGED Inherited,
         \/ Accept \/ ForkFails \/ ParentCloses \/ ServerDies
         \/ \E c \in Conns : \/ ClosesListener(c) \/ ChildExits(c)
                             \/ PeerCloses(c) \/ PeerResets(c)
                             \/ TimeWaitExpires(c)
  PROVE  SInv'
<1>1. UNCHANGED <<path, size, pc, num, fd, block, length, life, wants, stage, told>>
  BY DEF Inherited, fileVars, getBlockVars, sessionVars
<1>2. \A c \in Conns : child'[c] = "none" <=> child[c] = "none"
  <2>1. DOMAIN child = Conns
    BY DEF SInv, IInv, TypeOK
  <2>2. CASE Accept \/ ForkFails \/ ParentCloses \/ ServerDies
    BY <2>1, <2>2 DEF Accept, ForkFails, ParentCloses, ServerDies
  <2>3. ASSUME NEW c \in Conns, ClosesListener(c) \/ ChildExits(c)
        PROVE  \A d \in Conns : child'[d] = "none" <=> child[d] = "none"
    BY <2>1, <2>3 DEF ClosesListener, ChildExits
  <2>4. ASSUME NEW c \in Conns,
               PeerCloses(c) \/ PeerResets(c) \/ TimeWaitExpires(c)
        PROVE  UNCHANGED child
    BY <2>4 DEF PeerCloses, PeerResets, TimeWaitExpires
  <2>. QED
    BY <2>2, <2>3, <2>4
<1>3. server' = server \/ server # "down"
  BY DEF Accept, ForkFails, ParentCloses, ServerDies, ClosesListener, ChildExits,
     PeerCloses, PeerResets, TimeWaitExpires
<1>. QED
  BY <1>1, <1>2, <1>3, QuietStep DEF SInv, Types

LEMMA FileChangesKeep ==
  ASSUME SInv, IInv', FileChanges
  PROVE  SInv'
<1>1. UNCHANGED <<child, server, length, life, wants, stage, told>>
  BY DEF FileChanges, vars, sessionVars
<1>2. UNCHANGED <<pc, num, fd, block>>
  BY DEF FileChanges, Storage!DeleteFile, Storage!InstallFile, Storage!ResizeFile,
     Storage!readerVars
<1>3. path' \in Inodes \cup {NoFile} /\ size' \in [Inodes -> 0 .. MaxLength]
  BY LengthsAssumption DEF FileChanges, Storage!DeleteFile, Storage!InstallFile,
     Storage!ResizeFile, SInv, Types
<1>. QED
  BY <1>1, <1>2, <1>3, QuietStep

\* Who starts the server anew starts a new life.
LEMMA StartKeepsS ==
  ASSUME SInv, IInv', StartServer
  PROVE  SInv'
<1>1. /\ UNCHANGED <<path, size, pc, num, fd, block, wants, stage, told, child>>
      /\ Server \in Processes /\ Conns \subseteq Processes
  BY DEF StartServer, Start, fileVars, getBlockVars, sessionVars, Processes
<1>2. Storage(Server)!StatSize \in 0 .. MaxLength
  BY StorageAssumption DEF Storage!StatSize, Storage!FileSize, SInv, Types
<1>3. /\ life' = [life EXCEPT ![Server] = life[Server] + 1]
      /\ life[Server] < MaxLives
      /\ length' = [length EXCEPT ![Server] = Storage(Server)!StatSize]
  BY DEF StartServer
<1>4. life \in [Processes -> 0 .. MaxLives] /\ length \in [Processes -> 0 .. MaxLength]
  BY DEF SInv, Types
<1>5. /\ life' \in [Processes -> 0 .. MaxLives]
      /\ length' \in [Processes -> 0 .. MaxLength]
  BY <1>1, <1>2, <1>3, <1>4, LengthsAssumption
<1>6. Types'
  BY <1>1, <1>5 DEF SInv, Types
<1>7. /\ \A c \in Conns : length'[c] = length[c] /\ life'[c] = life[c]
      /\ life'[Server] = life[Server] + 1
  BY <1>1, <1>3, <1>4, NamesAssumption
<1>8. Descent'
  <2>1. \A p \in Processes : life[p] \in Nat /\ life[p] <= life[Server]
    BY <1>4 DEF SInv, Descent
  <2>2. \A c \in Conns : life'[c] # life'[Server] /\ life'[c] <= life'[Server]
    BY <1>1, <1>7, <2>1
  <2>3. life'[Server] # 0
    BY <1>1, <1>7, <2>1
  <2>. QED
    BY <1>1, <1>7, <2>1, <2>2, <2>3 DEF SInv, Descent, Processes
<1>9. \A c \in Conns : \A n : Available(c, n)' <=> Available(c, n)
  BY <1>7, AvailableKeeps
<1>10. NotYet' /\ HasRequest' /\ GotBlock' /\ ToldTruth'
  BY <1>1, <1>9 DEF SInv, NotYet, HasRequest, GotBlock, ToldTruth
<1>. QED
  BY <1>6, <1>8, <1>10 DEF SInv

\* A fork hands the length down, to a child that has said nothing yet.
LEMMA ForkKeepsS ==
  ASSUME SInv, IInv', ForkChild
  PROVE  SInv'
<1>0. PICK c \in Conns : c = newSocket /\ child[c] = "none"
  BY DEF ForkChild, Fork, SInv, IInv, NewSocketSet
<1>1. /\ UNCHANGED <<path, size, pc, num, fd, block, wants, stage, told>>
      /\ Server \in Processes /\ c \in Processes /\ Server # c
      /\ server # "down"
  BY <1>0, NamesAssumption DEF ForkChild, Fork, fileVars, getBlockVars, sessionVars,
     Processes
<1>2. life \in [Processes -> 0 .. MaxLives] /\ length \in [Processes -> 0 .. MaxLength]
  BY DEF SInv, Types
<1>3. /\ life'[c] = life[Server] /\ length'[c] = length[Server]
      /\ \A p \in Processes \ {c} : life'[p] = life[p] /\ length'[p] = length[p]
      /\ life' \in [Processes -> 0 .. MaxLives]
      /\ length' \in [Processes -> 0 .. MaxLength]
  BY <1>0, <1>1, <1>2 DEF ForkChild
<1>4. \A d \in Conns : child'[d] = IF d = c THEN "forked" ELSE child[d]
  BY <1>0 DEF ForkChild, Fork, SInv, IInv, TypeOK
<1>5. Types'
  BY <1>1, <1>3 DEF SInv, Types
<1>6. Descent'
  <2>1. \A p \in Processes : life[p] \in Nat /\ life[p] <= life[Server]
    BY <1>2 DEF SInv, Descent
  <2>2. life[Server] # 0 /\ life'[Server] = life[Server]
    BY <1>1, <1>3 DEF SInv, Descent
  <2>3. \A p \in Processes : life'[p] <= life'[Server]
    BY <1>1, <1>3, <2>1, <2>2
  <2>4. \A p \in Processes : \E q \in Processes : life'[p] = life[q] /\ length'[p] = length[q]
    BY <1>1, <1>3
  <2>5. \A p, q \in Processes : life'[p] # 0 /\ life'[p] = life'[q] => length'[p] = length'[q]
    BY <2>4 DEF SInv, Descent
  <2>6. \A d \in Conns : child'[d] # "none" => life'[d] # 0
    BY <1>3, <1>4, <2>2 DEF SInv, Descent, Processes
  <2>. QED
    BY <2>2, <2>3, <2>5, <2>6 DEF Descent
<1>7. NotYet' /\ HasRequest'
  BY <1>0, <1>1, <1>4 DEF SInv, NotYet, HasRequest
<1>8. \A d \in Conns \ {c} : \A n : Available(d, n)' <=> Available(d, n)
  BY <1>3, AvailableKeeps DEF Processes
<1>9. told[c] = NULL /\ pc[c] = "idle"
  BY <1>0 DEF SInv, NotYet
<1>10. GotBlock'
  BY <1>1, <1>8, <1>9 DEF SInv, GotBlock
<1>11. ToldTruth'
  BY <1>1, <1>4, <1>8, <1>9 DEF SInv, ToldTruth
<1>. QED
  BY <1>5, <1>6, <1>7, <1>10, <1>11 DEF SInv

\* A client decides what it wants before its connection exists.
LEMMA ConnectsKeep ==
  ASSUME SInv, IInv', NEW c \in Conns, ClientConnects(c)
  PROVE  SInv'
<1>1. /\ UNCHANGED <<path, size, pc, num, fd, block, length, life, stage, told, child,
                      server>>
      /\ child[c] = "none"
  BY DEF ClientConnects, Connect, fileVars, getBlockVars, SInv, IInv, NoChildBeforeAccept
<1>2. /\ wants' \in [Conns -> Requests \cup {NULL}]
      /\ \A d \in Conns \ {c} : wants'[d] = wants[d]
  BY DEF ClientConnects, SInv, Types
<1>3. told[c] = NULL /\ pc[c] = "idle" /\ stage[c] = "reading"
  BY <1>1 DEF SInv, NotYet
<1>4. \A d \in Conns : \A n : Available(d, n)' <=> Available(d, n)
  BY <1>1, AvailableKeeps
<1>5. Types' /\ Descent' /\ NotYet'
  BY <1>1, <1>2 DEF SInv, Types, Descent, NotYet
<1>6. HasRequest'
  BY <1>1, <1>2, <1>3 DEF SInv, HasRequest
<1>7. GotBlock'
  BY <1>1, <1>4 DEF SInv, GotBlock
<1>8. ToldTruth'
  BY <1>1, <1>2, <1>3, <1>4 DEF SInv, ToldTruth
<1>. QED
  BY <1>5, <1>6, <1>7, <1>8 DEF SInv

\* What no step within a child changes.
LEMMA AloneKeeps ==
  ASSUME SInv, ChildAlone
  PROVE  /\ UNCHANGED <<path, size, length, life, wants, child, server>>
         /\ Descent'
         /\ \A d \in Conns : \A n : Available(d, n)' <=> Available(d, n)
<1>1. UNCHANGED <<path, size, length, life, wants, child, server>>
  BY DEF ChildAlone, vars, fileVars
<1>. QED
  BY <1>1, AvailableKeeps DEF SInv, Descent

\* Reading the request and its lines, or failing to.
LEMMA ReadingKeeps ==
  ASSUME SInv, IInv', NEW c \in Conns,
         ReadRequest(c) \/ ReadFails(c) \/ ReadLines(c)
  PROVE  SInv'
<1>1. /\ ChildAlone
      /\ UNCHANGED <<pc, num, fd, block, told>>
      /\ child[c] = "serving"
      /\ \E st \in {"lines", "handler", "over"} :
           /\ stage' = [stage EXCEPT ![c] = st]
           /\ st # "over" => wants[c] # NULL
  BY DEF ReadRequest, ReadFails, ReadLines, Goto, getBlockVars, Serves, SInv, HasRequest
<1>2. Types'
  BY <1>1, AloneKeeps DEF SInv, Types
<1>3. NotYet' /\ HasRequest'
  BY <1>1, AloneKeeps DEF SInv, NotYet, HasRequest, Types
<1>4. GotBlock' /\ ToldTruth'
  BY <1>1, AloneKeeps DEF SInv, GotBlock, ToldTruth
<1>. QED
  BY <1>1, <1>2, <1>3, <1>4, AloneKeeps DEF SInv

\* The check decides whether there will be a block.
LEMMA CallKeeps ==
  ASSUME SInv, IInv', NEW c \in Conns, CallGetBlock(c)
  PROVE  SInv'
<1>0. wants[c] # NULL /\ wants[c].cmd = "READ_BLOCK" /\ wants[c].num \in Nat
  BY RequestAssumption, StorageAssumption
     DEF CallGetBlock, Asks, Serves, SInv, HasRequest, Types
<1>1. /\ ChildAlone
      /\ UNCHANGED <<fd, block, stage, told>>
      /\ child[c] = "serving"
      /\ pc[c] = "idle"
      /\ num' = [num EXCEPT ![c] = wants[c].num]
      /\ \/ Available(c, wants[c].num) /\ pc' = [pc EXCEPT ![c] = "open"]
         \/ ~Available(c, wants[c].num) /\ pc' = [pc EXCEPT ![c] = "returned"]
  BY DEF CallGetBlock, Asks, Serves, Storage!CallAvailable, Storage!CallUnavailable,
     Storage!Goto, Available
<1>2. Types'
  BY <1>0, <1>1, AloneKeeps DEF SInv, Types
<1>3. NotYet' /\ HasRequest'
  BY <1>0, <1>1, AloneKeeps DEF SInv, NotYet, HasRequest, Types
<1>4. \A d \in Conns \ {c} : pc'[d] = pc[d] /\ num'[d] = num[d]
  BY <1>1 DEF SInv, Types
<1>5. /\ num'[c] = wants[c].num /\ block[c] = NULL /\ pc'[c] \in {"open", "returned"}
      /\ pc'[c] = "open" <=> Available(c, wants[c].num)
  BY <1>1 DEF SInv, Types, GotBlock
<1>6. GotBlock'
  <2>1. \A d \in Conns : block'[d] = block[d]
    BY <1>1
  <2>. QED
    BY <1>1, <1>4, <1>5, <2>1, AloneKeeps DEF SInv, GotBlock
<1>7. ToldTruth'
  BY <1>1, AloneKeeps DEF SInv, ToldTruth
<1>. QED
  BY <1>1, <1>2, <1>3, <1>6, <1>7, AloneKeeps DEF SInv

\* read() fills a buffer of BLOCK_SIZE bytes, which is not the null pointer.
LEMMA BufferIsBlock ==
  ASSUME SInv, NEW c \in Conns
  PROVE  LET b == Storage(c)!ReadBuffer(fd[c], Storage(c)!SeekOffset(num[c]))
         IN  b \in Blocks /\ b # NULL
<1>. DEFINE o == Storage(c)!SeekOffset(num[c])
            b == Storage(c)!ReadBuffer(fd[c], o)
<1>1. num[c] * BLOCK_SIZE \in Nat
  BY StorageAssumption DEF SInv, Types
<1>2. o \in Nat
  BY <1>1, StorageAssumption DEF Storage!SeekOffset, Storage!ByteOffset, Storage!uint64
<1>3. ASSUME NEW k \in 0 .. (BLOCK_SIZE - 1), o + k < Storage(c)!FileSize(fd[c])
      PROVE  <<fd[c], o + k>> \in Inodes \X Nat
  BY <1>2, <1>3, StorageAssumption DEF Storage!FileSize, SInv, Types
<1>. HIDE DEF o
<1>4. b \in [0 .. (BLOCK_SIZE - 1) -> (Inodes \X Nat) \cup {Garbage}]
  BY <1>3 DEF Storage!ReadBuffer, Storage!Offsets
<1>. QED
  BY <1>4, StorageAssumption DEF Blocks, o

\* So does a read() that fails.
LEMMA CutIsBlock ==
  ASSUME SInv, NEW c \in Conns, NEW n
  PROVE  LET b == Storage(c)!CutBuffer(fd[c], Storage(c)!SeekOffset(num[c]), n)
         IN  b \in Blocks /\ b # NULL
<1>. DEFINE o == Storage(c)!SeekOffset(num[c])
            a == Storage(c)!ReadBuffer(fd[c], o)
            b == Storage(c)!CutBuffer(fd[c], o, n)
<1>1. a \in [0 .. (BLOCK_SIZE - 1) -> (Inodes \X Nat) \cup {Garbage}]
  BY BufferIsBlock DEF Blocks
<1>. HIDE DEF o
<1>2. \A k \in 0 .. (BLOCK_SIZE - 1) : a[k] \in (Inodes \X Nat) \cup {Garbage}
  BY <1>1
<1>. HIDE DEF a
<1>3. b = [k \in 0 .. (BLOCK_SIZE - 1) |-> IF k < n THEN a[k] ELSE Garbage]
  BY DEF Storage!CutBuffer, Storage!Offsets, a
<1>4. b \in [0 .. (BLOCK_SIZE - 1) -> (Inodes \X Nat) \cup {Garbage}]
  BY <1>2, <1>3
<1>. QED
  BY <1>4, StorageAssumption DEF Blocks, o

LEMMA GetBlockKeeps ==
  ASSUME SInv, IInv', NEW c \in Conns, RunGetBlock(c)
  PROVE  SInv'
<1>1. /\ ChildAlone
      /\ UNCHANGED <<num, stage, told>>
      /\ child[c] = "serving"
      /\ \/ /\ pc[c] = "open" /\ pc' = [pc EXCEPT ![c] = "lock"]
            /\ fd' = [fd EXCEPT ![c] = path] \/ fd' = fd
            /\ block' = block
         \/ /\ pc[c] = "lock" /\ pc' = [pc EXCEPT ![c] = "read"]
            /\ fd' = fd /\ block' = block
         \/ /\ pc[c] = "read" /\ pc' = [pc EXCEPT ![c] = "unlock"]
            /\ fd' = fd
            /\ \E b \in Blocks \ {NULL} : block' = [block EXCEPT ![c] = b]
         \/ /\ pc[c] = "unlock" /\ pc' = [pc EXCEPT ![c] = "returned"]
            /\ fd' = [fd EXCEPT ![c] = NoFile] /\ block' = block
  BY BufferIsBlock, CutIsBlock DEF RunGetBlock, Serves, Storage!GetBlockStep,
     Storage!OpenFile, Storage!OpenFails, Storage!LockBlock, Storage!ReadBlock,
     Storage!ReadFails, Storage!CloseFile, Storage!Goto
<1>2. Types'
  BY <1>1, AloneKeeps DEF SInv, Types
<1>3. NotYet' /\ HasRequest'
  BY <1>1, AloneKeeps DEF SInv, NotYet, HasRequest, Types
<1>4. \A d \in Conns \ {c} : pc'[d] = pc[d] /\ block'[d] = block[d]
  BY <1>1 DEF SInv, Types
<1>5. GotBlock'
  <2>1. \A d \in Conns : num'[d] = num[d]
    BY <1>1
  <2>2. /\ pc'[c] \in {"lock", "read", "unlock", "returned"}
        /\ Available(c, num[c])
        /\ pc'[c] \in {"lock", "read"} => block'[c] = NULL
        /\ pc'[c] \in {"unlock", "returned"} => block'[c] # NULL
    BY <1>1 DEF SInv, Types, GotBlock
  <2>. QED
    BY <1>1, <1>4, <2>1, <2>2, AloneKeeps DEF SInv, GotBlock
<1>6. ToldTruth'
  BY <1>1, AloneKeeps DEF SInv, ToldTruth
<1>. QED
  BY <1>1, <1>2, <1>3, <1>5, <1>6, AloneKeeps DEF SInv

\* The answers.
LEMMA AnswersKeep ==
  ASSUME SInv, IInv', NEW c \in Conns, AnswerRead(c) \/ AnswerAvailable(c)
  PROVE  SInv'
<1>1. PICK a : Tells(c, a) /\
        \/ /\ AnswerRead(c)
           /\ a = [cmd |-> "BLOCK_ANSWER", data |-> block[c]]
        \/ /\ AnswerAvailable(c)
           /\ a = [cmd |-> IF Available(c, wants[c].num) THEN "OK" ELSE "NOK",
                   data |-> NULL]
  BY DEF AnswerRead, AnswerAvailable, Reply, Available
<1>2. /\ ChildAlone
      /\ UNCHANGED <<pc, num, fd, block>>
      /\ stage' = [stage EXCEPT ![c] = "over"]
      /\ told' = told \/ told' = [told EXCEPT ![c] = a]
  BY <1>1 DEF Tells, Goto, getBlockVars
<1>3. /\ child[c] = "serving" /\ wants[c] # NULL
      /\ a \in [cmd : {"BLOCK_ANSWER", "OK", "NOK"}, data : Blocks]
  BY <1>1 DEF AnswerRead, AnswerAvailable, Asks, Serves, SInv, HasRequest, Types, Blocks
<1>4. /\ wants[c].cmd = "IS_BLOCK_AVAILABLE" =>
           (a.cmd = "OK" <=> Available(c, wants[c].num))
      /\ wants[c].cmd = "READ_BLOCK" =>
           (a.data # NULL <=> Available(c, wants[c].num))
  <2>1. CASE AnswerRead(c) /\ a = [cmd |-> "BLOCK_ANSWER", data |-> block[c]]
    <3>1. pc[c] = "returned" /\ wants[c].cmd = "READ_BLOCK"
      BY <2>1 DEF AnswerRead, Asks
    <3>2. num[c] = wants[c].num
      BY <3>1 DEF SInv, HasRequest
    <3>. QED
      BY <2>1, <3>1, <3>2 DEF SInv, GotBlock
  <2>2. CASE /\ AnswerAvailable(c)
             /\ a = [cmd |-> IF Available(c, wants[c].num) THEN "OK" ELSE "NOK",
                     data |-> NULL]
    BY <2>2 DEF AnswerAvailable, Asks
  <2>. QED
    BY <1>1, <2>1, <2>2
<1>5. Types'
  BY <1>2, <1>3, AloneKeeps DEF SInv, Types
<1>6. NotYet' /\ HasRequest'
  BY <1>2, <1>3, AloneKeeps DEF SInv, NotYet, HasRequest, Types
<1>7. GotBlock'
  BY <1>2, AloneKeeps DEF SInv, GotBlock
<1>8. ToldTruth'
  BY <1>2, <1>3, <1>4, AloneKeeps DEF SInv, ToldTruth, Types
<1>. QED
  BY <1>2, <1>5, <1>6, <1>7, <1>8, AloneKeeps DEF SInv

LEMMA NextSInv == SInv /\ [ShepooNext]_shepooVars => SInv'
<1>. SUFFICES ASSUME SInv, [ShepooNext]_shepooVars PROVE SInv'
  OBVIOUS
<1>1. CASE UNCHANGED shepooVars
  <2>1. /\ UNCHANGED vars
        /\ UNCHANGED <<path, size, pc, num, fd, block, length, life, wants, stage, told>>
    BY <1>1 DEF shepooVars, fileVars, getBlockVars, sessionVars
  <2>2. IInv'
    BY <2>1, NextInv DEF SInv
  <2>. QED
    BY <2>1, <2>2, QuietStep DEF vars, SInv, Types
<1>2. CASE ShepooNext
  <2>1. IInv'
    BY <1>2, ListenerStep, NextInv DEF SInv
  <2>2. CASE StartServer \/ FileChanges
    BY <2>1, <2>2, StartKeepsS, FileChangesKeep
  <2>3. CASE RunServer \/ (ServerDies /\ UNCHANGED Inherited)
    BY <2>1, <2>3, ForkKeepsS, LoopKeeps DEF RunServer
  <2>4. ASSUME NEW c \in Conns, StartChild(c) \/ RunChild(c) \/ ReadLines(c)
        PROVE  SInv'
    BY <2>1, <2>4, ReadingKeeps, CallKeeps, GetBlockKeeps, AnswersKeep, LoopKeeps
       DEF StartChild, RunChild, ChildEnds
  <2>5. ASSUME NEW c \in Conns,
               \/ ClientConnects(c)
               \/ (PeerCloses(c) \/ PeerResets(c)) /\ UNCHANGED Inherited
               \/ Expires(c)
        PROVE  SInv'
    BY <2>1, <2>5, ConnectsKeep, LoopKeeps DEF Expires
  <2>. QED
    BY <1>2, <2>2, <2>3, <2>4, <2>5 DEF ShepooNext
<1>. QED
  BY <1>1, <1>2

-----------------------------------------------------------------------------
(***************************************************************************)
(* The theorems.                                                           *)
(***************************************************************************)

\* The strengthened invariant holds in every reachable state.
THEOREM ShepooInvariance == ShepooSpec => []SInv
  BY InitSInv, NextSInv, PTL DEF ShepooSpec

\* The processes, their lengths and their answers keep their types, for any
\* number of clients, requests and starts of the server.
THEOREM ShepooTypeCorrect == ShepooSpec => []ShepooTypeOK
<1>1. SInv => ShepooTypeOK
  BY DEF SInv, IInv, Types, ToldTruth, ShepooTypeOK
<1>. QED
  BY <1>1, ShepooInvariance, PTL

\* What one child says of a block binds every child of the same start, for any
\* number of clients, any blocks and whatever happens to the file
\* (blockstorage.cpp:16,25,50, secnet.cpp:437).
THEOREM PromiseKeptCorrect == ShepooSpec => []PromiseKept
<1>1. SInv => PromiseKept
  <2>. SUFFICES ASSUME SInv, NEW c \in Conns, NEW d \in Conns,
                       told[c] # NULL, told[d] # NULL,
                       wants[c].cmd = "IS_BLOCK_AVAILABLE", wants[d].cmd = "READ_BLOCK",
                       wants[c].num = wants[d].num, life[c] = life[d]
                PROVE  told[c].cmd = "OK" <=> told[d].data # NULL
    BY DEF PromiseKept
  <2>1. child[c] # "none" /\ life[c] # 0
    BY DEF SInv, ToldTruth, Descent
  <2>2. length[c] = length[d]
    BY <2>1 DEF SInv, Descent, Processes
  <2>3. Available(c, wants[c].num) <=> Available(d, wants[d].num)
    BY <2>2, AvailableByLength
  <2>. QED
    BY <2>3 DEF SInv, ToldTruth
<1>. QED
  BY <1>1, ShepooInvariance, PTL

=============================================================================

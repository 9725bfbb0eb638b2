---------------------------- MODULE StartupProofs ----------------------------
(***************************************************************************)
(* Proofs for module Startup, for every command line, every start          *)
(* directory, whatever calls fail, and any number of connections:          *)
(*   - the server opens the files that its user meant (PInv);              *)
(*   - there is always a free descriptor, and nobody holds a connection    *)
(*     but the server, for a moment, and its child (DInv);                 *)
(*   - the log goes where it should (LogInv);                              *)
(*   - and to one client at most where it should not (LeakInv).            *)
(***************************************************************************)
EXTENDS Startup, FiniteSetTheorems, WellFoundedInduction, TLAPS

\* The number of options that have been read.
Done == Len(line) - Len(argv)

\* What is left of the command line is its end.
Rest ==
  /\ argv \in Seq({line[i] : i \in DOMAIN line})
  /\ Len(argv) <= Len(line)
  /\ \A i \in 1 .. Len(argv) : argv[i] = line[Done + i]

\* The i-th option is the last one of its name among the first n.
IsLast(i, o, n) ==
  /\ i \in 1 .. n
  /\ line[i].name = o
  /\ \A j \in i + 1 .. n : line[j].name # o

\* A file name is that of the last option so far, if there is one.
LastCounts ==
  \A o \in PathOptions :
    \/ opts[o] = NULL /\ \A i \in 1 .. Done : line[i].name # o
    \/ \E i \in 1 .. Done : IsLast(i, o, Done) /\ opts[o] = line[i].value

\* Completed names are those that the user meant, and none is relative.
Completed ==
  /\ startDir # "removed" =>
       \A o \in PathOptions :
         opts[o] # NULL => opts[o] = Meant(o) /\ opts[o][1] # "rel"
  /\ \A o \in PathOptions : opts[o] = NULL => ~Given(o)
  /\ \A f \in {"cert", "key", "dh"} : opts[f] # NULL

\* Where no connection has been accepted.
BeforeAccept == {"options", "daemonize", "openLog", "session", "closeStd", "storage",
                 "tls", "socket", "exited"}

Phase ==
  /\ pc = "options" => Rest /\ LastCounts /\ cwd = startDir
  /\ pc \in BeforeAccept => \A c \in Conns : child[c] = "none"
  /\ pc \notin {"options", "exited"} => Completed

PInv ==
  /\ line \in CommandLines
  /\ startDir \in StartDirs
  /\ DOMAIN opts = PathOptions \cup Flags
  /\ Phase
  /\ PathsKept

-----------------------------------------------------------------------------

LEMMA InitPInv == Init => PInv
<1>. SUFFICES ASSUME Init PROVE PInv
  OBVIOUS
<1>1. line \in Seq({line[i] : i \in DOMAIN line})
  BY OptionAssumption DEF Init
<1>2. Len(line) \in Nat /\ Done = 0 /\ Rest
  BY <1>1 DEF Init, Rest, Done
<1>3. DOMAIN opts = PathOptions \cup Flags /\ \A o \in PathOptions : opts[o] = NULL
  BY DEF Init
<1>. QED
  BY <1>2, <1>3 DEF Init, PInv, Phase, BeforeAccept, LastCounts, PathsKept

\* There is one last option of a name, and Meant completes its value.
LEMMA MeantIsLast ==
  ASSUME line \in Seq({line[i] : i \in DOMAIN line}),
         NEW o \in PathOptions, NEW i \in 1 .. Len(line), IsLast(i, o, Len(line))
  PROVE  Meant(o) = IF line[i].value[1] = "rel" THEN <<startDir, line[i].value[2]>>
                    ELSE line[i].value
<1>1. Len(line) \in Nat
  OBVIOUS
<1>2. ASSUME NEW k \in 1 .. Len(line), line[k].name = o,
             \A j \in k + 1 .. Len(line) : line[j].name # o
      PROVE  k = i
  <2>1. k < i => i \in k + 1 .. Len(line)
    BY <1>1
  <2>2. i < k => k \in i + 1 .. Len(line)
    BY <1>1
  <2>. QED
    BY <1>1, <1>2, <2>1, <2>2 DEF IsLast
<1>3. LastPlace(o) = i
  BY <1>2 DEF LastPlace, IsLast
<1>. QED
  BY <1>3 DEF Meant

\* The command line and the start directory say what is meant.
LEMMA MeantKept ==
  ASSUME line' = line, startDir' = startDir
  PROVE  /\ \A o : Meant(o)' = Meant(o)
         /\ \A o : Given(o)' = Given(o)
<1>1. \A o : LastPlace(o)' = LastPlace(o)
  BY DEF LastPlace
<1>. QED
  BY <1>1 DEF Meant, Given

\* An option that has been read replaces what was there of its name.
LEMMA ParseKeeps ==
  ASSUME PInv, ParseOption
  PROVE  PInv'
<1>. DEFINE o == Head(argv)
            n == Done + 1
<1>0. line \in Seq({line[i] : i \in DOMAIN line})
  BY OptionAssumption DEF PInv
<1>1. /\ pc = "options" /\ argv # <<>> /\ argv' = Tail(argv)
      /\ UNCHANGED <<startDir, line, cwd, opened, child>>
      /\ pc' \in {"options", "exited"}
      /\ opts' = IF o.name \in DOMAIN opts
                   THEN [opts EXCEPT ![o.name] = o.value] ELSE opts
  BY DEF ParseOption
<1>2. /\ Rest /\ LastCounts /\ cwd = startDir
      /\ \A c \in Conns : child[c] = "none"
  BY <1>1 DEF PInv, Phase, BeforeAccept
<1>3. /\ Len(line) \in Nat /\ Len(argv) \in Nat \ {0}
      /\ o = argv[1]
      /\ Len(argv') = Len(argv) - 1
      /\ \A i \in 1 .. Len(argv') : argv'[i] = argv[i + 1]
      /\ argv' \in Seq({line[i] : i \in DOMAIN line})
  BY <1>0, <1>1, <1>2 DEF Rest
<1>. HIDE DEF o
<1>4. /\ Done \in Nat /\ n = Done + 1 /\ n \in 1 .. Len(line) /\ Done' = n
      /\ o = line[n] /\ Len(argv) + Done = Len(line)
  BY <1>1, <1>2, <1>3 DEF Done, Rest
<1>. HIDE DEF n
<1>5. Rest'
  <2>1. ASSUME NEW i \in 1 .. Len(argv')
        PROVE  argv'[i] = line[n + i]
    <3>1. i + 1 \in 1 .. Len(argv) /\ Done + (i + 1) = n + i
      <4>1. i \in Nat /\ i >= 1 /\ i <= Len(argv) - 1 /\ Len(argv) \in Nat
        BY <1>3
      <4>2. Done \in Nat /\ n = Done + 1
        BY <1>4
      <4>. QED
        BY <4>1, <4>2
    <3>. QED
      BY <1>2, <1>3, <3>1 DEF Rest
  <2>2. Len(argv') <= Len(line)
    BY <1>2, <1>3 DEF Rest
  <2>. QED
    BY <1>1, <1>3, <1>4, <2>1, <2>2 DEF Rest
<1>6. DOMAIN opts' = PathOptions \cup Flags
  BY <1>1 DEF PInv
<1>7. LastCounts'
  <2>. SUFFICES ASSUME NEW p \in PathOptions
                PROVE  \/ opts'[p] = NULL /\ \A i \in 1 .. n : line[i].name # p
                       \/ \E i \in 1 .. n : IsLast(i, p, n) /\ opts'[p] = line[i].value
    BY <1>1, <1>4 DEF LastCounts, IsLast
  <2>1. CASE p = o.name
    <3>1. opts'[p] = line[n].value
      BY <1>1, <1>4, <2>1 DEF PInv
    <3>2. IsLast(n, p, n) /\ n \in 1 .. n
      BY <1>3, <1>4, <2>1 DEF IsLast
    <3>. QED
      BY <3>1, <3>2
  <2>2. CASE p # o.name
    <3>1. opts'[p] = opts[p]
      BY <1>1, <2>2 DEF PInv
    <3>2. CASE opts[p] = NULL /\ \A i \in 1 .. Done : line[i].name # p
      <4>1. \A i \in 1 .. n : i = n \/ i \in 1 .. Done
        BY <1>4
      <4>. QED
        BY <1>4, <2>2, <3>1, <3>2, <4>1
    <3>3. ASSUME NEW i \in 1 .. Done, IsLast(i, p, Done), opts[p] = line[i].value
          PROVE  IsLast(i, p, n) /\ i \in 1 .. n
      <4>1. i \in 1 .. n /\ \A j \in i + 1 .. n : j = n \/ j \in i + 1 .. Done
        BY <1>4
      <4>. QED
        BY <1>4, <2>2, <3>3, <4>1 DEF IsLast
    <3>. QED
      BY <1>2, <3>1, <3>2, <3>3 DEF LastCounts
  <2>. QED
    BY <2>1, <2>2
<1>8. PathsKept'
  BY <1>1, MeantKept DEF PInv, PathsKept
<1>. QED
  BY <1>1, <1>2, <1>5, <1>6, <1>7, <1>8 DEF PInv, Phase, BeforeAccept

\* A name is completed once, before the directory changes.
LEMMA CompleteKeeps ==
  ASSUME PInv, CompletePaths
  PROVE  PInv'
<1>0. line \in Seq({line[i] : i \in DOMAIN line}) /\ Len(line) \in Nat
  BY OptionAssumption DEF PInv
<1>1. /\ pc = "options" /\ argv = <<>>
      /\ UNCHANGED <<startDir, line, argv, cwd, opened, child>>
      /\ \/ MissingArguments(opts) /\ pc' = "exited" /\ opts' = opts
         \/ /\ ~MissingArguments(opts) /\ pc' \in {"daemonize", "storage"}
            /\ opts' = [o \in DOMAIN opts |->
                          IF o \in PathOptions THEN Complete(opts[o]) ELSE opts[o]]
  BY DEF CompletePaths
<1>2. /\ LastCounts /\ cwd = startDir /\ Done = Len(line)
      /\ \A c \in Conns : child[c] = "none"
      /\ DOMAIN opts = PathOptions \cup Flags
  BY <1>0, <1>1 DEF PInv, Phase, BeforeAccept, Done
<1>3. PathsKept'
  BY <1>1, MeantKept DEF PInv, PathsKept
<1>4. CASE MissingArguments(opts) /\ pc' = "exited" /\ opts' = opts
  BY <1>1, <1>2, <1>3, <1>4 DEF PInv, Phase
<1>5. CASE /\ ~MissingArguments(opts) /\ pc' \in {"daemonize", "storage"}
           /\ opts' = [o \in DOMAIN opts |->
                         IF o \in PathOptions THEN Complete(opts[o]) ELSE opts[o]]
  <2>1. \A o \in PathOptions : opts'[o] = Complete(opts[o])
    BY <1>2, <1>5
  <2>5. \A o \in PathOptions : opts[o] # NULL <=> Complete(opts[o]) # NULL
    <3>. SUFFICES ASSUME NEW o \in PathOptions, opts[o] # NULL, opts[o][1] = "rel"
                  PROVE  <<Getcwd, opts[o][2]>> # NULL
      BY DEF Complete
    <3>1. PICK i \in 1 .. Len(line) : line[i].name = o /\ opts[o] = line[i].value
      BY <1>2 DEF LastCounts, IsLast
    <3>2. i \in DOMAIN line
      BY <1>0
    <3>3. Getcwd \in StartDirs \cup {"garbage"} /\ line \in CommandLines
      BY <1>2 DEF PInv, Getcwd
    <3>. QED
      BY <3>1, <3>2, <3>3, DirAssumption
  <2>2. \A f \in {"cert", "key", "dh"} : opts'[f] # NULL
    <3>1. \A f \in {"cert", "key", "dh"} : f \in PathOptions /\ opts[f] # NULL
      BY <1>5 DEF MissingArguments, MissingTls, PathOptions
    <3>. QED
      BY <2>1, <2>5, <3>1
  <2>3. ASSUME startDir # "removed", NEW o \in PathOptions, opts'[o] # NULL
        PROVE  opts'[o] = Meant(o) /\ opts'[o][1] # "rel"
    <3>1. opts[o] # NULL /\ startDir # "rel"
      BY <2>1, <2>3, <2>5, DirAssumption DEF PInv
    <3>2. PICK i \in 1 .. Len(line) : IsLast(i, o, Len(line)) /\ opts[o] = line[i].value
      BY <1>2, <3>1 DEF LastCounts
    <3>3. Meant(o) = IF opts[o][1] = "rel" THEN <<startDir, opts[o][2]>> ELSE opts[o]
      BY <1>0, <3>2, MeantIsLast
    <3>4. opts'[o] = IF opts[o][1] = "rel" THEN <<startDir, opts[o][2]>> ELSE opts[o]
      BY <1>2, <2>1, <2>3, <3>1 DEF Complete, Getcwd
    <3>. QED
      BY <3>1, <3>3, <3>4
  <2>6. \A o \in PathOptions : opts'[o] = NULL => ~Given(o)
    <3>. SUFFICES ASSUME NEW o \in PathOptions, opts[o] = NULL PROVE ~Given(o)
      BY <2>1, <2>5
    <3>1. \A i \in 1 .. Len(line) :
            line[i].name = o => i \in DOMAIN line /\ line[i].value # NULL
      BY <1>0, OptionAssumption DEF PInv
    <3>. QED
      BY <1>2, <3>1 DEF LastCounts, Given, IsLast
  <2>4. Completed'
    BY <1>1, <2>2, <2>3, <2>6, MeantKept DEF Completed
  <2>. QED
    BY <1>1, <1>2, <1>3, <1>5, <2>4 DEF PInv, Phase
<1>. QED
  BY <1>1, <1>4, <1>5

\* From then on a name means the same file wherever it is used.
LEMMA ResolveMeant ==
  ASSUME Completed, startDir # "removed", NEW o \in PathOptions, opts[o] # NULL
  PROVE  Resolve(opts[o]) = Meant(o)
BY DEF Completed, Resolve

\* Steps after that keep the names, and open files under them only.
LEMMA OpeningKeeps ==
  ASSUME PInv, Completed, UNCHANGED argVars,
         pc' \in BeforeAccept => \A c \in Conns : child'[c] = "none",
         pc' # "options",
         \A f \in opened' :
           f \in opened \/ \E o \in PathOptions : opts[o] # NULL /\ f = <<o, Resolve(opts[o])>>
  PROVE  PInv'
<1>1. UNCHANGED <<startDir, line, argv, opts>>
  BY DEF argVars
<1>2. /\ \A o : Meant(o)' = Meant(o)
      /\ \A o : Given(o)' = Given(o)
  BY <1>1, MeantKept
<1>3. Completed'
  BY <1>1, <1>2 DEF Completed
<1>4. PathsKept'
  BY <1>1, <1>2, ResolveMeant DEF PInv, PathsKept
<1>5. Phase'
  BY <1>3 DEF Phase
<1>. QED
  BY <1>1, <1>4, <1>5 DEF PInv

LEMMA NextPInv == PInv /\ [Next]_vars => PInv'
<1>. SUFFICES ASSUME PInv, [Next]_vars PROVE PInv'
  OBVIOUS
<1>1. CASE UNCHANGED vars
  <2>1. UNCHANGED <<startDir, line, argv, opts, pc, cwd, child, opened>>
    BY <1>1 DEF vars, argVars
  <2>2. /\ \A o : Meant(o)' = Meant(o)
        /\ \A o : Given(o)' = Given(o)
    BY <2>1, MeantKept
  <2>3. Rest' = Rest /\ LastCounts' = LastCounts
    BY <2>1 DEF Done, Rest, LastCounts, IsLast
  <2>4. Completed' = Completed /\ PathsKept' = PathsKept
    BY <2>1, <2>2 DEF Completed, PathsKept
  <2>. QED
    BY <2>1, <2>3, <2>4 DEF PInv, Phase
<1>2. CASE ParseOption \/ CompletePaths
  BY <1>2, ParseKeeps, CompleteKeeps
<1>3. CASE ForkDaemon
  BY <1>3, OpeningKeeps DEF ForkDaemon, PInv, Phase, BeforeAccept
<1>4. CASE OpenLog
  <2>1. "log" \in PathOptions
    BY DEF PathOptions
  <2>. QED
    BY <1>4, <2>1, OpeningKeeps DEF OpenLog, PInv, Phase, BeforeAccept
<1>5. CASE NewSession \/ CloseStd
  BY <1>5, OpeningKeeps DEF NewSession, CloseStd, PInv, Phase, BeforeAccept
<1>6. CASE MeasureFile
  <2>1. "block" \in PathOptions
    BY DEF PathOptions
  <2>. QED
    BY <1>6, <2>1, OpeningKeeps DEF MeasureFile, PInv, Phase, BeforeAccept
<1>7. CASE LoadTls
  <2>1. {"cert", "key", "dh"} \subseteq PathOptions
    BY DEF PathOptions
  <2>2. DOMAIN UpTo = {"cert", "key", "dh"}
    BY DEF UpTo
  <2>3. Completed /\ \A f \in DOMAIN UpTo : opts[f] # NULL
    BY <1>7, <2>2 DEF LoadTls, PInv, Phase, Completed
  <2>. QED
    BY <1>7, <2>1, <2>2, <2>3, OpeningKeeps DEF LoadTls, PInv, Phase, BeforeAccept
<1>8. CASE OpenSocket
  BY <1>8, OpeningKeeps DEF OpenSocket, PInv, Phase, BeforeAccept
<1>9. CASE LoopStep
  BY <1>9, OpeningKeeps DEF LoopStep, AcceptFails, ParentCloses, Accept, Fork, PInv, Phase,
    BeforeAccept
<1>10. CASE ChildStep
  <2>1. PICK c \in Conns :
          ChildCloses(c) \/ ChildLogs(c) \/ ChildReadsBlock(c) \/ ChildExits(c)
    BY <1>10 DEF ChildStep
  <2>2. Completed /\ pc \notin {"options", "exited"}
    BY <2>1 DEF ChildCloses, ChildLogs, ChildReadsBlock, ChildExits, PInv, Phase,
      BeforeAccept
  <2>3. "block" \in PathOptions
    BY DEF PathOptions
  <2>. QED
    BY <2>1, <2>2, <2>3, OpeningKeeps DEF ChildCloses, ChildLogs, ChildReadsBlock, ChildExits,
      PInv, Phase, BeforeAccept
<1>. QED
  BY <1>1, <1>2, <1>3, <1>4, <1>5, <1>6, <1>7, <1>8, <1>9, <1>10 DEF Next, StartStep

\* Whatever the order of the options, and although daemonize() changes the
\* directory, a file that is opened is the one that was meant (main.cpp:120-145).
THEOREM PathsCorrect == Spec => []PathsKept
<1>1. Spec => []PInv
  BY InitPInv, NextPInv, PTL DEF Spec
<1>2. PInv => PathsKept
  BY DEF PInv
<1>. QED
  BY <1>1, <1>2, PTL

-----------------------------------------------------------------------------
(***************************************************************************)
(* Descriptors.  There is always a free number: the server holds a log     *)
(* file, its listening socket and one connection beside 0 to 2.            *)
(***************************************************************************)

\* In process p the numbers above k are free.
FreeAbove(p, k) == \A n \in Numbers : n > k => fds[p][n] = Closed

Forked == {c \in Conns : child[c] \in {"forked", "serving"}}

Holds(n) == \E c \in Conns : fds[Server][n] = Conn(c)

Room ==
  /\ pc \in {"options", "daemonize", "openLog"} => FreeAbove(Server, 2)
  /\ pc \in {"session", "closeStd", "storage", "tls", "socket"} => FreeAbove(Server, 3)
  /\ pc = "accept" => FreeAbove(Server, 4)
  /\ pc \in {"fork", "parent"} => Holds(newSocket)
  /\ pc \in {"fork", "parent"} =>
       \A n \in Numbers : n > 4 /\ n # newSocket => fds[Server][n] = Closed

\* The server holds no connection but the new one, and a child its own only.
ConnsInPlace ==
  /\ \A c \in Conns, n \in Numbers :
       fds[Server][n] = Conn(c) => pc \in {"fork", "parent"} /\ n = newSocket
  /\ \A c \in Forked, d \in Conns, n \in Numbers : fds[c][n] = Conn(d) => d = c

DInv ==
  /\ PInv
  /\ TypeOK
  /\ DOMAIN fds = Processes /\ \A p \in Processes : DOMAIN fds[p] = Numbers
  /\ Room
  /\ ConnsInPlace

\* The lowest free number, when there is one.
LEMMA LowestFreeIsFree ==
  ASSUME NEW p, NEW k \in Numbers, fds[p][k] = Closed
  PROVE  /\ LowestFree(p) \in Numbers
         /\ fds[p][LowestFree(p)] = Closed
         /\ \A m \in Numbers : fds[p][m] = Closed => LowestFree(p) <= m
<1>. DEFINE free == {n \in Numbers : fds[p][n] = Closed}
            less == OpToRel(<, Nat)
<1>1. Numbers \subseteq Nat
  BY ProcessAssumption DEF Numbers
<1>2. free \subseteq Nat /\ free # {}
  BY <1>1
<1>3. PICK x \in free : \A y \in free : <<y, x>> \notin less
  BY <1>2, NatLessThanWellFounded, WFMin
<1>4. ASSUME NEW y \in free PROVE x <= y
  <2>1. x \in Nat /\ y \in Nat
    BY <1>1
  <2>2. y < x => <<y, x>> \in less
    BY <2>1 DEF OpToRel
  <2>. HIDE DEF less
  <2>. QED
    BY <1>3, <2>1, <2>2
<1>5. \E n \in Numbers : fds[p][n] = Closed
                         /\ \A m \in Numbers : fds[p][m] = Closed => n <= m
  BY <1>4
<1>. QED
  BY <1>5 DEF LowestFree

CoutType == cout \in [Processes -> [fd : Numbers \cup {NULL}, bad : BOOLEAN]]

\* A line of the log changes nothing but whether the stream has failed.
LEMMA LogKeeps ==
  ASSUME CoutType, NEW p \in Processes, NEW table, Log(p, table)
  PROVE  /\ CoutType'
         /\ \A q \in Processes : cout'[q].fd = cout[q].fd
         /\ \A q \in Processes : q # p => cout'[q] = cout[q]
         /\ cout'[p].bad <=> cout[p].bad \/ Target(p, table) = Closed
BY DEF CoutType, Log

\* One number of the server gets a new meaning.
LEMMA ServerTable ==
  ASSUME DInv, NEW n \in Numbers, NEW v, v \in Objects \/ v.kind = "file",
         fds' = [fds EXCEPT ![Server][n] = v]
  PROVE  /\ fds'[Server][n] = v
         /\ \A m \in Numbers : m # n => fds'[Server][m] = fds[Server][m]
         /\ \A p \in Processes : p # Server => fds'[p] = fds[p]
         /\ DOMAIN fds' = Processes /\ \A p \in Processes : DOMAIN fds'[p] = Numbers
         /\ \A p \in Processes : \A m \in Numbers :
              fds'[p][m] \in Objects \/ fds'[p][m].kind = "file"
BY DEF DInv, TypeOK, Processes

LEMMA InitDInv == Init => DInv
<1>. SUFFICES ASSUME Init PROVE DInv
  OBVIOUS
<1>1. PInv
  BY InitPInv
<1>2. 1 \in Numbers /\ NULL \notin Numbers
  BY ProcessAssumption DEF Numbers
<1>3. TypeOK
  <2>1. opts["daemonize"] = FALSE /\ opts["sure"] = FALSE
    BY DEF Init, PathOptions, Flags
  <2>. QED
    BY <1>2, <2>1 DEF Init, TypeOK, Listening, Objects
<1>4. \A n \in Numbers : n > 2 => n \notin std
  BY ProcessAssumption DEF Init
<1>5. Room
  BY <1>4 DEF Init, Room, FreeAbove, Processes
<1>6. ConnsInPlace
  BY DEF Init, ConnsInPlace, Forked, Processes, Terminal, Closed, Conn
<1>. QED
  BY <1>1, <1>3, <1>5, <1>6 DEF DInv, Init

-----------------------------------------------------------------------------

\* The descriptors stay as they are before the server listens.
LEMMA EarlyDInv ==
  ASSUME DInv, ParseOption \/ CompletePaths \/ ForkDaemon \/ OpenLog \/ NewSession
               \/ CloseStd \/ MeasureFile \/ LoadTls \/ OpenSocket
  PROVE  DInv'
<1>0. PInv' /\ 2 \in Numbers /\ 3 \in Numbers /\ 4 \in Numbers /\ Numbers \subseteq Nat
  BY NextPInv, ProcessAssumption DEF DInv, Next, StartStep, Numbers
<1>1. CoutType /\ Server \in Processes /\ NULL \notin Numbers
  BY ProcessAssumption DEF DInv, TypeOK, CoutType, Processes, Numbers
<1>2. CASE ParseOption
  <2>1. opts'["daemonize"] \in BOOLEAN /\ opts'["sure"] \in BOOLEAN
    <3>1. line \in Seq({line[i] : i \in DOMAIN line}) /\ Head(argv) \in {line[i] : i \in DOMAIN line}
      <4>1. /\ line \in Seq({line[i] : i \in DOMAIN line})
            /\ argv \in Seq({line[i] : i \in DOMAIN line}) /\ argv # <<>>
        BY <1>2, OptionAssumption DEF DInv, PInv, Phase, Rest, ParseOption
      <4>. DEFINE S == {line[i] : i \in DOMAIN line}
      <4>. HIDE DEF S
      <4>2. \A s \in Seq(S) : s # <<>> => Head(s) \in S
        OBVIOUS
      <4>. QED
        BY <4>1, <4>2 DEF S
    <3>2. Head(argv).name \in Flags => Head(argv).value = TRUE
      BY <3>1, OptionAssumption DEF DInv, PInv
    <3>3. \A f \in Flags : opts'[f] = opts[f] \/ opts'[f] = TRUE
      BY <1>2, <3>2 DEF DInv, PInv, ParseOption
    <3>. QED
      BY <3>3 DEF DInv, TypeOK, Flags
  <2>. QED
    BY <1>0, <1>2, <2>1 DEF DInv, TypeOK, Room, ConnsInPlace, Forked, FreeAbove, Holds,
      ParseOption, Listening, Objects
<1>3. CASE CompletePaths
  <2>1. opts'["daemonize"] \in BOOLEAN /\ opts'["sure"] \in BOOLEAN
    BY <1>3 DEF DInv, PInv, TypeOK, CompletePaths, PathOptions, Flags
  <2>. QED
    BY <1>0, <1>3, <2>1 DEF DInv, TypeOK, Room, ConnsInPlace, Forked, FreeAbove, Holds,
      CompletePaths, Listening, Objects
<1>4. CASE ForkDaemon
  BY <1>0, <1>4 DEF DInv, TypeOK, Room, ConnsInPlace, Forked, FreeAbove, Holds,
    ForkDaemon, Listening, Objects, argVars
<1>5. CASE OpenLog
  <2>1. /\ pc = "openLog" /\ pc' = "session"
        /\ UNCHANGED <<startDir, opts, cwd, newSocket, child>>
    BY <1>5 DEF OpenLog, argVars
  <2>2. CASE opts["log"] = NULL \/ ~Readable(Resolve(opts["log"]))
    <3>0. fds' = fds /\ (UNCHANGED cout \/ cout' = [cout EXCEPT ![Server].fd = NULL])
      BY <1>5, <2>2 DEF OpenLog
    <3>1. CoutType'
      BY <1>1, <3>0 DEF CoutType
    <3>. QED
      BY <1>0, <2>1, <3>0, <3>1 DEF DInv, TypeOK, CoutType, Room, ConnsInPlace, Forked, FreeAbove,
        Holds, Listening
  <2>3. CASE ~(opts["log"] = NULL \/ ~Readable(Resolve(opts["log"])))
    <3>. DEFINE n == LowestFree(Server)
    <3>1. n \in Numbers /\ n <= 3 /\ fds[Server][n] = Closed
      BY <1>0, <2>1, LowestFreeIsFree DEF DInv, Room, FreeAbove
    <3>2. PICK path : fds' = [fds EXCEPT ![Server][n] = File(path)]
                      /\ cout' = [cout EXCEPT ![Server].fd = n]
      BY <1>5, <2>3 DEF OpenLog
    <3>3. File(path).kind = "file"
      BY DEF File
    <3>4. File(path) # Closed /\ \A c \in Conns : File(path) # Conn(c)
      BY DEF File, Closed, Conn
    <3>. HIDE DEF n
    <3>5. /\ fds'[Server][n] = File(path)
          /\ \A m \in Numbers : m # n => fds'[Server][m] = fds[Server][m]
          /\ \A p \in Processes : p # Server => fds'[p] = fds[p]
          /\ DOMAIN fds' = Processes /\ \A p \in Processes : DOMAIN fds'[p] = Numbers
          /\ \A p \in Processes : \A m \in Numbers :
               fds'[p][m] \in Objects \/ fds'[p][m].kind = "file"
      BY <3>1, <3>2, <3>3, ServerTable
    <3>6. CoutType'
      BY <1>1, <3>1, <3>2 DEF CoutType
    <3>7. TypeOK'
      BY <2>1, <3>5, <3>6 DEF DInv, TypeOK, CoutType, Listening, Objects
    <3>8. Room'
      BY <1>0, <2>1, <3>1, <3>5 DEF DInv, Room, FreeAbove
    <3>9. ConnsInPlace'
      BY <2>1, <3>1, <3>4, <3>5, ProcessAssumption DEF DInv, ConnsInPlace, Forked, Processes
    <3>. QED
      BY <1>0, <3>5, <3>7, <3>8, <3>9 DEF DInv
  <2>. QED
    BY <2>2, <2>3
<1>6. CASE NewSession
  <2>1. CoutType'
    BY <1>1, <1>6, LogKeeps DEF NewSession, CoutType
  <2>. QED
    BY <1>0, <1>6, <2>1 DEF DInv, TypeOK, CoutType, Room, ConnsInPlace, Forked, FreeAbove,
      Holds, NewSession, Listening, Objects, argVars
<1>7. CASE CloseStd
  <2>1. /\ pc = "closeStd" /\ pc' = "storage"
        /\ UNCHANGED <<startDir, opts, cwd, cout, newSocket, child>>
    BY <1>7 DEF CloseStd, argVars
  <2>2. /\ \A n \in Numbers : fds'[Server][n] = IF n \in 0 .. 2 THEN Closed ELSE fds[Server][n]
        /\ \A p \in Processes : p # Server => fds'[p] = fds[p]
        /\ DOMAIN fds' = Processes /\ \A p \in Processes : DOMAIN fds'[p] = Numbers
    BY <1>1, <1>7 DEF CloseStd, DInv
  <2>3. TypeOK'
    BY <2>1, <2>2 DEF DInv, TypeOK, Listening, Objects
  <2>4. Room'
    BY <1>0, <2>1, <2>2 DEF DInv, Room, FreeAbove
  <2>5. ConnsInPlace'
    BY <2>1, <2>2, ProcessAssumption DEF DInv, ConnsInPlace, Forked, Processes, Closed, Conn
  <2>. QED
    BY <1>0, <2>2, <2>3, <2>4, <2>5 DEF DInv
<1>8. CASE MeasureFile
  BY <1>0, <1>8 DEF DInv, TypeOK, Room, ConnsInPlace, Forked, FreeAbove, Holds,
    MeasureFile, Listening, Objects, argVars
<1>9. CASE LoadTls
  <2>1. /\ pc = "tls" /\ pc' \in {"socket", "exited", "crashed"}
        /\ UNCHANGED <<startDir, opts, cwd, fds, newSocket, child>>
    BY <1>9 DEF LoadTls, argVars
  <2>2. CoutType'
    BY <1>1, <1>9, LogKeeps DEF LoadTls, CoutType
  <2>. QED
    BY <1>0, <2>1, <2>2 DEF DInv, TypeOK, CoutType, Room, ConnsInPlace, Forked, FreeAbove,
      Holds, Listening, Objects
<1>10. CASE OpenSocket
  <2>. DEFINE n == LowestFree(Server)
  <2>1. /\ pc = "socket" /\ pc' \in {"accept", "exited"}
        /\ UNCHANGED <<startDir, opts, cwd, newSocket, child>>
        /\ fds' = [fds EXCEPT ![Server][n] = Listen]
    BY <1>10 DEF OpenSocket, argVars
  <2>2. n \in Numbers /\ n <= 4 /\ fds[Server][n] = Closed
    BY <1>0, <2>1, LowestFreeIsFree DEF DInv, Room, FreeAbove
  <2>. HIDE DEF n
  <2>3. Listen \in Objects /\ \A c \in Conns : Listen # Conn(c)
    BY DEF Objects, Listen, Conn
  <2>4. /\ fds'[Server][n] = Listen
        /\ \A m \in Numbers : m # n => fds'[Server][m] = fds[Server][m]
        /\ \A p \in Processes : p # Server => fds'[p] = fds[p]
        /\ DOMAIN fds' = Processes /\ \A p \in Processes : DOMAIN fds'[p] = Numbers
        /\ \A p \in Processes : \A m \in Numbers :
             fds'[p][m] \in Objects \/ fds'[p][m].kind = "file"
    BY <2>1, <2>2, <2>3, ServerTable
  <2>5. CoutType'
    BY <1>1, <1>10, LogKeeps DEF OpenSocket, CoutType
  <2>6. TypeOK'
    BY <2>1, <2>4, <2>5 DEF DInv, TypeOK, CoutType, Listening, Objects
  <2>7. Room'
    BY <1>0, <2>1, <2>2, <2>4 DEF DInv, Room, FreeAbove
  <2>8. ConnsInPlace'
    BY <2>1, <2>2, <2>3, <2>4, ProcessAssumption DEF DInv, ConnsInPlace, Forked, Processes
  <2>. QED
    BY <1>0, <2>4, <2>6, <2>7, <2>8 DEF DInv
<1>. QED
  BY <1>2, <1>3, <1>4, <1>5, <1>6, <1>7, <1>8, <1>9, <1>10

\* A connection gets a free number, and gives it back.
LEMMA LoopDInv ==
  ASSUME DInv, LoopStep
  PROVE  DInv'
<1>0. PInv' /\ 5 \in Numbers /\ Numbers \subseteq Nat
  BY NextPInv, ProcessAssumption DEF DInv, Next, Numbers
<1>1. CoutType /\ Server \in Processes /\ NULL \notin Numbers /\ Server \notin Conns
  BY ProcessAssumption DEF DInv, TypeOK, CoutType, Processes, Numbers
<1>2. CASE AcceptFails
  <2>1. CoutType'
    BY <1>1, <1>2, LogKeeps DEF AcceptFails, CoutType
  <2>2. pc = "accept" /\ pc' \in {"accept", "crashed"} /\ UNCHANGED <<startDir, opts, cwd, fds, newSocket, child>>
    BY <1>2 DEF AcceptFails, argVars
  <2>. QED
    BY <1>0, <2>1, <2>2 DEF DInv, TypeOK, CoutType, Room, ConnsInPlace, Forked, FreeAbove,
      Holds, Listening, Objects
<1>3. ASSUME NEW c \in Conns, Accept(c) PROVE DInv'
  <2>. DEFINE n == LowestFree(Server)
  <2>1. /\ pc = "accept" /\ pc' = "fork" /\ newSocket' = n
        /\ UNCHANGED <<startDir, opts, cwd, cout>>
        /\ child' = [child EXCEPT ![c] = "accepted"]
        /\ fds' = [fds EXCEPT ![Server][n] = Conn(c)]
    BY <1>3 DEF Accept, argVars
  <2>2. n \in Numbers /\ n <= 5 /\ fds[Server][n] = Closed
    BY <1>0, <2>1, LowestFreeIsFree DEF DInv, Room, FreeAbove
  <2>. HIDE DEF n
  <2>3. /\ fds'[Server][n] = Conn(c)
        /\ \A m \in Numbers : m # n => fds'[Server][m] = fds[Server][m]
        /\ \A p \in Processes : p # Server => fds'[p] = fds[p]
        /\ DOMAIN fds' = Processes /\ \A p \in Processes : DOMAIN fds'[p] = Numbers
        /\ \A p \in Processes : \A m \in Numbers :
             fds'[p][m] \in Objects \/ fds'[p][m].kind = "file"
    <3>1. Conn(c) \in Objects
      BY DEF Objects
    <3>. QED
      BY <2>1, <2>2, <3>1, ServerTable
  <2>4. TypeOK'
    BY <1>1, <2>1, <2>2, <2>3 DEF DInv, TypeOK, Listening, Objects
  <2>5. Room'
    BY <1>0, <2>1, <2>2, <2>3 DEF DInv, Room, FreeAbove, Holds
  <2>6. Forked' \subseteq Forked
    BY <2>1 DEF DInv, TypeOK, Forked
  <2>7. ConnsInPlace'
    BY <1>1, <2>1, <2>3, <2>6 DEF DInv, ConnsInPlace, Forked, Processes
  <2>. QED
    BY <1>0, <2>3, <2>4, <2>5, <2>7 DEF DInv
<1>4. ASSUME NEW c \in Conns, Fork(c) PROVE DInv'
  <2>1. /\ pc = "fork" /\ pc' = "parent"
        /\ UNCHANGED <<startDir, opts, cwd, newSocket>>
        /\ fds[Server][newSocket] = Conn(c)
    BY <1>4 DEF Fork, argVars
  <2>2. CASE UNCHANGED <<child, fds, cout>>
    BY <1>0, <2>1, <2>2 DEF DInv, TypeOK, Room, ConnsInPlace, Forked, FreeAbove,
      Holds, Listening, Objects
  <2>3. CASE /\ child' = [child EXCEPT ![c] = "forked"]
             /\ fds' = [fds EXCEPT ![c] = fds[Server]]
             /\ cout' = [cout EXCEPT ![c] = cout[Server]]
    <3>1. /\ fds'[c] = fds[Server] /\ fds'[Server] = fds[Server]
          /\ \A p \in Processes : p # c => fds'[p] = fds[p]
          /\ DOMAIN fds' = Processes /\ \A p \in Processes : DOMAIN fds'[p] = Numbers
      BY <1>1, <2>3 DEF DInv, Processes
    <3>2. CoutType'
      BY <1>1, <2>3 DEF CoutType
    <3>3. TypeOK'
      BY <1>1, <2>1, <2>3, <3>1, <3>2 DEF DInv, TypeOK, CoutType, Listening, Objects
    <3>4. Room'
      BY <2>1, <3>1 DEF DInv, Room, Holds
    <3>5. Forked' \subseteq Forked \cup {c}
      BY <2>3 DEF DInv, TypeOK, Forked
    <3>6. \A d \in Conns, n \in Numbers : fds[Server][n] = Conn(d) => d = c
      BY <2>1 DEF DInv, ConnsInPlace, Conn
    <3>7. ConnsInPlace'
      BY <1>1, <2>1, <3>1, <3>5, <3>6 DEF DInv, ConnsInPlace, Forked, Processes
    <3>. QED
      BY <1>0, <3>1, <3>3, <3>4, <3>7 DEF DInv
  <2>. QED
    BY <1>4, <2>2, <2>3 DEF Fork
<1>5. CASE ParentCloses
  <2>1. /\ pc = "parent" /\ pc' \in {"accept", "crashed"} /\ newSocket' = NULL
        /\ UNCHANGED <<startDir, opts, cwd, child>>
        /\ fds' = [fds EXCEPT ![Server][newSocket] = Closed]
    BY <1>5 DEF ParentCloses, argVars
  <2>2. newSocket \in Numbers
    BY <1>1, <2>1 DEF DInv, TypeOK
  <2>3. /\ fds'[Server][newSocket] = Closed
        /\ \A m \in Numbers : m # newSocket => fds'[Server][m] = fds[Server][m]
        /\ \A p \in Processes : p # Server => fds'[p] = fds[p]
        /\ DOMAIN fds' = Processes /\ \A p \in Processes : DOMAIN fds'[p] = Numbers
        /\ \A p \in Processes : \A m \in Numbers :
             fds'[p][m] \in Objects \/ fds'[p][m].kind = "file"
    <3>1. Closed \in Objects
      BY DEF Objects
    <3>. QED
      BY <2>1, <2>2, <3>1, ServerTable
  <2>4. CoutType'
    BY <1>1, <1>5, LogKeeps DEF ParentCloses, CoutType
  <2>5. TypeOK'
    BY <1>1, <2>1, <2>3, <2>4 DEF DInv, TypeOK, CoutType, Listening, Objects
  <2>6. Room'
    BY <1>0, <2>1, <2>2, <2>3 DEF DInv, Room, FreeAbove
  <2>7. ConnsInPlace'
    BY <1>1, <2>1, <2>2, <2>3 DEF DInv, ConnsInPlace, Forked, Processes, Closed, Conn
  <2>. QED
    BY <1>0, <2>3, <2>5, <2>6, <2>7 DEF DInv
<1>. QED
  BY <1>2, <1>3, <1>4, <1>5 DEF LoopStep

LEMMA ChildDInv ==
  ASSUME DInv, ChildStep
  PROVE  DInv'
<1>0. PInv'
  BY NextPInv DEF DInv, Next
<1>1. CoutType /\ Server \in Processes /\ Server \notin Conns /\ Conns \subseteq Processes
  BY ProcessAssumption DEF DInv, TypeOK, CoutType, Processes
<1>2. PICK c \in Conns :
        ChildCloses(c) \/ ChildLogs(c) \/ ChildReadsBlock(c) \/ ChildExits(c)
  BY DEF ChildStep
<1>3. /\ UNCHANGED <<startDir, opts, pc, cwd, newSocket>>
      /\ child[c] \in {"forked", "serving"}
      /\ \E s \in {"serving", "gone"} : child' = [child EXCEPT ![c] = s]
  BY <1>2 DEF ChildCloses, ChildLogs, ChildReadsBlock, ChildExits, argVars, DInv, TypeOK
<1>4. CoutType'
  BY <1>1, <1>2, LogKeeps DEF ChildCloses, ChildLogs, ChildReadsBlock, ChildExits, CoutType
<1>5. /\ \A p \in Processes : p # c => fds'[p] = fds[p]
      /\ \A n \in Numbers : fds'[c][n] = fds[c][n] \/ fds'[c][n] = Closed
      /\ DOMAIN fds' = Processes /\ \A p \in Processes : DOMAIN fds'[p] = Numbers
  BY <1>1, <1>2 DEF ChildCloses, ChildLogs, ChildReadsBlock, ChildExits, DInv
<1>6. TypeOK'
  BY <1>3, <1>4, <1>5 DEF DInv, TypeOK, CoutType, Objects
<1>7. Room'
  BY <1>1, <1>3, <1>5 DEF DInv, Room, FreeAbove, Holds
<1>8. ConnsInPlace'
  <2>1. Forked' \subseteq Forked
    BY <1>3 DEF DInv, TypeOK, Forked
  <2>. QED
    BY <1>1, <1>3, <1>5, <2>1 DEF DInv, ConnsInPlace, Forked, Closed, Conn
<1>. QED
  BY <1>0, <1>5, <1>6, <1>7, <1>8 DEF DInv

LEMMA NextDInv == DInv /\ [Next]_vars => DInv'
<1>. SUFFICES ASSUME DInv, [Next]_vars PROVE DInv'
  OBVIOUS
<1>1. CASE UNCHANGED vars
  <2>1. PInv'
    BY <1>1, NextPInv DEF DInv
  <2>. QED
    BY <1>1, <2>1 DEF DInv, TypeOK, Room, ConnsInPlace, Forked, FreeAbove, Holds, vars, argVars,
      Objects
<1>2. CASE StartStep
  BY <1>2, EarlyDInv DEF StartStep
<1>3. CASE LoopStep \/ ChildStep
  BY <1>3, LoopDInv, ChildDInv
<1>. QED
  BY <1>1, <1>2, <1>3 DEF Next

LEMMA DInvariance == Spec => []DInv
<1>. QED
  BY InitDInv, NextDInv, PTL DEF Spec

\* The variables of main() and ListenLoop have their types; in particular a free
\* descriptor number is found whenever one is asked for (main.cpp:209-217).
THEOREM StartupTypeCorrect == Spec => []TypeOK
<1>1. DInv => TypeOK
  BY DEF DInv
<1>. QED
  BY <1>1, DInvariance, PTL

-----------------------------------------------------------------------------

(***************************************************************************)
(* The log.                                                                *)
(***************************************************************************)

\* Before a daemon closes them, and in a server that is none, 0 to 2 are as they
\* were, and std::cout writes to 1.
StdKept(p) == cout[p].fd = 1 /\ \A n \in 0 .. 2 : fds[p][n] = Terminal

StdInPlace ==
  StdOpen /\ (~opts["daemonize"] \/ pc \in {"options", "daemonize", "openLog"}) =>
    \A p \in Running : StdKept(p)

\* A daemon that can open the log file that was named.
LogsToFile ==
  StdOpen /\ startDir # "removed" /\ opts["daemonize"]
  /\ Given("log") /\ Readable(Meant("log"))

LogKept(p) ==
  /\ cout[p].fd \in Numbers \ (0 .. 2)
  /\ fds[p][cout[p].fd] = File(Meant("log"))
  /\ ~cout[p].bad

FileInPlace ==
  LogsToFile /\ pc \in {"session", "closeStd", "storage", "tls", "socket"} \cup Listening =>
    \A p \in Running : LogKept(p)

LogInv ==
  /\ std \in Inherited
  /\ pc \in {"daemonize", "openLog", "session", "closeStd"} => opts["daemonize"]
  /\ pc \in {"options", "daemonize", "openLog"} => cout[Server].bad = FALSE
  /\ StdInPlace
  /\ FileInPlace

LEMMA InitLogInv == Init => LogInv
<1>. SUFFICES ASSUME Init PROVE LogInv
  OBVIOUS
<1>1. Server \in Processes /\ Running = {Server} /\ 0 .. 2 \subseteq Numbers
  BY ProcessAssumption DEF Init, Running, Processes, Numbers
<1>2. StdInPlace
  BY <1>1 DEF Init, StdInPlace, StdOpen, StdKept
<1>3. FileInPlace
  BY DEF Init, FileInPlace, Listening
<1>. QED
  BY <1>1, <1>2, <1>3 DEF Init, LogInv

\* What a step has to keep after the options.
LEMMA LogInvKept ==
  ASSUME DInv, LogInv, UNCHANGED argVars,
         pc' \in {"daemonize", "openLog", "session", "closeStd"} => opts["daemonize"],
         pc' \in {"options", "daemonize", "openLog"} =>
           pc \in {"options", "daemonize", "openLog"} /\ cout'[Server].bad = cout[Server].bad,
         StdOpen /\ (~opts["daemonize"] \/ pc' \in {"options", "daemonize", "openLog"})
         /\ (\A p \in Running : StdKept(p)) => \A p \in Running' : StdKept(p)',
         LogsToFile /\ pc' \in {"session", "closeStd", "storage", "tls", "socket"} \cup Listening
           => \A p \in Running' : LogKept(p)'
  PROVE  LogInv'
<1>1. UNCHANGED <<startDir, std, world, line, opts>>
  BY DEF argVars
<1>2. LogsToFile' = LogsToFile /\ StdOpen' = StdOpen
  BY <1>1, MeantKept DEF LogsToFile, StdOpen, Readable
<1>3. StdInPlace'
  BY <1>1, <1>2 DEF LogInv, StdInPlace
<1>4. FileInPlace'
  BY <1>1, <1>2 DEF LogInv, FileInPlace, Listening
<1>. QED
  BY <1>1, <1>3, <1>4 DEF LogInv

LEMMA EarlyLogInv ==
  ASSUME DInv, LogInv,
         ParseOption \/ CompletePaths \/ ForkDaemon \/ OpenLog \/ NewSession
         \/ CloseStd \/ MeasureFile \/ LoadTls \/ OpenSocket
  PROVE  LogInv'
<1>1. pc \in BeforeAccept /\ pc' # "fork" /\ child' = child
  BY DEF ParseOption, CompletePaths, ForkDaemon, OpenLog, NewSession,
    CloseStd, MeasureFile, LoadTls, OpenSocket, BeforeAccept
<1>2. Running = {Server} /\ Running' = {Server} /\ Server \in Processes
  BY <1>1 DEF DInv, PInv, Phase, Running, Processes
<1>3. CoutType /\ 0 .. 2 \subseteq Numbers /\ Numbers \subseteq Nat /\ NULL \notin Numbers
  BY ProcessAssumption DEF DInv, TypeOK, CoutType, Numbers
<1>4. UNCHANGED <<startDir, std, world, line>>
  BY DEF ParseOption, CompletePaths, ForkDaemon, OpenLog, NewSession,
    CloseStd, MeasureFile, LoadTls, OpenSocket, argVars
<1>5. Meant("log")' = Meant("log")
  BY <1>4, MeantKept
<1>6. CASE ParseOption \/ CompletePaths
  <2>1. /\ pc = "options" /\ UNCHANGED <<cout, fds>>
        /\ \/ pc' \in {"options", "exited"}
           \/ pc' = "daemonize" /\ opts'["daemonize"]
           \/ pc' = "storage" /\ ~opts'["daemonize"]
    <3>1. CASE ParseOption
      BY <3>1 DEF ParseOption
    <3>2. CASE CompletePaths
      <4>1. opts'["daemonize"] = opts["daemonize"]
        BY <3>2 DEF CompletePaths, DInv, PInv, PathOptions, Flags
      <4>. QED
        BY <3>2, <4>1 DEF CompletePaths
    <3>. QED
      BY <1>6, <3>1, <3>2
  <2>2. StdInPlace'
    BY <1>2, <1>4, <2>1 DEF LogInv, StdInPlace, StdKept, StdOpen
  <2>3. FileInPlace'
    BY <2>1 DEF FileInPlace, LogsToFile, Listening
  <2>. QED
    BY <1>4, <2>1, <2>2, <2>3 DEF LogInv
<1>7. CASE ForkDaemon
  BY <1>2, <1>7, LogInvKept DEF ForkDaemon, LogInv, StdKept, Listening
<1>8. CASE OpenLog
  <2>1. pc = "openLog" /\ pc' = "session" /\ UNCHANGED argVars
    BY <1>8 DEF OpenLog
  <2>2. ASSUME LogsToFile PROVE LogKept(Server)'
    <3>. DEFINE n == LowestFree(Server)
    <3>1. opts["log"] = Meant("log") /\ opts["log"] # NULL /\ Resolve(opts["log"]) = Meant("log")
      <4>1. "log" \in PathOptions /\ Completed
        BY <2>1 DEF PathOptions, DInv, PInv, Phase
      <4>. QED
        BY <2>2, <4>1 DEF LogsToFile, Completed, Resolve
    <3>2. /\ fds' = [fds EXCEPT ![Server][n] = File(Meant("log"))]
          /\ cout' = [cout EXCEPT ![Server].fd = n]
      BY <1>8, <2>2, <3>1 DEF OpenLog, LogsToFile
    <3>3. 3 \in Numbers /\ fds[Server][3] = Closed
      BY <2>1, ProcessAssumption DEF DInv, Room, FreeAbove, Numbers
    <3>4. n \in Numbers /\ fds[Server][n] = Closed
      BY <3>3, LowestFreeIsFree
    <3>5. StdKept(Server) /\ cout[Server].bad = FALSE
      BY <1>2, <2>1, <2>2 DEF LogInv, StdInPlace, LogsToFile
    <3>6. n \notin 0 .. 2
      BY <3>4, <3>5 DEF StdKept, Terminal, Closed
    <3>. HIDE DEF n
    <3>7. cout'[Server].fd = n /\ cout'[Server].bad = FALSE
      BY <1>2, <1>3, <3>2, <3>5 DEF CoutType
    <3>8. fds'[Server][n] = File(Meant("log"))
      BY <1>2, <3>2, <3>4 DEF DInv
    <3>. QED
      BY <1>5, <3>4, <3>6, <3>7, <3>8 DEF LogKept, File
  <2>3. opts["daemonize"]
    BY <2>1 DEF LogInv
  <2>. QED
    BY <1>2, <2>1, <2>2, <2>3, LogInvKept
<1>9. CASE NewSession
  <2>1. /\ pc = "session" /\ UNCHANGED <<argVars, fds>>
        /\ pc' = "exited" \/ (pc' = "closeStd" /\ UNCHANGED cout)
    BY <1>9 DEF NewSession
  <2>2. LogsToFile /\ pc' = "closeStd" => LogKept(Server)'
    BY <1>2, <1>5, <2>1 DEF LogInv, FileInPlace, LogKept, File
  <2>. QED
    BY <1>2, <2>1, <2>2, LogInvKept DEF LogInv, Listening
<1>10. CASE CloseStd
  <2>1. /\ pc = "closeStd" /\ pc' = "storage" /\ UNCHANGED <<argVars, cout>>
        /\ \A n \in Numbers : n \notin 0 .. 2 => fds'[Server][n] = fds[Server][n]
    BY <1>2, <1>10 DEF CloseStd, DInv
  <2>2. LogsToFile => LogKept(Server)'
    BY <1>2, <1>3, <1>5, <2>1 DEF LogInv, FileInPlace, LogKept, File
  <2>. QED
    BY <1>2, <2>1, <2>2, LogInvKept DEF LogInv
<1>11. CASE MeasureFile \/ LoadTls
  <2>1. /\ pc \in {"storage", "tls"} /\ pc' \in {"tls", "socket", "exited", "crashed"}
        /\ UNCHANGED <<argVars, fds>>
        /\ pc' # "exited" => UNCHANGED cout
    BY <1>11 DEF MeasureFile, LoadTls
  <2>2. cout'[Server].fd = cout[Server].fd
    BY <1>2, <1>3, <1>11, LogKeeps DEF MeasureFile, LoadTls
  <2>3. LogsToFile /\ pc' \in {"tls", "socket"} => LogKept(Server)'
    BY <1>2, <1>5, <2>1 DEF LogInv, FileInPlace, LogKept, File
  <2>4. StdKept(Server) => StdKept(Server)'
    BY <2>1, <2>2 DEF StdKept
  <2>. QED
    BY <1>2, <2>1, <2>3, <2>4, LogInvKept DEF Listening
<1>12. CASE OpenSocket
  <2>. DEFINE n == LowestFree(Server)
  <2>1. /\ pc = "socket" /\ pc' \in {"accept", "exited"}
        /\ UNCHANGED argVars
        /\ fds' = [fds EXCEPT ![Server][n] = Listen]
        /\ pc' # "exited" => UNCHANGED cout
    BY <1>12 DEF OpenSocket
  <2>2. n \in Numbers /\ fds[Server][n] = Closed
    <3>1. 4 \in Numbers /\ fds[Server][4] = Closed
      BY <2>1, ProcessAssumption DEF DInv, Room, FreeAbove, Numbers
    <3>. QED
      BY <3>1, LowestFreeIsFree
  <2>. HIDE DEF n
  <2>3. \A m \in Numbers : fds[Server][m] # Closed => fds'[Server][m] = fds[Server][m]
    BY <1>2, <2>1, <2>2 DEF DInv
  <2>4. cout'[Server].fd = cout[Server].fd
    BY <1>2, <1>3, <1>12, LogKeeps DEF OpenSocket
  <2>5. LogsToFile /\ pc' = "accept" => LogKept(Server)'
    BY <1>2, <1>5, <2>1, <2>3 DEF LogInv, FileInPlace, LogKept, File, Closed
  <2>6. StdKept(Server) => StdKept(Server)'
    BY <1>3, <2>3, <2>4 DEF StdKept, Terminal, Closed
  <2>. QED
    BY <1>2, <2>1, <2>5, <2>6, LogInvKept DEF Listening
<1>. QED
  BY <1>6, <1>7, <1>8, <1>9, <1>10, <1>11, <1>12

\* A new connection takes a free number, and gives that number back; a child has
\* copies of what the server has.
LEMMA LoopLogInv ==
  ASSUME DInv, LogInv, LoopStep
  PROVE  LogInv'
<1>1. /\ CoutType /\ 0 .. 2 \subseteq Numbers /\ Numbers \subseteq Nat /\ NULL \notin Numbers
      /\ Server \in Processes /\ Server \notin Conns /\ Conns \subseteq Processes
  BY ProcessAssumption DEF DInv, TypeOK, CoutType, Numbers, Processes
<1>2. Running \subseteq Processes /\ Server \in Running
  BY <1>1 DEF Running
<1>3. /\ UNCHANGED argVars /\ pc \in Listening
      /\ pc' \in Listening \cup {"crashed"}
  BY DEF LoopStep, AcceptFails, ParentCloses, Accept, Fork, Listening
<1>4. Meant("log")' = Meant("log")
  BY <1>3, MeantKept DEF argVars
<1>5. /\ StdOpen /\ ~opts["daemonize"] => \A p \in Running : StdKept(p)
      /\ LogsToFile => \A p \in Running : LogKept(p)
  BY <1>3 DEF LogInv, StdInPlace, FileInPlace
<1>. SUFFICES
       /\ (\A p \in Running : StdKept(p)) => \A p \in Running' : StdKept(p)'
       /\ (\A p \in Running : LogKept(p)) => \A p \in Running' : LogKept(p)'
  BY <1>3, <1>5, LogInvKept DEF Listening
<1>6. CASE AcceptFails
  <2>1. UNCHANGED <<fds, child>> /\ Log(Server, fds) /\ Running' = Running
    BY <1>6 DEF AcceptFails, Running
  <2>2. ASSUME NEW p \in Running, StdKept(p) PROVE StdKept(p)'
    BY <1>1, <1>2, <2>1, <2>2, LogKeeps DEF StdKept
  <2>3. ASSUME NEW p \in Running, LogKept(p) PROVE LogKept(p)'
    <3>1. Target(p, fds) # Closed
      BY <1>1, <2>3 DEF LogKept, Target, File, Closed
    <3>2. cout'[p].fd = cout[p].fd /\ ~cout'[p].bad
      BY <1>1, <1>2, <2>1, <2>3, <3>1, LogKeeps DEF LogKept
    <3>. QED
      BY <1>4, <2>1, <2>3, <3>2 DEF LogKept, File
  <2>. QED
    BY <2>1, <2>2, <2>3
<1>7. ASSUME NEW c \in Conns, Accept(c)
      PROVE  /\ \A p \in Running' : StdKept(p) => StdKept(p)'
             /\ \A p \in Running' : LogKept(p) => LogKept(p)'
             /\ Running' \subseteq Running
  <2>. DEFINE n == LowestFree(Server)
  <2>1. /\ pc = "accept" /\ UNCHANGED cout
        /\ child' = [child EXCEPT ![c] = "accepted"]
        /\ fds' = [fds EXCEPT ![Server][n] = Conn(c)]
    BY <1>7 DEF Accept
  <2>2. n \in Numbers /\ fds[Server][n] = Closed
    <3>1. 5 \in Numbers /\ fds[Server][5] = Closed
      BY <2>1, ProcessAssumption DEF DInv, Room, FreeAbove, Numbers
    <3>. QED
      BY <3>1, LowestFreeIsFree
  <2>. HIDE DEF n
  <2>3. \A p \in Processes : \A m \in Numbers :
          fds[p][m] # Closed => fds'[p][m] = fds[p][m]
    BY <1>1, <2>1, <2>2 DEF DInv
  <2>4. Running' \subseteq Running
    BY <2>1 DEF DInv, TypeOK, Running
  <2>5. ASSUME NEW p \in Running', StdKept(p) PROVE StdKept(p)'
    BY <1>1, <1>2, <2>1, <2>3, <2>4, <2>5 DEF StdKept, Terminal, Closed
  <2>6. ASSUME NEW p \in Running', LogKept(p) PROVE LogKept(p)'
    BY <1>1, <1>2, <1>4, <2>1, <2>3, <2>4, <2>6 DEF LogKept, File, Closed
  <2>. QED
    BY <2>4, <2>5, <2>6
<1>8. ASSUME NEW c \in Conns, Fork(c)
      PROVE  /\ (\A p \in Running : StdKept(p)) => \A p \in Running' : StdKept(p)'
             /\ (\A p \in Running : LogKept(p)) => \A p \in Running' : LogKept(p)'
  <2>1. CASE UNCHANGED <<child, fds, cout>>
    BY <1>4, <2>1 DEF Running, StdKept, LogKept, File
  <2>2. CASE /\ child' = [child EXCEPT ![c] = "forked"]
             /\ fds' = [fds EXCEPT ![c] = fds[Server]]
             /\ cout' = [cout EXCEPT ![c] = cout[Server]]
    <3>1. fds'[c] = fds[Server] /\ cout'[c] = cout[Server]
      BY <1>1, <2>2 DEF DInv, CoutType
    <3>2. \A p \in Processes : p # c => fds'[p] = fds[p] /\ cout'[p] = cout[p]
      BY <1>1, <2>2 DEF DInv, CoutType
    <3>3. Running' \subseteq Running \cup {c}
      BY <2>2 DEF DInv, TypeOK, Running
    <3>4. \A p \in Running' : \E q \in Running : fds'[p] = fds[q] /\ cout'[p] = cout[q]
      BY <1>2, <3>1, <3>2, <3>3
    <3>. QED
      BY <1>4, <3>4 DEF StdKept, LogKept, File
  <2>. QED
    BY <1>8, <2>1, <2>2 DEF Fork
<1>9. CASE ParentCloses
  <2>1. /\ pc = "parent" /\ UNCHANGED child /\ Running' = Running
        /\ fds' = [fds EXCEPT ![Server][newSocket] = Closed]
        /\ Log(Server, fds')
    BY <1>9 DEF ParentCloses, Running
  <2>2. PICK c \in Conns : fds[Server][newSocket] = Conn(c)
    BY <2>1 DEF DInv, Room, Holds
  <2>3. \A p \in Processes : \A m \in Numbers :
          (\A d \in Conns : fds[p][m] # Conn(d)) => fds'[p][m] = fds[p][m]
    BY <1>1, <2>1, <2>2 DEF DInv
  <2>4. ASSUME NEW p \in Running, StdKept(p) PROVE StdKept(p)'
    <3>1. cout'[p].fd = cout[p].fd
      BY <1>1, <1>2, <2>1, LogKeeps
    <3>. QED
      BY <1>1, <1>2, <2>3, <2>4, <3>1 DEF StdKept, Terminal, Conn
  <2>5. ASSUME NEW p \in Running, LogKept(p) PROVE LogKept(p)'
    <3>1. fds'[p][cout[p].fd] = fds[p][cout[p].fd]
      <4>1. \A d \in Conns : File(Meant("log")) # Conn(d)
        BY DEF File, Conn
      <4>2. p \in Processes /\ cout[p].fd \in Numbers
        BY <1>2, <2>5 DEF LogKept
      <4>. QED
        BY <2>3, <2>5, <4>1, <4>2 DEF LogKept
    <3>2. Target(p, fds') # Closed
      BY <1>1, <2>5, <3>1 DEF LogKept, Target, File, Closed
    <3>3. cout'[p].fd = cout[p].fd /\ ~cout'[p].bad
      BY <1>1, <1>2, <2>1, <2>5, <3>2, LogKeeps DEF LogKept
    <3>. QED
      BY <1>4, <2>5, <3>1, <3>3 DEF LogKept, File
  <2>. QED
    BY <2>1, <2>4, <2>5
<1>. QED
  BY <1>6, <1>7, <1>8, <1>9 DEF LoopStep

LEMMA ChildLogInv ==
  ASSUME DInv, LogInv, ChildStep
  PROVE  LogInv'
<1>1. /\ CoutType /\ 0 .. 2 \subseteq Numbers /\ NULL \notin Numbers
      /\ Server \in Processes /\ Server \notin Conns /\ Conns \subseteq Processes
  BY ProcessAssumption DEF DInv, TypeOK, CoutType, Numbers, Processes
<1>2. PICK c \in Conns :
        ChildCloses(c) \/ ChildLogs(c) \/ ChildReadsBlock(c) \/ ChildExits(c)
  BY DEF ChildStep
<1>3. /\ UNCHANGED argVars /\ pc' = pc /\ child[c] \in {"forked", "serving"}
      /\ \E s \in {"serving", "gone"} : child' = [child EXCEPT ![c] = s]
  BY <1>2 DEF ChildCloses, ChildLogs, ChildReadsBlock, ChildExits, DInv, TypeOK
<1>4. Meant("log")' = Meant("log")
  BY <1>3, MeantKept DEF argVars
<1>5. Running \subseteq Processes /\ Running' \subseteq Running
  BY <1>1, <1>3 DEF DInv, TypeOK, Running
<1>6. CASE ChildLogs(c)
  <2>1. UNCHANGED fds /\ Log(c, fds)
    BY <1>6 DEF ChildLogs
  <2>2. ASSUME NEW p \in Running, StdKept(p) PROVE StdKept(p)'
    BY <1>1, <1>5, <2>1, <2>2, LogKeeps DEF StdKept
  <2>3. ASSUME NEW p \in Running, LogKept(p) PROVE LogKept(p)'
    <3>1. Target(p, fds) # Closed
      BY <1>1, <2>3 DEF LogKept, Target, File, Closed
    <3>2. cout'[p].fd = cout[p].fd /\ ~cout'[p].bad
      BY <1>1, <1>5, <2>1, <2>3, <3>1, LogKeeps DEF LogKept
    <3>. QED
      BY <1>4, <2>1, <2>3, <3>2 DEF LogKept, File
  <2>4. cout'[Server].bad = cout[Server].bad
    BY <1>1, <2>1, LogKeeps
  <2>. QED
    BY <1>3, <1>5, <2>2, <2>3, <2>4, LogInvKept DEF LogInv, StdInPlace, FileInPlace
<1>7. CASE ChildCloses(c) \/ ChildReadsBlock(c) \/ ChildExits(c)
  <2>1. UNCHANGED cout
    BY <1>7 DEF ChildCloses, ChildReadsBlock, ChildExits
  <2>2. \A p \in Running' : \A n \in Numbers : fds[p][n] # Listen => fds'[p][n] = fds[p][n]
    <3>1. CASE ChildExits(c)
      BY <1>1, <1>3, <1>5, <3>1 DEF ChildExits, DInv, TypeOK, Running
    <3>2. CASE ChildCloses(c) \/ ChildReadsBlock(c)
      BY <1>1, <1>5, <3>2 DEF ChildCloses, ChildReadsBlock, DInv
    <3>. QED
      BY <1>7, <3>1, <3>2
  <2>3. ASSUME NEW p \in Running', StdKept(p) PROVE StdKept(p)'
    BY <1>1, <2>1, <2>2, <2>3 DEF StdKept, Terminal, Listen
  <2>4. ASSUME NEW p \in Running', LogKept(p) PROVE LogKept(p)'
    BY <1>4, <2>1, <2>2, <2>4 DEF LogKept, File, Listen
  <2>. QED
    BY <1>3, <1>5, <2>1, <2>3, <2>4, LogInvKept DEF LogInv, StdInPlace, FileInPlace
<1>. QED
  BY <1>2, <1>6, <1>7

LEMMA NextLogInv == DInv /\ LogInv /\ [Next]_vars => LogInv'
<1>. SUFFICES ASSUME DInv, LogInv, [Next]_vars PROVE LogInv'
  OBVIOUS
<1>1. CASE UNCHANGED vars
  <2>1. UNCHANGED <<argVars, pc, cout, fds, child>> /\ Meant("log")' = Meant("log")
    BY <1>1, MeantKept DEF vars, argVars
  <2>2. /\ Running' = Running
        /\ \A p : StdKept(p)' = StdKept(p) /\ LogKept(p)' = LogKept(p)
    BY <2>1 DEF Running, StdKept, LogKept, File
  <2>. QED
    BY <2>1, <2>2, LogInvKept DEF LogInv, StdInPlace, FileInPlace
<1>2. CASE StartStep
  BY <1>2, EarlyLogInv DEF StartStep
<1>3. CASE LoopStep \/ ChildStep
  BY <1>3, LoopLogInv, ChildLogInv
<1>. QED
  BY <1>1, <1>2, <1>3 DEF Next

\* The log of the server and of all its children goes to the file or to the
\* terminal that it belongs to (main.cpp:196-217, secnet.cpp:437-453).
THEOREM LogCorrect == Spec => []LogInPlace
<1>1. DInv /\ LogInv => LogInPlace
  <2>. SUFFICES ASSUME DInv, LogInv, pc \in Listening, StdOpen, startDir # "removed"
                PROVE  /\ ~opts["daemonize"] => \A p \in Running : Target(p, fds) = Terminal
                       /\ LogsToFile =>
                            \A p \in Running : Target(p, fds) = File(Meant("log")) /\ ~cout[p].bad
    BY DEF LogInPlace, LogsToFile
  <2>1. NULL \notin Numbers /\ 1 \in Numbers
    BY ProcessAssumption DEF Numbers
  <2>2. ~opts["daemonize"] => \A p \in Running : Target(p, fds) = Terminal
    BY <2>1 DEF LogInv, StdInPlace, StdKept, Target
  <2>3. LogsToFile => \A p \in Running : Target(p, fds) = File(Meant("log")) /\ ~cout[p].bad
    BY <2>1 DEF LogInv, FileInPlace, LogKept, Target
  <2>. QED
    BY <2>2, <2>3
<1>2. Spec => []LogInv
  BY DInvariance, InitLogInv, NextLogInv, PTL DEF Spec
<1>. QED
  BY <1>1, <1>2, DInvariance, PTL

-----------------------------------------------------------------------------

\* A client that has got a line of the log, or may get one from its child.
Leaky(c) ==
  \/ c \in leaked
  \/ c \in Forked /\ ~cout[c].bad /\ Target(c, fds) = Conn(c)

LeakInv ==
  /\ leaked \subseteq Conns
  /\ pc \in BeforeAccept => leaked = {}
  /\ \A c, d \in Conns : Leaky(c) /\ Leaky(d) => c = d
  /\ \A c \in Conns : Leaky(c) =>
       /\ pc \in {"accept", "fork"} => cout[Server].bad
       /\ pc = "parent" => cout[Server].bad \/ cout[Server].fd = newSocket

LEMMA InitLeakInv == Init => LeakInv
<1>. SUFFICES ASSUME Init PROVE LeakInv
  OBVIOUS
<1>1. \A c : ~Leaky(c)
  BY DEF Init, Leaky, Forked
<1>. QED
  BY <1>1 DEF Init, LeakInv

\* As long as nobody is accepted nobody gets anything.
LEMMA EarlyLeakInv ==
  ASSUME DInv, LeakInv, StartStep
  PROVE  LeakInv'
<1>1. /\ pc \in BeforeAccept /\ child' = child
      /\ pc' \in BeforeAccept \cup {"accept", "crashed"}
  BY DEF StartStep, ParseOption, CompletePaths, ForkDaemon, OpenLog, NewSession,
    CloseStd, MeasureFile, LoadTls, OpenSocket, BeforeAccept
<1>2. leaked = {} /\ Forked' = {}
  BY <1>1 DEF LeakInv, DInv, PInv, Phase, Forked
<1>3. leaked' = {}
  <2>1. Server \in Processes /\ NULL \notin Numbers /\ cout[Server].fd \in Numbers \cup {NULL}
    BY ProcessAssumption DEF Processes, Numbers, DInv, TypeOK
  <2>2. \A c \in Conns : Target(Server, fds) # Conn(c)
    BY <1>1, <2>1 DEF Target, BeforeAccept, DInv, ConnsInPlace, Closed, Conn
  <2>3. Log(Server, fds) => leaked' = {}
    BY <1>2, <2>2 DEF Log
  <2>4. CASE OpenSocket
    <3>. DEFINE n == LowestFree(Server)
    <3>1. /\ fds' = [fds EXCEPT ![Server][n] = Listen]
          /\ UNCHANGED leaked \/ Log(Server, fds')
      BY <2>4 DEF OpenSocket
    <3>. HIDE DEF n
    <3>2. \A m \in Numbers : fds'[Server][m] \in {fds[Server][m], Listen}
      BY <2>1, <3>1 DEF DInv
    <3>3. \A c \in Conns : Target(Server, fds') # Conn(c)
      BY <1>1, <2>1, <3>2 DEF Target, BeforeAccept, DInv, ConnsInPlace, Closed, Listen, Conn
    <3>. QED
      BY <1>2, <3>1, <3>3 DEF Log
  <2>5. CASE ~OpenSocket
    <3>1. UNCHANGED leaked \/ Log(Server, fds)
      BY <2>5 DEF StartStep, ParseOption, CompletePaths, ForkDaemon, OpenLog, NewSession,
        CloseStd, MeasureFile, LoadTls
    <3>. QED
      BY <1>2, <2>3, <3>1
  <2>. QED
    BY <2>4, <2>5
<1>4. \A c : ~Leaky(c)'
  BY <1>2, <1>3 DEF Leaky
<1>. QED
  BY <1>3, <1>4 DEF LeakInv

\* What a step may do to the clients that get lines.
LEMMA LeakKept ==
  ASSUME DInv, LeakInv, pc' \notin BeforeAccept, leaked' \subseteq Conns,
         \A c \in Conns : Leaky(c)' => Leaky(c),
         \A c \in Conns : Leaky(c) =>
           /\ pc' \in {"accept", "fork"} => cout'[Server].bad
           /\ pc' = "parent" => cout'[Server].bad \/ cout'[Server].fd = newSocket'
  PROVE  LeakInv'
BY DEF LeakInv

\* The next line of the server fails when a child has its connection under the
\* number of std::cout, and no child after that can write.
LEMMA LoopLeakInv ==
  ASSUME DInv, LeakInv, LoopStep
  PROVE  LeakInv'
<1>1. /\ CoutType /\ NULL \notin Numbers
      /\ Server \in Processes /\ Server \notin Conns /\ Conns \subseteq Processes
  BY ProcessAssumption DEF DInv, TypeOK, CoutType, Numbers, Processes
<1>2. pc \in Listening /\ pc' \in Listening \cup {"crashed"} /\ pc' \notin BeforeAccept
  BY DEF LoopStep, AcceptFails, ParentCloses, Accept, Fork, Listening, BeforeAccept
<1>3. CASE AcceptFails
  <2>1. /\ pc = "accept" /\ pc' \in {"accept", "crashed"}
        /\ UNCHANGED <<fds, child>> /\ Log(Server, fds)
    BY <1>3 DEF AcceptFails
  <2>2. \A c \in Conns : Target(Server, fds) # Conn(c)
    BY <1>1, <2>1 DEF CoutType, Target, DInv, ConnsInPlace, Closed, Conn
  <2>3. leaked' = leaked
    BY <2>1, <2>2 DEF Log
  <2>4. \A c \in Conns : cout'[c] = cout[c]
    BY <1>1, <2>1, LogKeeps
  <2>5. \A c \in Conns : Leaky(c)' = Leaky(c)
    BY <2>1, <2>3, <2>4 DEF Leaky, Forked, Target, Closed, Conn
  <2>6. cout[Server].bad => cout'[Server].bad
    BY <1>1, <2>1, LogKeeps
  <2>. QED
    BY <1>2, <2>1, <2>3, <2>5, <2>6, LeakKept DEF LeakInv
<1>4. ASSUME NEW c \in Conns, Accept(c) PROVE LeakInv'
  <2>1. /\ pc = "accept" /\ pc' = "fork" /\ UNCHANGED <<cout, leaked>>
        /\ child' = [child EXCEPT ![c] = "accepted"]
        /\ \A d \in Conns : fds'[d] = fds[d]
    BY <1>1, <1>4 DEF Accept, DInv
  <2>2. Forked' \subseteq Forked
    BY <2>1 DEF DInv, TypeOK, Forked
  <2>3. \A d \in Conns : Leaky(d)' => Leaky(d)
    BY <2>1, <2>2 DEF Leaky, Forked, Target, Closed, Conn
  <2>. QED
    BY <1>2, <2>1, <2>3, LeakKept DEF LeakInv
<1>5. ASSUME NEW c \in Conns, Fork(c) PROVE LeakInv'
  <2>1. /\ pc = "fork" /\ pc' = "parent" /\ UNCHANGED <<newSocket, leaked>>
        /\ fds[Server][newSocket] = Conn(c)
    BY <1>5 DEF Fork
  <2>2. CASE UNCHANGED <<child, fds, cout>>
    <3>1. \A d \in Conns : Leaky(d)' = Leaky(d)
      BY <2>1, <2>2 DEF Leaky, Forked, Target, Closed, Conn
    <3>. QED
      BY <1>2, <2>1, <2>2, <3>1, LeakKept DEF LeakInv
  <2>3. CASE /\ child' = [child EXCEPT ![c] = "forked"]
             /\ fds' = [fds EXCEPT ![c] = fds[Server]]
             /\ cout' = [cout EXCEPT ![c] = cout[Server]]
    <3>1. /\ fds'[c] = fds[Server] /\ cout'[c] = cout[Server]
          /\ \A p \in Processes : p # c => fds'[p] = fds[p] /\ cout'[p] = cout[p]
      BY <1>1, <2>3 DEF DInv, CoutType
    <3>2. \A d \in Conns : d # c => (d \in Forked' <=> d \in Forked)
      BY <2>3 DEF DInv, TypeOK, Forked
    <3>3. \A d \in Conns : d # c => Leaky(d)' = Leaky(d)
      BY <1>1, <2>1, <3>1, <3>2 DEF Leaky, Target, Closed, Conn
    <3>4. cout'[Server] = cout[Server]
      BY <1>1, <3>1
    <3>5. CASE cout[Server].bad
      <4>1. Leaky(c)' => Leaky(c)
        BY <2>1, <3>1, <3>5 DEF Leaky
      <4>. QED
        BY <1>2, <2>1, <3>3, <3>4, <3>5, <4>1, LeakKept DEF LeakInv
    <3>6. CASE ~cout[Server].bad
      <4>1. \A d \in Conns : ~Leaky(d)
        BY <2>1, <3>6 DEF LeakInv
      <4>2. Leaky(c)' => cout[Server].fd = newSocket
        <5>. SUFFICES ASSUME Leaky(c)' PROVE cout[Server].fd = newSocket
          OBVIOUS
        <5>1. c \notin leaked
          BY <4>1 DEF Leaky
        <5>2. Target(c, fds)' = Conn(c)'
          BY <2>1, <5>1 DEF Leaky
        <5>3. Target(Server, fds) = Conn(c)
          BY <3>1, <5>2 DEF Target, Closed, Conn
        <5>. QED
          BY <1>1, <2>1, <5>3 DEF CoutType, Target, DInv, ConnsInPlace, Closed, Conn
      <4>. QED
        BY <1>2, <2>1, <3>3, <3>4, <4>1, <4>2 DEF LeakInv
    <3>. QED
      BY <3>5, <3>6
  <2>. QED
    BY <1>5, <2>2, <2>3 DEF Fork
<1>6. CASE ParentCloses
  <2>1. /\ pc = "parent" /\ pc' \in {"accept", "crashed"} /\ UNCHANGED child
        /\ fds' = [fds EXCEPT ![Server][newSocket] = Closed]
        /\ Log(Server, fds')
    BY <1>6 DEF ParentCloses
  <2>2. newSocket \in Numbers
    BY <2>1 DEF DInv, TypeOK
  <2>3. /\ fds'[Server][newSocket] = Closed
        /\ \A n \in Numbers : n # newSocket => fds'[Server][n] = fds[Server][n]
        /\ \A c \in Conns : fds'[c] = fds[c]
    BY <1>1, <2>1, <2>2 DEF DInv
  <2>4. \A c \in Conns : Target(Server, fds') # Conn(c)
    BY <1>1, <2>1, <2>3 DEF CoutType, Target, DInv, ConnsInPlace, Closed, Conn
  <2>5. leaked' = leaked
    BY <2>1, <2>4 DEF Log
  <2>6. \A c \in Conns : cout'[c] = cout[c]
    BY <1>1, <2>1, LogKeeps
  <2>7. \A c \in Conns : Leaky(c)' = Leaky(c)
    BY <2>1, <2>3, <2>5, <2>6 DEF Leaky, Forked, Target, Closed, Conn
  <2>8. cout[Server].bad \/ cout[Server].fd = newSocket => cout'[Server].bad
    <3>1. cout[Server].fd = newSocket => Target(Server, fds') = Closed
      BY <1>1, <2>2, <2>3 DEF Target
    <3>. QED
      BY <1>1, <2>1, <3>1, LogKeeps
  <2>. QED
    BY <1>2, <2>1, <2>5, <2>7, <2>8, LeakKept DEF LeakInv
<1>. QED
  BY <1>3, <1>4, <1>5, <1>6 DEF LoopStep

LEMMA ChildLeakInv ==
  ASSUME DInv, LeakInv, ChildStep
  PROVE  LeakInv'
<1>1. /\ CoutType /\ NULL \notin Numbers
      /\ Server \in Processes /\ Server \notin Conns /\ Conns \subseteq Processes
  BY ProcessAssumption DEF DInv, TypeOK, CoutType, Numbers, Processes
<1>2. PICK c \in Conns :
        ChildCloses(c) \/ ChildLogs(c) \/ ChildReadsBlock(c) \/ ChildExits(c)
  BY DEF ChildStep
<1>3. /\ UNCHANGED <<pc, newSocket>> /\ child[c] \in {"forked", "serving"}
      /\ \E s \in {"serving", "gone"} : child' = [child EXCEPT ![c] = s]
  BY <1>2 DEF ChildCloses, ChildLogs, ChildReadsBlock, ChildExits, DInv, TypeOK
<1>4. c \in Forked /\ Forked' \subseteq Forked /\ pc' \notin BeforeAccept
  BY <1>3 DEF DInv, PInv, Phase, TypeOK, Forked
<1>5. CASE ChildLogs(c)
  <2>1. UNCHANGED fds /\ Log(c, fds)
    BY <1>5 DEF ChildLogs
  <2>2. \A d \in Conns : Target(c, fds) = Conn(d) => d = c
    BY <1>1, <1>4 DEF CoutType, Target, DInv, ConnsInPlace, Closed, Conn
  <2>3. leaked' \subseteq Conns /\ \A d \in leaked' : Leaky(d)
    BY <1>4, <2>1, <2>2 DEF Log, Leaky, LeakInv
  <2>4. /\ \A p \in Processes : cout'[p].fd = cout[p].fd /\ (cout[p].bad => cout'[p].bad)
        /\ cout'[Server] = cout[Server]
    BY <1>1, <2>1, LogKeeps
  <2>5. \A d \in Conns : Leaky(d)' => Leaky(d)
    BY <1>1, <1>4, <2>1, <2>3, <2>4 DEF Leaky, Target, Closed, Conn
  <2>. QED
    BY <1>3, <1>4, <2>3, <2>4, <2>5, LeakKept DEF LeakInv
<1>6. CASE ChildCloses(c) \/ ChildReadsBlock(c) \/ ChildExits(c)
  <2>1. /\ UNCHANGED <<cout, leaked>>
        /\ \A d \in Conns, n \in Numbers : fds'[d][n] = fds[d][n] \/ fds'[d][n] = Closed
    BY <1>1, <1>6 DEF ChildCloses, ChildReadsBlock, ChildExits, DInv
  <2>2. \A d \in Conns : Leaky(d)' => Leaky(d)
    BY <1>1, <1>4, <2>1 DEF CoutType, Leaky, Target, Closed, Conn
  <2>. QED
    BY <1>3, <1>4, <2>1, <2>2, LeakKept DEF LeakInv
<1>. QED
  BY <1>2, <1>5, <1>6

LEMMA NextLeakInv == DInv /\ LeakInv /\ [Next]_vars => LeakInv'
<1>. SUFFICES ASSUME DInv, LeakInv, [Next]_vars PROVE LeakInv'
  OBVIOUS
<1>1. CASE UNCHANGED vars
  BY <1>1 DEF vars, LeakInv, Leaky, Forked, Target, Closed, Conn
<1>2. CASE StartStep \/ LoopStep \/ ChildStep
  BY <1>2, EarlyLeakInv, LoopLeakInv, ChildLeakInv
<1>. QED
  BY <1>1, <1>2 DEF Next

\* Lines of the log reach one client at most, whatever descriptors the server was
\* started with (main.cpp:215-217, secnet.cpp:437-453).
THEOREM LeakCorrect == Spec => []LeakEndsWithFirstClient
<1>1. LeakInv => LeakEndsWithFirstClient
  <2>. SUFFICES ASSUME LeakInv PROVE Cardinality(leaked) <= 1
    BY DEF LeakEndsWithFirstClient
  <2>1. \A c, d \in leaked : c = d
    BY DEF LeakInv, Leaky
  <2>2. CASE leaked = {}
    BY <2>2, FS_EmptySet
  <2>3. CASE leaked # {}
    <3>1. PICK c : leaked = {c}
      BY <2>1, <2>3
    <3>. QED
      BY <3>1, FS_Singleton
  <2>. QED
    BY <2>2, <2>3
<1>2. Spec => []LeakInv
  BY DInvariance, InitLeakInv, NextLeakInv, PTL DEF Spec
<1>. QED
  BY <1>1, <1>2, PTL

=============================================================================

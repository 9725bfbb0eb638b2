------------------------------- MODULE Startup -------------------------------
(***************************************************************************)
(* From the command line of a Shepoo server to its first clients:          *)
(* main() and daemonize() (server/src/main.cpp), then SecNet::Initialize   *)
(* and the accept loop (server/src/secnet.cpp) as far as file names,       *)
(* descriptor numbers and the log are concerned.                           *)
(*                                                                         *)
(* daemonize() changes the working directory and closes descriptors 0 to   *)
(* 2.  A new descriptor gets the lowest free number, and std::cout writes  *)
(* to whatever has the number it was bound to: module Listener says who    *)
(* holds a socket, this one under which number.                            *)
(***************************************************************************)
EXTENDS Integers, Sequences, FiniteSets

CONSTANTS
  CommandLines, \* bound: sequences of options, see OptionAssumption
  StartDirs,    \* bound: the directories that the server is started in
  Worlds,       \* bound: what works around the server, see WorldAssumption
  Inherited,    \* bound: the sets of standard descriptors that are open at the start
  Conns,        \* bound: the connections, whose children have the same names
  Server,       \* the server process
  MaxFd,        \* bound: the highest descriptor number
  NULL          \* an empty string, or no descriptor

\* Values of options that name files: <<directory, name>>, where the directory
\* "rel" stands for a relative name.  A flag, once given, is set.
PathOptions == {"block", "shuffle", "log", "cert", "key", "dh"}
Flags       == {"daemonize", "sure"}
Exits       == {"help", "version"}

ASSUME OptionAssumption ==
  \A l \in CommandLines :
    /\ l \in Seq({l[i] : i \in DOMAIN l})
    /\ \A i \in DOMAIN l :
         /\ l[i].name \in Flags => l[i].value = TRUE
         /\ l[i].name \in PathOptions => Len(l[i].value) = 2 /\ l[i].value # NULL

\* Directories are not "rel", and completed names are not empty.
ASSUME DirAssumption ==
  /\ "rel" \notin StartDirs
  /\ \A d \in StartDirs \cup {"garbage"} :
       \A l \in CommandLines : \A i \in DOMAIN l :
         l[i].name \in PathOptions => <<d, l[i].value[2]>> # NULL

\* badFiles: the names of unreadable files; fork (of the daemon), chdir and bind:
\* whether these calls succeed.
ASSUME WorldAssumption ==
  \A w \in Worlds : {w.fork, w.chdir, w.bind} \subseteq BOOLEAN

ASSUME ProcessAssumption ==
  /\ Server \notin Conns
  /\ Inherited \subseteq SUBSET (0 .. 2)
  /\ MaxFd \in Nat /\ MaxFd >= 6
  /\ NULL \notin 0 .. MaxFd

VARIABLES
  startDir, \* the directory that the server is started in
  std,      \* the standard descriptors that are open at the start
  world,    \* the member of Worlds that this is
  line,     \* the command line
  argv,     \* what is left of it
  opts,     \* the variables of main() that options set
  pc,       \* where the server stands
  cwd,      \* its working directory
  fds,      \* for every process, what each descriptor number refers to
  cout,     \* the descriptor that std::cout writes to, and whether it has failed
  newSocket, \* the number of the connection that was accepted, or NULL
  child,    \* the state of the child for every connection
  opened,   \* the files opened so far, by option
  leaked    \* the clients that have got lines of the log

argVars == <<startDir, std, world, line, argv, opts>>
vars == <<argVars, pc, cwd, fds, cout, newSocket, child, opened, leaked>>

Processes == Conns \cup {Server}
Numbers   == 0 .. MaxFd

Closed   == [kind |-> "closed"]
Terminal == [kind |-> "terminal"]
Listen   == [kind |-> "listen"]
Conn(c)  == [kind |-> "conn", name |-> c]
File(p)  == [kind |-> "file", name |-> p]

\* open(), socket() and accept() return the lowest free number.
LowestFree(p) ==
  CHOOSE n \in Numbers :
    fds[p][n] = Closed /\ \A m \in Numbers : fds[p][m] = Closed => n <= m

\* The file that a name refers to when it is used.
Resolve(path) == IF path[1] = "rel" THEN <<cwd, path[2]>> ELSE path

Readable(path) == path[1] # "garbage" /\ path[2] \notin world.badFiles

Init ==
  /\ startDir \in StartDirs
  /\ world \in Worlds
  /\ line \in CommandLines
  /\ argv = line
  /\ opts = [o \in PathOptions \cup Flags |-> IF o \in PathOptions THEN NULL ELSE FALSE]
  /\ pc = "options"
  /\ cwd = startDir
  /\ std \in Inherited
  /\ fds = [p \in Processes |->
              [n \in Numbers |-> IF n \in std THEN Terminal ELSE Closed]]
  /\ cout = [p \in Processes |-> [fd |-> 1, bad |-> FALSE]]
  /\ newSocket = NULL
  /\ child = [c \in Conns |-> "none"]
  /\ opened = {}
  /\ leaked = {}

-----------------------------------------------------------------------------
(***************************************************************************)
(* std::cout << ... << std::endl in process p with the given descriptors.  *)
(* A failing write sets badbit, and nothing is written from then on; one   *)
(* to the listening socket raises SIGPIPE.                                 *)
(***************************************************************************)

Target(p, table) == IF cout[p].fd = NULL THEN Closed ELSE table[p][cout[p].fd]

Killed(p, table) == ~cout[p].bad /\ Target(p, table) = Listen

Log(p, table) ==
  /\ cout' = [cout EXCEPT ![p].bad = @ \/ Target(p, table) = Closed]
  /\ leaked' = leaked \cup
       {c \in Conns : ~cout[p].bad /\ Target(p, table) = Conn(c)}

-----------------------------------------------------------------------------
(***************************************************************************)
(* main(): options and paths.                                              *)
(***************************************************************************)

\* A later option overrides an earlier one; unknown ones are passed over.
ParseOption ==
  /\ pc = "options"
  /\ argv # <<>>
  /\ argv' = Tail(argv)
  /\ LET o == Head(argv) IN
       /\ pc' = IF o.name \in Exits THEN "exited" ELSE "options"
       /\ opts' = IF o.name \in DOMAIN opts
                    THEN [opts EXCEPT ![o.name] = o.value] ELSE opts
  /\ UNCHANGED <<startDir, std, world, line, cwd, fds, cout, newSocket, child, opened,
                 leaked>>

MissingTls(o) == \E f \in {"cert", "key", "dh"} : o[f] = NULL

MissingForBoth(o) == MissingTls(o) \/ (o["block"] # NULL /\ o["shuffle"] # NULL)

MissingArguments(o) ==
  \/ o["block"] = NULL /\ o["shuffle"] = NULL
  \/ o["block"] # NULL /\ o["shuffle"] # NULL /\ ~o["sure"]
  \/ MissingTls(o)

\* The buffer stays uninitialised when getcwd() fails.
Getcwd == IF startDir = "removed" THEN "garbage" ELSE cwd

CompleteNot(path) == path

Complete(path) ==
  IF path # NULL /\ path[1] = "rel" THEN <<Getcwd, path[2]>> ELSE path

CompletePaths ==
  /\ pc = "options"
  /\ argv = <<>>
  /\ IF MissingArguments(opts)
       THEN pc' = "exited" /\ UNCHANGED opts
       ELSE /\ opts' = [o \in DOMAIN opts |->
                          IF o \in PathOptions THEN Complete(opts[o]) ELSE opts[o]]
            /\ pc' = IF opts["daemonize"] THEN "daemonize" ELSE "storage"
  /\ UNCHANGED <<startDir, std, world, line, argv, cwd, fds, cout, newSocket, child,
                 opened, leaked>>

(***************************************************************************)
(* daemonize().                                                            *)
(***************************************************************************)

\* The first process exits; from here on Server is its child.
ForkDaemon ==
  /\ pc = "daemonize"
  /\ pc' = IF world.fork THEN "openLog" ELSE "exited"
  /\ UNCHANGED <<argVars, cwd, fds, cout, newSocket, child, opened, leaked>>

OpenLogOnly ==
  /\ pc = "openLog"
  /\ fds' = IF opts["log"] = NULL THEN fds
            ELSE [fds EXCEPT ![Server][LowestFree(Server)] = File(Resolve(opts["log"]))]
  /\ pc' = "session"
  /\ UNCHANGED <<argVars, cwd, cout, newSocket, child, opened, leaked>>

\* std::cout is bound to the stream even if the file could not be opened.
OpenLog ==
  /\ pc = "openLog"
  /\ IF opts["log"] = NULL THEN UNCHANGED <<fds, cout, opened>>
     ELSE LET path == Resolve(opts["log"])
              n == LowestFree(Server)
          IN  IF Readable(path)
                THEN /\ fds' = [fds EXCEPT ![Server][n] = File(path)]
                     /\ cout' = [cout EXCEPT ![Server].fd = n]
                     /\ opened' = opened \cup {<<"log", path>>}
                ELSE /\ cout' = [cout EXCEPT ![Server].fd = NULL]
                     /\ UNCHANGED <<fds, opened>>
  /\ pc' = "session"
  /\ UNCHANGED <<argVars, cwd, newSocket, child, leaked>>

\* setsid() cannot fail in a process that has just been forked.
NewSession ==
  /\ pc = "session"
  /\ IF world.chdir THEN cwd' = "/" /\ pc' = "closeStd" /\ UNCHANGED <<cout, leaked>>
                    ELSE Log(Server, fds) /\ pc' = "exited" /\ UNCHANGED cwd
  /\ UNCHANGED <<argVars, fds, newSocket, child, opened>>

CloseStd ==
  /\ pc = "closeStd"
  /\ fds' = [fds EXCEPT ![Server] = [n \in Numbers |-> IF n \in 0 .. 2 THEN Closed ELSE @[n]]]
  /\ pc' = "storage"
  /\ UNCHANGED <<argVars, cwd, cout, newSocket, child, opened, leaked>>

-----------------------------------------------------------------------------
(***************************************************************************)
(* The constructor of Blockstorage, and Initialize.                        *)
(***************************************************************************)

MeasureFile ==
  /\ pc = "storage"
  /\ opened' = IF opts["block"] = NULL THEN opened
               ELSE opened \cup {<<"block", Resolve(opts["block"])>>}
  /\ pc' = "tls"
  /\ UNCHANGED <<argVars, cwd, fds, cout, newSocket, child, leaked>>

\* The TLS files in the order in which they are read, each with those before it.
UpTo == [cert |-> {"cert"}, key |-> {"cert", "key"}, dh |-> {"cert", "key", "dh"}]

\* Each file is opened, read and closed before the next; fopen() of the
\* parameters is not checked before fclose().
LoadTls ==
  /\ pc = "tls"
  /\ LET read == {f \in DOMAIN UpTo : \A g \in UpTo[f] : Readable(Resolve(opts[g]))}
     IN  /\ opened' = opened \cup {<<f, Resolve(opts[f])>> : f \in read}
         /\ \/ read = DOMAIN UpTo /\ pc' = "socket" /\ UNCHANGED <<cout, leaked>>
            \/ read # DOMAIN UpTo /\ Log(Server, fds) /\ pc' = "exited"
            \/ read = {"cert", "key"} /\ pc' = "crashed" /\ UNCHANGED <<cout, leaked>>
  /\ UNCHANGED <<argVars, cwd, fds, newSocket, child>>

OpenSocket ==
  /\ pc = "socket"
  /\ fds' = [fds EXCEPT ![Server][LowestFree(Server)] = Listen]
  /\ IF world.bind THEN pc' = "accept" /\ UNCHANGED <<cout, leaked>>
                   ELSE Log(Server, fds') /\ pc' = "exited"
  /\ UNCHANGED <<argVars, cwd, newSocket, child, opened>>

-----------------------------------------------------------------------------
(***************************************************************************)
(* ListenLoop, and the descriptors of the children.                        *)
(***************************************************************************)

AcceptFails ==
  /\ pc = "accept"
  /\ Log(Server, fds)
  /\ pc' = IF Killed(Server, fds) THEN "crashed" ELSE "accept"
  /\ UNCHANGED <<argVars, cwd, fds, newSocket, child, opened>>

AcceptUnchecked(c) ==
  /\ pc = "accept"
  /\ child[c] = "none"
  /\ newSocket' = NULL
  /\ pc' = "fork"
  /\ UNCHANGED <<argVars, cwd, fds, cout, child, opened, leaked>>

Accept(c) ==
  /\ pc = "accept"
  /\ child[c] = "none"
  /\ child' = [child EXCEPT ![c] = "accepted"]
  /\ newSocket' = LowestFree(Server)
  /\ fds' = [fds EXCEPT ![Server][newSocket'] = Conn(c)]
  /\ pc' = "fork"
  /\ UNCHANGED <<argVars, cwd, cout, opened, leaked>>

\* The child gets copies of the descriptors and of std::cout.
Fork(c) ==
  /\ pc = "fork"
  /\ fds[Server][newSocket] = Conn(c)
  /\ \/ /\ child' = [child EXCEPT ![c] = "forked"]
        /\ fds' = [fds EXCEPT ![c] = fds[Server]]
        /\ cout' = [cout EXCEPT ![c] = cout[Server]]
     \/ UNCHANGED <<child, fds, cout>>
  /\ pc' = "parent"
  /\ UNCHANGED <<argVars, cwd, newSocket, opened, leaked>>

ParentLogsFirst ==
  /\ pc = "parent"
  /\ fds' = [fds EXCEPT ![Server][newSocket] = Closed]
  /\ newSocket' = NULL
  /\ Log(Server, fds)
  /\ pc' = IF Killed(Server, fds) THEN "crashed" ELSE "accept"
  /\ UNCHANGED <<argVars, cwd, child, opened>>

ParentCloses ==
  /\ pc = "parent"
  /\ fds' = [fds EXCEPT ![Server][newSocket] = Closed]
  /\ newSocket' = NULL
  /\ Log(Server, fds')
  /\ pc' = IF Killed(Server, fds') THEN "crashed" ELSE "accept"
  /\ UNCHANGED <<argVars, cwd, child, opened>>

ChildCloses(c) ==
  /\ child[c] = "forked"
  /\ child' = [child EXCEPT ![c] = "serving"]
  /\ fds' = [fds EXCEPT ![c] = [n \in Numbers |-> IF @[n] = Listen THEN Closed ELSE @[n]]]
  /\ UNCHANGED <<argVars, pc, cwd, cout, newSocket, opened, leaked>>

ChildLogs(c) ==
  /\ child[c] = "serving"
  /\ Log(c, fds)
  /\ UNCHANGED <<argVars, pc, cwd, fds, newSocket, child, opened>>

\* getBlock opens the file by its name again, and closes it.
ChildReadsBlock(c) ==
  /\ child[c] = "serving"
  /\ opts["block"] # NULL
  /\ opened' = opened \cup {<<"block", Resolve(opts["block"])>>}
  /\ UNCHANGED <<argVars, pc, cwd, fds, cout, newSocket, child, leaked>>

ChildExits(c) ==
  /\ child[c] = "serving"
  /\ child' = [child EXCEPT ![c] = "gone"]
  /\ fds' = [fds EXCEPT ![c] = [n \in Numbers |-> Closed]]
  /\ UNCHANGED <<argVars, pc, cwd, cout, newSocket, opened, leaked>>

-----------------------------------------------------------------------------

StartStep ==
  \/ ParseOption \/ CompletePaths
  \/ ForkDaemon \/ OpenLog \/ NewSession \/ CloseStd
  \/ MeasureFile \/ LoadTls \/ OpenSocket

LoopStep == AcceptFails \/ ParentCloses \/ \E c \in Conns : Accept(c) \/ Fork(c)

ChildStep ==
  \E c \in Conns :
    ChildCloses(c) \/ ChildLogs(c) \/ ChildReadsBlock(c) \/ ChildExits(c)

Next == StartStep \/ LoopStep \/ ChildStep

Spec == Init /\ [][Next]_vars

\* Everything before the accept loop is straight code.
FairSpec == Spec /\ WF_vars(StartStep)

-----------------------------------------------------------------------------
(***************************************************************************)
(* Properties.                                                             *)
(***************************************************************************)

Listening == {"accept", "fork", "parent"}

Objects == {Closed, Terminal, Listen} \cup {Conn(c) : c \in Conns}

TypeOK ==
  /\ opts["daemonize"] \in BOOLEAN /\ opts["sure"] \in BOOLEAN
  /\ pc \in {"options", "daemonize", "openLog", "session", "closeStd", "storage",
             "tls", "socket", "exited", "crashed"} \cup Listening
  /\ cwd \in {startDir, "/"}
  /\ \A p \in Processes : \A n \in Numbers :
       fds[p][n] \in Objects \/ fds[p][n].kind = "file"
  /\ cout \in [Processes -> [fd : Numbers \cup {NULL}, bad : BOOLEAN]]
  /\ newSocket \in Numbers \cup {NULL}
  /\ newSocket # NULL <=> pc \in {"fork", "parent"}
  /\ child \in [Conns -> {"none", "accepted", "forked", "serving", "gone"}]

Given(o) == \E i \in 1 .. Len(line) : line[i].name = o

\* The place of the last option o.
LastPlace(o) ==
  CHOOSE i \in 1 .. Len(line) :
    line[i].name = o /\ \A j \in i + 1 .. Len(line) : line[j].name # o

\* The file that the last option o means to the user who started the server.
Meant(o) ==
  LET path == line[LastPlace(o)].value
  IN  IF path[1] = "rel" THEN <<startDir, path[2]>> ELSE path

\* Every file that the server or a child ever opens is the one that the user
\* meant, although daemonize() changes the directory before most of them are
\* opened (main.cpp:120-145,209; blockstorage.cpp:28).
PathsKept ==
  startDir # "removed" => \A f \in opened : f[2] = Meant(f[1])

\* What a server needs, whatever the order of the options (main.cpp:109-118).
Proper ==
  /\ ~\E e \in Exits : Given(e)
  /\ Given("block") \/ Given("shuffle")
  /\ Given("block") /\ Given("shuffle") => Given("sure")
  /\ Given("cert") /\ Given("key") /\ Given("dh")

\* With the files and the calls in order, a proper command line leads to the
\* accept loop (main.cpp:109-157, secnet.cpp:321-419).
Works ==
  /\ startDir # "removed"
  /\ world.fork /\ world.chdir /\ world.bind
  /\ \A o \in {"cert", "key", "dh"} : Given(o) => Readable(Meant(o))

StartsWhenProper == pc = "options" /\ Proper /\ Works ~> pc = "accept"

Running == {Server} \cup {c \in Conns : child[c] \in {"forked", "serving"}}

StdOpen == std = 0 .. 2

\* Where --logFile says, or on the terminal of a server that is no daemon, go
\* all lines that the server and its children log, although three descriptor
\* numbers are given away (main.cpp:196-217).
LogInPlace ==
  pc \in Listening /\ StdOpen /\ startDir # "removed" =>
    /\ ~opts["daemonize"] => \A p \in Running : Target(p, fds) = Terminal
    /\ opts["daemonize"] /\ Given("log") /\ Readable(Meant("log")) =>
         \A p \in Running : Target(p, fds) = File(Meant("log")) /\ ~cout[p].bad

\* Whatever descriptors the server was started with: lines of the log reach one
\* client at most, because the server's next line fails, and std::cout with it,
\* before another child is forked (main.cpp:215-217, secnet.cpp:437-453).
LeakEndsWithFirstClient == Cardinality(leaked) <= 1

\* "Where to put log-messages in daemon mode" (main.cpp:174) is the log file, or
\* nowhere: no client gets them.
NoLogToClients == StdOpen => leaked = {}

=============================================================================

----------------------------- MODULE MCStartup ------------------------------
(***************************************************************************)
(* Instances of Startup for TLC: command lines that lack one thing each,   *)
(* that repeat an option, and that mix relative and absolute names.        *)
(***************************************************************************)
EXTENDS Startup

Option(name) == [name |-> name, value |-> TRUE]
Rel(name)    == [name |-> name, value |-> <<"rel", name>>]
Abs(name)    == [name |-> name, value |-> <<"/etc", name>>]

Tls == <<Rel("cert"), Abs("key"), Rel("dh")>>

Starting ==
  {Tls \o <<Rel("block")>>,
   <<Rel("shuffle")>> \o Tls,
   <<Abs("block")>> \o Tls \o <<Rel("shuffle"), Option("sure")>>,
   Tls \o <<Abs("block"), Rel("block"), Option("unknown")>>}

Refused ==
  {<<>>, Tls, <<Rel("block")>> \o Tail(Tls),
   <<Rel("block"), Rel("shuffle")>> \o Tls,
   Tls \o <<Rel("block"), Option("help")>>,
   <<Option("version")>> \o Tls}

MCCommandLines ==
  Starting \cup Refused
    \cup {<<Option("daemonize")>> \o l : l \in Starting}
    \cup {l \o <<log, Option("daemonize")>> : l \in Starting,
                                              log \in {Rel("log"), Abs("log")}}

World(fork, chdir, bind, badFiles) ==
  [fork |-> fork, chdir |-> chdir, bind |-> bind, badFiles |-> badFiles]

MCWorlds ==
  {World(TRUE, TRUE, TRUE, bad) : bad \in {{}, {"log"}, {"dh"}, {"key"}}}
    \cup {World(FALSE, TRUE, TRUE, {}), World(TRUE, FALSE, TRUE, {}),
          World(TRUE, TRUE, FALSE, {})}

MCInherited == SUBSET (0 .. 2)

=============================================================================

------------------------------ MODULE Sessions ------------------------------
(***************************************************************************)
(* What the accept loop of a Shepoo server promises its clients, without   *)
(* processes and descriptors.  Module Listener implements it.              *)
(*                                                                         *)
(* Clients are taken in the order of their arrival, one at a time.  A      *)
(* served session ends by itself: neither another session nor the death of *)
(* the server ends it.  A client in the queue is turned away only when the *)
(* server is dead, and no new server opens while a session lasts.          *)
(***************************************************************************)
EXTENDS Sequences, Naturals

CONSTANTS
  Conns,     \* bound: the sessions
  MaxBacklog \* the clients that may wait

VARIABLES
  service, \* "closing": the server is dead and clients can still arrive
  session, \* the state of every session
  queue    \* the waiting clients in the order of their arrival

sessionVars == <<service, session, queue>>

\* The server has a connection in its hands before the child is there and, if
\* the child is quick, after it has gone.
InHand == {c \in Conns : session[c] \in {"taken", "finished"}}

Ongoing == InHand \cup {c \in Conns : session[c] = "served"}

\* The sessions in one of the given states end.
Cut(states) ==
  session' = [c \in Conns |-> IF session[c] \in states THEN "over" ELSE session[c]]

Init ==
  /\ service = "down"
  /\ session = [c \in Conns |-> "none"]
  /\ queue = <<>>

Open ==
  /\ service = "down"
  /\ Ongoing = {}
  /\ service' = "up"
  /\ UNCHANGED <<session, queue>>

Arrive(c) ==
  /\ service # "down"
  /\ session[c] = "none"
  /\ Len(queue) < MaxBacklog
  /\ session' = [session EXCEPT ![c] = "waiting"]
  /\ queue' = Append(queue, c)
  /\ UNCHANGED service

Take ==
  /\ service = "up"
  /\ InHand = {}
  /\ queue # <<>>
  /\ session' = [session EXCEPT ![Head(queue)] = "taken"]
  /\ queue' = Tail(queue)
  /\ UNCHANGED service

Serve(c) ==
  /\ service = "up"
  /\ session[c] = "taken"
  /\ session' = [session EXCEPT ![c] = "served"]
  /\ UNCHANGED <<service, queue>>

\* The server has no child to give, or the child has gone.
Release(c) ==
  /\ service = "up"
  /\ c \in InHand
  /\ session' = [session EXCEPT ![c] = "over"]
  /\ UNCHANGED <<service, queue>>

Finish(c) ==
  /\ session[c] = "served"
  /\ \/ session' = [session EXCEPT ![c] = "over"]
     \/ /\ service = "up" /\ InHand = {}
        /\ session' = [session EXCEPT ![c] = "finished"]
  /\ UNCHANGED <<service, queue>>

Stop ==
  /\ service = "up"
  /\ \/ /\ service' = "closing"
        /\ Cut({"taken", "finished"})
        /\ UNCHANGED queue
     \/ /\ service' = "down"
        /\ Cut({"taken", "finished", "waiting"})
        /\ queue' = <<>>

Close ==
  /\ service = "closing"
  /\ service' = "down"
  /\ Cut({"waiting"})
  /\ queue' = <<>>

Next ==
  \/ Open \/ Take \/ Stop \/ Close
  \/ \E c \in Conns : Arrive(c) \/ Serve(c) \/ Release(c) \/ Finish(c)

Spec == Init /\ [][Next]_sessionVars

=============================================================================

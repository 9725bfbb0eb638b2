------------------------------ MODULE Exchange ------------------------------
(***************************************************************************)
(* What the child that serves a client promises to it, without records,    *)
(* frames and headers.  Module Protocol implements it.                     *)
(*                                                                         *)
(* A request gets one answer at most.  Whoever keeps to the protocol gets  *)
(* a right one or none, and a request that has to be served is not turned  *)
(* away once the client has been let in, as long as it waits.              *)
(***************************************************************************)

CONSTANTS
  Requests,
  RightAnswers, \* what may be heard of the right answers to every request
  Served,       \* the requests that have to be served
  Nothing       \* no answer

VARIABLES
  asked, \* the request of the client
  keeps, \* the client has kept to the protocol so far
  waits, \* the client has not hung up
  state, \* "greeting", "waiting", "answered" or "over"
  heard  \* what the client makes of the answer, Nothing if it cannot read it

exchangeVars == <<asked, keeps, waits, state, heard>>

Init ==
  /\ asked \in Requests
  /\ keeps \in BOOLEAN
  /\ waits = TRUE
  /\ state = "greeting"
  /\ heard = Nothing

\* What a client has broken stays broken.
Lapse ==
  /\ keeps
  /\ keeps' = FALSE
  /\ UNCHANGED <<asked, waits, state, heard>>

HangUp ==
  /\ waits
  /\ waits' = FALSE
  /\ keeps' => keeps
  /\ UNCHANGED <<asked, state, heard>>

LetIn ==
  /\ state = "greeting"
  /\ waits
  /\ state' = "waiting"
  /\ UNCHANGED <<asked, keeps, waits, heard>>

TurnAway ==
  /\ state = "greeting"
  /\ state' = "over"
  /\ UNCHANGED <<asked, keeps, waits, heard>>

Answer ==
  /\ state = "waiting"
  /\ keeps => heard' \in RightAnswers[asked]
  /\ state' = "answered"
  /\ UNCHANGED <<asked, keeps, waits>>

Drop ==
  /\ state = "waiting"
  /\ ~(keeps /\ waits /\ asked \in Served)
  /\ state' = "over"
  /\ UNCHANGED <<asked, keeps, waits, heard>>

Next == Lapse \/ HangUp \/ LetIn \/ TurnAway \/ Answer \/ Drop

Spec == Init /\ [][Next]_exchangeVars

=============================================================================

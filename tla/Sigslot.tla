------------------------------- MODULE Sigslot -------------------------------
(***************************************************************************)
(* The signals and slots of server/include/sigslot.h: signals, their       *)
(* connections, and has_slots.  The header repeats one text for each arity *)
(* from signal0 to signal8, and an object may be connected to signals of   *)
(* several arities: a signal of this module has any of them.  The server   *)
(* uses signal3, whose lines are cited.                                    *)
(*                                                                         *)
(* A signal keeps a list of connections, an object with slots the set of   *)
(* the signals it is connected to, and either side tells the other when it *)
(* goes.  While a signal calls its slots, these may call back.  The header *)
(* is compiled with SIGSLOT_PURE_ISO: the lock policy is single_threaded,  *)
(* whose locks do nothing, and there is one thread.                        *)
(***************************************************************************)
EXTENDS Integers, FiniteSets

CONSTANTS
  Signals, \* the objects of classes signal0 to signal8 that ever exist
  Slots,   \* the objects derived from has_slots that ever exist
  MaxId,   \* bound: the connections that are ever made
  NULL     \* no object

ASSUME BoundAssumption == MaxId \in Nat

ASSUME NullAssumption == NULL \notin Signals \cup Slots

VARIABLES
  signals,   \* the signals that exist
  slots,     \* the objects with slots that exist
  connected, \* the connections, with their places in the lists
  nextId,    \* connections are appended: a list is in the order of these numbers
  senders,   \* m_senders of every object with slots
  frame,     \* the local variables of a running emit(), or NULL
  broken     \* an object was used that does not exist any more

vars == <<signals, slots, connected, nextId, senders, frame, broken>>

Connection == [id : 1 .. MaxId, sig : Signals, dest : Slots]

\* m_connected_slots of signal g, and its connections to d.
ListOf(g) == {k \in connected : k.sig = g}
Between(g, d) == {k \in ListOf(g) : k.dest = d}

Ids(connections) == {k.id : k \in connections}
Least(ids) == CHOOSE i \in ids : \A j \in ids : i <= j

End == MaxId + 1

\* The iterator of g's list behind i.
After(g, i) == Least({j \in Ids(ListOf(g)) : j > i} \cup {End})

Init ==
  /\ signals = {} /\ slots = {}
  /\ connected = {}
  /\ nextId = 1
  /\ senders = [d \in Slots |-> {}]
  /\ frame = NULL
  /\ broken = FALSE

-----------------------------------------------------------------------------
(***************************************************************************)
(* What the program does not do.  The calls come from the program between  *)
(* two emissions or from the slot that is being called.  A slot takes away *)
(* only itself, and never the signal that is calling it: emit() would go   *)
(* on with what is gone.  An object is connected to a signal once: after   *)
(* disconnect(), which removes the first of two connections, the object    *)
(* would not know of the second and leave it behind when it is destroyed.  *)
(***************************************************************************)

Calling == frame # NULL /\ frame.self # NULL

MayAdd == frame = NULL \/ Calling
MayConnect(g, d) == MayAdd /\ Between(g, d) = {}
MayRemove(d) == frame = NULL \/ (Calling /\ frame.self = d)
MayDestroySignal(g) == frame = NULL \/ (Calling /\ frame.sig # g)

(***************************************************************************)
(* Signals.                                                                *)
(***************************************************************************)

CreateSignal(g) ==
  /\ MayAdd
  /\ g \notin signals
  /\ signals' = signals \cup {g}
  /\ UNCHANGED <<slots, connected, nextId, senders, frame, broken>>

Connect(g, d) ==
  /\ MayConnect(g, d)
  /\ g \in signals /\ d \in slots
  /\ nextId <= MaxId
  /\ connected' = connected \cup {[id |-> nextId, sig |-> g, dest |-> d]}
  /\ nextId' = nextId + 1
  /\ senders' = [senders EXCEPT ![d] = @ \cup {g}]
  /\ UNCHANGED <<signals, slots, frame, broken>>

\* disconnect(pclass): the first connection to d.
Disconnect(g, d) ==
  /\ MayRemove(d)
  /\ g \in signals /\ d \in slots
  /\ Between(g, d) # {}
  /\ connected' = {k \in connected :
                     ~(k \in Between(g, d) /\ k.id = Least(Ids(Between(g, d))))}
  /\ senders' = [senders EXCEPT ![d] = @ \ {g}]
  /\ UNCHANGED <<signals, slots, nextId, frame, broken>>

\* disconnect_all of a signal tells every destination.
Forget(g) ==
  /\ connected' = connected \ ListOf(g)
  /\ senders' = [d \in Slots |-> IF Between(g, d) # {} THEN senders[d] \ {g}
                                                       ELSE senders[d]]
  /\ broken' = (broken \/ \E k \in ListOf(g) : k.dest \notin slots)

SignalDisconnectAll(g) ==
  /\ MayDestroySignal(g)
  /\ g \in signals
  /\ Forget(g)
  /\ UNCHANGED <<signals, slots, nextId, frame>>

DestroySignal(g) ==
  /\ MayDestroySignal(g)
  /\ g \in signals
  /\ signals' = signals \ {g}
  /\ Forget(g)
  /\ UNCHANGED <<slots, nextId, frame>>

\* clone() and duplicate(): copies of the given connections, for another signal
\* or for another object, are appended in the same order.
Room == 2 * nextId - 1 <= MaxId + 1

CopiesShared(connections, g, d) ==
  {[k EXCEPT !.sig = IF g = NULL THEN @ ELSE g,
             !.dest = IF d = NULL THEN @ ELSE d] : k \in connections}

Copies(connections, g, d) ==
  {[id   |-> k.id + nextId - 1,
    sig  |-> IF g = NULL THEN k.sig ELSE g,
    dest |-> IF d = NULL THEN k.dest ELSE d] : k \in connections}

\* The copy constructor of a signal.
CopySignal(g, copy) ==
  /\ MayAdd
  /\ g \in signals /\ copy \notin signals
  /\ Room
  /\ signals' = signals \cup {copy}
  /\ connected' = connected \cup Copies(ListOf(g), copy, NULL)
  /\ nextId' = 2 * nextId - 1
  /\ senders' = [d \in Slots |-> IF Between(g, d) # {} THEN senders[d] \cup {copy}
                                                       ELSE senders[d]]
  /\ broken' = (broken \/ \E k \in ListOf(g) : k.dest \notin slots)
  /\ UNCHANGED <<slots, frame>>

(***************************************************************************)
(* has_slots.                                                              *)
(***************************************************************************)

CreateSlots(d) ==
  /\ MayAdd
  /\ d \notin slots
  /\ slots' = slots \cup {d}
  /\ UNCHANGED <<signals, connected, nextId, senders, frame, broken>>

DuplicateUnregistered(d, copy) ==
  /\ MayAdd
  /\ d \in slots /\ copy \notin slots
  /\ Room
  /\ slots' = slots \cup {copy}
  /\ connected' = connected \cup
       Copies(UNION {Between(g, d) : g \in senders[d]}, NULL, copy)
  /\ nextId' = 2 * nextId - 1
  /\ UNCHANGED <<signals, senders, frame, broken>>

\* The copy constructor: slot_duplicate of every sender.
CopySlots(d, copy) ==
  /\ MayAdd
  /\ d \in slots /\ copy \notin slots
  /\ Room
  /\ slots' = slots \cup {copy}
  /\ connected' = connected \cup
       Copies(UNION {Between(g, d) : g \in senders[d]}, NULL, copy)
  /\ nextId' = 2 * nextId - 1
  /\ senders' = [senders EXCEPT ![copy] = senders[d]]
  /\ broken' = (broken \/ ~(senders[d] \subseteq signals))
  /\ UNCHANGED <<signals, frame>>

\* disconnect_all of an object with slots: slot_disconnect of every sender.
Leave(d) ==
  /\ connected' = {k \in connected : ~(k.dest = d /\ k.sig \in senders[d])}
  /\ senders' = [senders EXCEPT ![d] = {}]
  /\ broken' = (broken \/ ~(senders[d] \subseteq signals))

SlotsDisconnectAll(d) ==
  /\ MayRemove(d)
  /\ d \in slots
  /\ Leave(d)
  /\ UNCHANGED <<signals, slots, nextId, frame>>

DestroySlots(d) ==
  /\ MayRemove(d)
  /\ d \in slots
  /\ slots' = slots \ {d}
  /\ Leave(d)
  /\ UNCHANGED <<signals, nextId, frame>>

(***************************************************************************)
(* emit().  A slot that emits in its turn is not modelled.                 *)
(***************************************************************************)

Emit(g) ==
  /\ frame = NULL
  /\ g \in signals
  /\ frame' = [sig |-> g, it |-> After(g, 0), itNext |-> End, self |-> NULL,
               start |-> Ids(ListOf(g)), called |-> {}]
  /\ UNCHANGED <<signals, slots, connected, nextId, senders, broken>>

\* itNext is set before the call; the connection and its object must exist.
CallSlot ==
  /\ frame # NULL /\ frame.self = NULL /\ frame.it # End
  /\ \/ \E k \in ListOf(frame.sig) :
          /\ k.id = frame.it /\ k.dest \in slots
          /\ frame' = [frame EXCEPT !.itNext = After(frame.sig, frame.it),
                                    !.self = k.dest, !.called = @ \cup {frame.it}]
          /\ UNCHANGED broken
     \/ /\ \A k \in ListOf(frame.sig) : k.id = frame.it => k.dest \notin slots
        /\ broken' = TRUE
        /\ frame' = NULL
  /\ UNCHANGED <<signals, slots, connected, nextId, senders>>

StepsTwice ==
  /\ Calling
  /\ frame' = [frame EXCEPT !.it = After(frame.sig, frame.itNext), !.self = NULL]
  /\ UNCHANGED <<signals, slots, connected, nextId, senders, broken>>

StepsFromCurrent ==
  /\ Calling
  /\ frame' = [frame EXCEPT !.it = After(frame.sig, frame.it), !.self = NULL]
  /\ broken' = (broken \/ frame.it \notin Ids(ListOf(frame.sig)))
  /\ UNCHANGED <<signals, slots, connected, nextId, senders>>

SlotReturns ==
  /\ Calling
  /\ frame' = [frame EXCEPT !.it = frame.itNext, !.self = NULL]
  /\ UNCHANGED <<signals, slots, connected, nextId, senders, broken>>

EmitReturns ==
  /\ frame # NULL /\ frame.self = NULL /\ frame.it = End
  /\ frame' = NULL
  /\ UNCHANGED <<signals, slots, connected, nextId, senders, broken>>

\* exit() within a slot, as Protocol::packetReceived calls it: the emission is
\* never resumed, and every static signal, the calling one too, is destroyed and
\* tells its destinations.
ExitInSlot ==
  /\ Calling
  /\ frame' = NULL
  /\ signals' = {}
  /\ connected' = {}
  /\ senders' = [d \in Slots |-> {g \in senders[d] : Between(g, d) = {}}]
  /\ broken' = (broken \/ \E k \in connected : k.dest \notin slots)
  /\ UNCHANGED <<slots, nextId>>

-----------------------------------------------------------------------------

SignalCalls ==
  \E g \in Signals :
    \/ CreateSignal(g) \/ SignalDisconnectAll(g) \/ DestroySignal(g) \/ Emit(g)
    \/ \E copy \in Signals : CopySignal(g, copy)
    \/ \E d \in Slots : Connect(g, d) \/ Disconnect(g, d)

SlotsCalls ==
  \E d \in Slots :
    \/ CreateSlots(d) \/ SlotsDisconnectAll(d) \/ DestroySlots(d)
    \/ \E copy \in Slots : CopySlots(d, copy)

Next == SignalCalls \/ SlotsCalls \/ CallSlot \/ SlotReturns \/ EmitReturns \/ ExitInSlot

Spec == Init /\ [][Next]_vars

-----------------------------------------------------------------------------
(***************************************************************************)
(* Properties.                                                             *)
(***************************************************************************)

Frame == [sig : Signals, it : 1 .. End, itNext : 1 .. End,
          self : Slots \cup {NULL}, start : SUBSET (1 .. MaxId),
          called : SUBSET (1 .. MaxId)]

TypeOK ==
  /\ signals \subseteq Signals /\ slots \subseteq Slots
  /\ connected \subseteq Connection
  /\ \A k1, k2 \in connected : k1.id = k2.id => k1 = k2
  /\ nextId \in 1 .. End
  /\ senders \in [Slots -> SUBSET Signals]
  /\ frame \in Frame \cup {NULL}
  /\ broken \in BOOLEAN

\* A signal and an object with slots agree on whether they are connected, and
\* both exist if they are, through every order of connecting, copying and
\* destroying (sigslot.h:442-487, 851-946, 2218-2228).
RegistryAgrees ==
  /\ \A k \in connected : k.sig \in signals /\ k.dest \in slots
  /\ \A g \in Signals, d \in Slots : g \in senders[d] <=> Between(g, d) # {}

\* No call reaches an object that has been destroyed: neither the other side of
\* a connection, nor the next entry of a list while slots take themselves out
\* of it (sigslot.h:2230-2245, 451, 482, 860, 897), not even when a slot exits and
\* takes the signal that is calling it away (protocol.cpp:16, sigslot.h:884-904).
NeverBroken == ~broken

\* Whatever the slots do during an emission: whoever was connected when it began
\* and still is when it ends has been called (sigslot.h:2230-2245).
EveryoneCalled ==
  frame # NULL /\ frame.it = End /\ frame.self = NULL =>
    frame.start \cap Ids(ListOf(frame.sig)) \subseteq frame.called

=============================================================================

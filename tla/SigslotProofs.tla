---------------------------- MODULE SigslotProofs ----------------------------
(***************************************************************************)
(* Proofs about Sigslot for any signals and objects with slots, and for    *)
(* any number of connections.                                              *)
(***************************************************************************)
EXTENDS Sigslot, WellFoundedInduction, TLAPS

(***************************************************************************)
(* The inductive invariant.                                                *)
(***************************************************************************)

\* New connections get new places.
IdsUsed ==
  /\ \A k \in connected : k.id < nextId
  /\ frame # NULL => \A i \in frame.start : i < nextId

OncePerPair ==
  \A k1, k2 \in connected : k1.sig = k2.sig /\ k1.dest = k2.dest => k1 = k2

\* The place from which emit() goes on is a connection, and while a slot is
\* being called it is not one that this slot may take away.
NextExists ==
  frame # NULL =>
    /\ frame.sig \in signals
    /\ frame.self = NULL /\ frame.it # End =>
         \E k \in connected : k.sig = frame.sig /\ k.id = frame.it
    /\ frame.self # NULL /\ frame.itNext # End =>
         \E k \in connected :
           k.sig = frame.sig /\ k.id = frame.itNext /\ k.dest # frame.self

\* Whoever is still to be called lies at or behind the given place.
Ahead(i) ==
  \A k \in connected :
    k.sig = frame.sig /\ k.id \in frame.start => k.id \in frame.called \/ i <= k.id

AheadOfFrame ==
  frame # NULL =>
    /\ frame.self = NULL => Ahead(frame.it)
    /\ frame.self # NULL => Ahead(frame.itNext)

IInv ==
  /\ TypeOK
  /\ IdsUsed
  /\ OncePerPair
  /\ RegistryAgrees
  /\ NeverBroken
  /\ NextExists
  /\ AheadOfFrame

-----------------------------------------------------------------------------
(***************************************************************************)
(* Places in a list.                                                       *)
(***************************************************************************)

LEMMA LeastIsLeast ==
  ASSUME NEW S \in SUBSET Nat, S # {}
  PROVE  Least(S) \in S /\ \A j \in S : Least(S) <= j
<1> DEFINE R == OpToRel(<, Nat)
<1>1. IsWellFoundedOn(R, Nat)
  BY NatLessThanWellFounded
<1>2. PICK x \in S : \A y \in S : ~(<<y, x>> \in R)
  <2> HIDE DEF R
  <2> QED BY <1>1, WFMin
<1>3. \A y \in S : x <= y
  <2> SUFFICES ASSUME NEW y \in S, y < x PROVE FALSE
    OBVIOUS
  <2>1. <<y, x>> \in R
    BY DEF OpToRel
  <2> QED BY <2>1, <1>2
<1> QED BY <1>2, <1>3 DEF Least

\* After(g, i) is the first connection of g behind i, or the end of the list.
LEMMA AfterIsNext ==
  ASSUME connected \subseteq Connection, NEW g \in Signals, NEW i \in Nat
  PROVE  /\ After(g, i) \in 1 .. End
         /\ After(g, i) # End =>
              /\ i < After(g, i)
              /\ \E k \in connected : k.sig = g /\ k.id = After(g, i)
         /\ \A k \in connected : k.sig = g /\ i < k.id => After(g, i) <= k.id
<1> DEFINE S == {j \in Ids(ListOf(g)) : j > i} \cup {End}
<1>1. S \in SUBSET (1 .. End) /\ End \in S
  BY BoundAssumption DEF Ids, ListOf, Connection, End
<1>2. Least(S) \in S /\ \A j \in S : Least(S) <= j
  BY <1>1, LeastIsLeast, BoundAssumption DEF End
<1>3. After(g, i) = Least(S)
  BY DEF After
<1>4. \A k \in connected : k.sig = g /\ i < k.id => k.id \in S
  BY DEF Ids, ListOf, Connection
<1>5. Least(S) # End =>
        i < Least(S) /\ \E k \in connected : k.sig = g /\ k.id = Least(S)
  BY <1>2 DEF Ids, ListOf, Connection
<1> HIDE DEF S
<1> QED BY <1>1, <1>2, <1>3, <1>4, <1>5

\* The only connection between two objects is the one that disconnect removes.
LEMMA DisconnectRemovesAll ==
  ASSUME TypeOK, OncePerPair, NEW g \in Signals, NEW d \in Slots,
         Between(g, d) # {}
  PROVE  {k \in connected :
            ~(k \in Between(g, d) /\ k.id = Least(Ids(Between(g, d))))}
           = connected \ Between(g, d)
<1>1. PICK c \in connected : c.sig = g /\ c.dest = d
  BY DEF Between, ListOf
<1>2. Between(g, d) = {c}
  BY <1>1 DEF Between, ListOf, OncePerPair
<1>3. Ids(Between(g, d)) = {c.id} /\ c.id \in Nat
  BY <1>1, <1>2 DEF Ids, TypeOK, Connection
<1>4. Least({c.id}) = c.id
  BY <1>3, LeastIsLeast
<1> QED BY <1>2, <1>3, <1>4

-----------------------------------------------------------------------------

LEMMA InitInv == Init => IInv
<1> SUFFICES ASSUME Init PROVE IInv
  OBVIOUS
<1>1. TypeOK
  <2>1. 1 \in 1 .. End
    BY BoundAssumption DEF End
  <2> QED BY <2>1 DEF Init, TypeOK
<1>2. RegistryAgrees
  BY DEF Init, RegistryAgrees, Between, ListOf
<1>3. IdsUsed /\ OncePerPair /\ NeverBroken /\ NextExists /\ AheadOfFrame
  BY DEF Init, IdsUsed, OncePerPair, NeverBroken, NextExists, AheadOfFrame
<1> QED BY <1>1, <1>2, <1>3 DEF IInv

(***************************************************************************)
(* What calls that only take away, or only add, leave of the invariant.    *)
(***************************************************************************)

LEMMA RemovalKeeps ==
  ASSUME IInv, connected' \subseteq connected, UNCHANGED <<nextId, frame>>
  PROVE  IdsUsed' /\ OncePerPair' /\ AheadOfFrame'
<1>1. IdsUsed' /\ OncePerPair'
  BY DEF IInv, IdsUsed, OncePerPair
<1>2. AheadOfFrame'
  BY DEF IInv, AheadOfFrame, Ahead
<1> QED BY <1>1, <1>2

LEMMA AdditionKeeps ==
  ASSUME IInv, connected \subseteq connected', signals \subseteq signals',
         UNCHANGED frame, nextId \in Nat, nextId' \in Nat, nextId <= nextId',
         \A k \in connected' : k \in connected \/ (nextId <= k.id /\ k.id < nextId'),
         \A k \in connected' : k.id \in Nat
  PROVE  IdsUsed' /\ NextExists' /\ AheadOfFrame'
<1>1. ASSUME frame # NULL
      PROVE  frame \in Frame /\ \A i \in frame.start : i \in Nat /\ i < nextId
  BY <1>1 DEF IInv, TypeOK, Frame, IdsUsed
<1>2. IdsUsed'
  <2>1. \A k \in connected' : k.id < nextId'
    BY DEF IInv, IdsUsed
  <2>2. frame # NULL => \A i \in frame.start : i < nextId'
    BY <1>1
  <2> QED BY <2>1, <2>2 DEF IdsUsed
<1>3. NextExists'
  BY DEF IInv, NextExists
<1>4. AheadOfFrame'
  <2>1. \A k \in connected' :
          frame # NULL /\ k.id \in frame.start => k \in connected
    BY <1>1
  <2> QED BY <2>1 DEF IInv, AheadOfFrame, Ahead
<1> QED BY <1>2, <1>3, <1>4

\* A call that takes away connections leaves the next one where it is, if it
\* takes away those of the slot that is being called, or of other signals.
LEMMA NextKept ==
  ASSUME IInv, connected' \subseteq connected, UNCHANGED frame,
         frame # NULL => frame.self # NULL,
         frame # NULL => frame.sig \in signals',
         \A k \in connected \ connected' :
           frame # NULL => k.dest = frame.self \/ k.sig # frame.sig
  PROVE  NextExists'
  BY DEF IInv, NextExists

-----------------------------------------------------------------------------
(***************************************************************************)
(* The calls of signals.                                                   *)
(***************************************************************************)

LEMMA CreateSignalInv ==
  ASSUME IInv, NEW g \in Signals, CreateSignal(g) PROVE IInv'
<1>1. TypeOK'
  BY DEF IInv, TypeOK, CreateSignal
<1>2. RegistryAgrees' /\ NeverBroken'
  BY DEF IInv, CreateSignal, RegistryAgrees, Between, ListOf, NeverBroken
<1>3. OncePerPair'
  BY DEF IInv, CreateSignal, OncePerPair
<1>4. IdsUsed' /\ NextExists' /\ AheadOfFrame'
  BY DEF IInv, CreateSignal, IdsUsed, NextExists, AheadOfFrame, Ahead
<1> QED BY <1>1, <1>2, <1>3, <1>4 DEF IInv

LEMMA ConnectInv ==
  ASSUME IInv, NEW g \in Signals, NEW d \in Slots, Connect(g, d) PROVE IInv'
<1> DEFINE new == [id |-> nextId, sig |-> g, dest |-> d]
<1>1. /\ g \in signals /\ d \in slots /\ Between(g, d) = {}
      /\ nextId \in 1 .. MaxId /\ nextId' = nextId + 1
      /\ connected' = connected \cup {new}
      /\ senders' = [senders EXCEPT ![d] = @ \cup {g}]
      /\ UNCHANGED <<signals, slots, frame, broken>>
  BY BoundAssumption DEF IInv, TypeOK, Connect, MayConnect, End
<1>2. new \in Connection /\ \A k \in connected : k.id < new.id
  BY <1>1 DEF Connection, IInv, IdsUsed
<1>3. TypeOK'
  <2>1. \A k1, k2 \in connected' : k1.id = k2.id => k1 = k2
    <3>1. connected \subseteq Connection
      BY DEF IInv, TypeOK
    <3>2. \A k \in connected : k.id # new.id
      BY <1>1, <1>2, <3>1 DEF Connection
    <3> QED BY <1>1, <3>2 DEF IInv, TypeOK
  <2>2. connected' \subseteq Connection /\ nextId' \in 1 .. End
    BY <1>1, <1>2, BoundAssumption DEF IInv, TypeOK, End
  <2>3. senders' \in [Slots -> SUBSET Signals]
    BY <1>1 DEF IInv, TypeOK
  <2> QED BY <1>1, <2>1, <2>2, <2>3 DEF IInv, TypeOK
<1>4. OncePerPair'
  <2>1. \A k \in connected : ~(k.sig = g /\ k.dest = d)
    BY <1>1 DEF Between, ListOf
  <2> QED BY <1>1, <2>1 DEF IInv, OncePerPair
<1>5. RegistryAgrees'
  <2>1. \A k \in connected' : k.sig \in signals' /\ k.dest \in slots'
    BY <1>1 DEF IInv, RegistryAgrees
  <2>2. ASSUME NEW h \in Signals, NEW e \in Slots
        PROVE  h \in senders'[e] <=> Between(h, e)' # {}
    <3>1. h \in senders[e] <=> \E k \in connected : k.sig = h /\ k.dest = e
      BY DEF IInv, RegistryAgrees, Between, ListOf
    <3>2. Between(h, e)' # {} <=>
            (\E k \in connected : k.sig = h /\ k.dest = e) \/ (h = g /\ e = d)
      <4>1. Between(h, e)' # {} <=> \E k \in connected' : k.sig = h /\ k.dest = e
        BY DEF Between, ListOf
      <4>2. new.sig = g /\ new.dest = d
        OBVIOUS
      <4> HIDE DEF new
      <4> QED BY <1>1, <4>1, <4>2
    <3>3. h \in senders'[e] <=> h \in senders[e] \/ (h = g /\ e = d)
      BY <1>1 DEF IInv, TypeOK
    <3> QED BY <3>1, <3>2, <3>3
  <2> QED BY <2>1, <2>2 DEF RegistryAgrees
<1>6. IdsUsed' /\ NextExists' /\ AheadOfFrame'
  <2>1. \A k \in connected : k.id \in Nat
    BY DEF IInv, TypeOK, Connection
  <2> QED BY <1>1, <2>1, AdditionKeeps
<1>7. NeverBroken'
  BY <1>1 DEF IInv, NeverBroken
<1> QED BY <1>3, <1>4, <1>5, <1>6, <1>7 DEF IInv

LEMMA DisconnectInv ==
  ASSUME IInv, NEW g \in Signals, NEW d \in Slots, Disconnect(g, d) PROVE IInv'
<1>1. /\ connected' = connected \ Between(g, d)
      /\ senders' = [senders EXCEPT ![d] = @ \ {g}]
      /\ UNCHANGED <<signals, slots, nextId, frame, broken>>
  BY DisconnectRemovesAll DEF IInv, Disconnect
<1>2. TypeOK'
  BY <1>1 DEF IInv, TypeOK
<1>3. RegistryAgrees'
  <2>1. \A k \in connected' : k.sig \in signals' /\ k.dest \in slots'
    BY <1>1 DEF IInv, RegistryAgrees
  <2>2. ASSUME NEW h \in Signals, NEW e \in Slots
        PROVE  h \in senders'[e] <=> Between(h, e)' # {}
    <3>1. h \in senders[e] <=> \E k \in connected : k.sig = h /\ k.dest = e
      BY DEF IInv, RegistryAgrees, Between, ListOf
    <3>2. Between(h, e)' # {} <=>
            (\E k \in connected : k.sig = h /\ k.dest = e) /\ ~(h = g /\ e = d)
      BY <1>1 DEF Between, ListOf
    <3>3. h \in senders'[e] <=> h \in senders[e] /\ ~(h = g /\ e = d)
      BY <1>1 DEF IInv, TypeOK
    <3> QED BY <3>1, <3>2, <3>3
  <2> QED BY <2>1, <2>2 DEF RegistryAgrees
<1>4. IdsUsed' /\ OncePerPair' /\ AheadOfFrame'
  BY <1>1, RemovalKeeps
<1>5. NextExists'
  <2>1. frame # NULL => frame.self # NULL /\ frame.self = d
    BY DEF Disconnect, MayRemove, Calling
  <2>2. \A k \in connected \ connected' : k.dest = d
    BY <1>1 DEF Between, ListOf
  <2>3. frame # NULL => frame.sig \in signals'
    BY <1>1 DEF IInv, NextExists
  <2> QED BY <1>1, <2>1, <2>2, <2>3, NextKept
<1>6. NeverBroken'
  BY <1>1 DEF IInv, NeverBroken
<1> QED BY <1>2, <1>3, <1>4, <1>5, <1>6 DEF IInv

\* disconnect_all, whether the signal goes on to exist or not.
LEMMA ForgetInv ==
  ASSUME IInv, NEW g \in Signals, MayDestroySignal(g), Forget(g),
         signals' = signals \/ signals' = signals \ {g},
         UNCHANGED <<slots, nextId, frame>>
  PROVE  IInv'
<1>1. /\ connected' = connected \ ListOf(g)
      /\ senders' = [d \in Slots |-> IF Between(g, d) # {} THEN senders[d] \ {g}
                                                           ELSE senders[d]]
  BY DEF Forget
<1>2. TypeOK'
  <2>1. senders' \in [Slots -> SUBSET Signals]
    BY <1>1 DEF IInv, TypeOK
  <2>2. broken' \in BOOLEAN
    BY DEF Forget
  <2> QED BY <1>1, <2>1, <2>2 DEF IInv, TypeOK
<1>3. RegistryAgrees'
  <2>1. \A k \in connected' : k.sig \in signals' /\ k.dest \in slots'
    BY <1>1 DEF IInv, RegistryAgrees, ListOf
  <2>2. ASSUME NEW h \in Signals, NEW e \in Slots
        PROVE  h \in senders'[e] <=> Between(h, e)' # {}
    <3>1. \A f \in Signals :
            f \in senders[e] <=> \E k \in connected : k.sig = f /\ k.dest = e
      BY DEF IInv, RegistryAgrees, Between, ListOf
    <3>2. Between(h, e)' # {} <=>
            (\E k \in connected : k.sig = h /\ k.dest = e) /\ h # g
      BY <1>1 DEF Between, ListOf
    <3>3. h \in senders'[e] <=> h \in senders[e] /\ ~(h = g /\ Between(g, e) # {})
      BY <1>1 DEF IInv, TypeOK
    <3>4. g \in senders[e] <=> Between(g, e) # {}
      BY DEF IInv, RegistryAgrees
    <3> QED BY <3>1, <3>2, <3>3, <3>4
  <2> QED BY <2>1, <2>2 DEF RegistryAgrees
<1>4. IdsUsed' /\ OncePerPair' /\ AheadOfFrame'
  BY <1>1, RemovalKeeps
<1>5. NextExists'
  <2>1. frame # NULL => frame.self # NULL /\ frame.sig # g
    BY DEF MayDestroySignal, Calling
  <2>2. \A k \in connected \ connected' : k.sig = g
    BY <1>1 DEF ListOf
  <2>3. frame # NULL => frame.sig \in signals'
    BY <2>1 DEF IInv, NextExists
  <2> QED BY <1>1, <2>1, <2>2, <2>3, NextKept
<1>6. NeverBroken'
  BY DEF IInv, NeverBroken, Forget, RegistryAgrees, ListOf
<1> QED BY <1>2, <1>3, <1>4, <1>5, <1>6 DEF IInv

LEMMA CopySignalInv ==
  ASSUME IInv, NEW g \in Signals, NEW copy \in Signals, CopySignal(g, copy)
  PROVE  IInv'
<1> DEFINE clone(k) == [id |-> k.id + nextId - 1, sig |-> copy, dest |-> k.dest]
<1>1. /\ copy # NULL /\ copy \notin signals
      /\ 2 * nextId - 1 <= MaxId + 1
      /\ nextId' = 2 * nextId - 1
      /\ signals' = signals \cup {copy}
      /\ senders' = [d \in Slots |-> IF Between(g, d) # {} THEN senders[d] \cup {copy}
                                                           ELSE senders[d]]
      /\ UNCHANGED <<slots, frame>>
  BY NullAssumption DEF CopySignal, Room
<1>2. connected' = connected \cup {clone(k) : k \in ListOf(g)}
  BY <1>1 DEF CopySignal, Copies
<1>3. /\ nextId \in Nat \ {0} /\ nextId' \in Nat /\ nextId <= nextId'
      /\ nextId' \in 1 .. End
  BY <1>1, BoundAssumption DEF IInv, TypeOK, End
<1>4. \A k \in connected : k.id \in 1 .. (nextId - 1) /\ k \in Connection
  BY BoundAssumption, <1>3 DEF IInv, TypeOK, IdsUsed, Connection
<1>5. \A k \in connected :
        /\ clone(k).id = k.id + nextId - 1
        /\ clone(k).id \in nextId .. (nextId' - 1)
        /\ clone(k).sig = copy /\ clone(k).dest = k.dest
        /\ clone(k) \in Connection
  BY <1>1, <1>3, <1>4, BoundAssumption DEF Connection
<1>6. ListOf(g) \subseteq connected /\ \A k \in connected : k.sig # copy
  BY <1>1 DEF ListOf, IInv, RegistryAgrees
<1> HIDE DEF clone
<1>7. TypeOK'
  <2>1. ASSUME NEW k1 \in connected', NEW k2 \in connected', k1.id = k2.id
        PROVE  k1 = k2
    <3>1. CASE k1 \in connected /\ k2 \in connected
      BY <2>1, <3>1 DEF IInv, TypeOK
    <3>2. CASE k1 \in connected /\ k2 \notin connected
      BY <2>1, <3>2, <1>2, <1>3, <1>4, <1>5, <1>6
    <3>3. CASE k1 \notin connected /\ k2 \in connected
      BY <2>1, <3>3, <1>2, <1>3, <1>4, <1>5, <1>6
    <3>4. CASE k1 \notin connected /\ k2 \notin connected
      <4>1. PICK j1 \in connected, j2 \in connected : k1 = clone(j1) /\ k2 = clone(j2)
        BY <3>4, <1>2, <1>6
      <4>2. j1.id = j2.id
        BY <2>1, <4>1, <1>3, <1>4, <1>5
      <4> QED BY <4>1, <4>2 DEF IInv, TypeOK
    <3> QED BY <3>1, <3>2, <3>3, <3>4
  <2>2. connected' \subseteq Connection
    BY <1>2, <1>5, <1>6 DEF IInv, TypeOK
  <2>3. senders' \in [Slots -> SUBSET Signals] /\ broken' \in BOOLEAN
    BY <1>1 DEF IInv, TypeOK, CopySignal
  <2> QED BY <1>1, <1>3, <2>1, <2>2, <2>3 DEF IInv, TypeOK
<1>8. OncePerPair'
  <2> SUFFICES ASSUME NEW k1 \in connected', NEW k2 \in connected',
                      k1.sig = k2.sig, k1.dest = k2.dest
               PROVE  k1 = k2
    BY DEF OncePerPair
  <2>1. CASE k1.sig # copy
    BY <2>1, <1>2, <1>5, <1>6 DEF IInv, OncePerPair
  <2>2. CASE k1.sig = copy
    <3>1. PICK j1 \in ListOf(g), j2 \in ListOf(g) : k1 = clone(j1) /\ k2 = clone(j2)
      BY <2>2, <1>2, <1>6
    <3>2. j1.sig = j2.sig /\ j1.dest = j2.dest
      BY <3>1, <1>5, <1>6 DEF ListOf
    <3> QED BY <3>1, <3>2, <1>6 DEF IInv, OncePerPair
  <2> QED BY <2>1, <2>2
<1>9. RegistryAgrees'
  <2>1. \A k \in connected' : k.sig \in signals' /\ k.dest \in slots'
    BY <1>1, <1>2, <1>5, <1>6 DEF IInv, RegistryAgrees
  <2>2. ASSUME NEW h \in Signals, NEW e \in Slots
        PROVE  h \in senders'[e] <=> Between(h, e)' # {}
    <3>1. h \in senders[e] <=> \E k \in connected : k.sig = h /\ k.dest = e
      BY DEF IInv, RegistryAgrees, Between, ListOf
    <3>2. Between(h, e)' # {} <=> \E k \in connected' : k.sig = h /\ k.dest = e
      BY DEF Between, ListOf
    <3>3. Between(g, e) # {} <=> \E k \in ListOf(g) : k.dest = e
      BY DEF Between
    <3>4. h \in senders'[e] <=> h \in senders[e] \/ (h = copy /\ Between(g, e) # {})
      BY <1>1 DEF IInv, TypeOK
    <3> QED BY <3>1, <3>2, <3>3, <3>4, <1>2, <1>5, <1>6
  <2> QED BY <2>1, <2>2 DEF RegistryAgrees
<1>10. IdsUsed' /\ NextExists' /\ AheadOfFrame'
  <2>1. \A k \in connected' :
          k.id \in Nat /\ (k \in connected \/ (nextId <= k.id /\ k.id < nextId'))
    BY <1>2, <1>3, <1>4, <1>5, <1>6
  <2> QED BY <1>1, <1>2, <1>3, <2>1, AdditionKeeps
<1>11. NeverBroken'
  BY DEF IInv, NeverBroken, CopySignal, RegistryAgrees, ListOf
<1> QED BY <1>7, <1>8, <1>9, <1>10, <1>11 DEF IInv

-----------------------------------------------------------------------------
(***************************************************************************)
(* The calls of objects with slots.                                        *)
(***************************************************************************)

LEMMA CreateSlotsInv ==
  ASSUME IInv, NEW d \in Slots, CreateSlots(d) PROVE IInv'
<1>1. TypeOK'
  BY DEF IInv, TypeOK, CreateSlots
<1>2. RegistryAgrees' /\ NeverBroken'
  BY DEF IInv, CreateSlots, RegistryAgrees, Between, ListOf, NeverBroken
<1>3. OncePerPair'
  BY DEF IInv, CreateSlots, OncePerPair
<1>4. IdsUsed' /\ NextExists' /\ AheadOfFrame'
  BY DEF IInv, CreateSlots, IdsUsed, NextExists, AheadOfFrame, Ahead
<1> QED BY <1>1, <1>2, <1>3, <1>4 DEF IInv

\* disconnect_all, whether the object goes on to exist or not.
LEMMA LeaveInv ==
  ASSUME IInv, NEW d \in Slots, MayRemove(d), Leave(d),
         slots' = slots \/ slots' = slots \ {d},
         UNCHANGED <<signals, nextId, frame>>
  PROVE  IInv'
<1>1. \A g \in Signals, e \in Slots :
        g \in senders[e] <=> \E k \in connected : k.sig = g /\ k.dest = e
  BY DEF IInv, RegistryAgrees, Between, ListOf
<1>2. connected' = {k \in connected : k.dest # d}
  BY <1>1 DEF Leave, IInv, TypeOK, Connection
<1>3. senders' = [senders EXCEPT ![d] = {}]
  BY DEF Leave
<1>4. TypeOK'
  BY <1>2, <1>3 DEF IInv, TypeOK, Leave
<1>5. RegistryAgrees'
  <2>1. \A k \in connected' : k.sig \in signals' /\ k.dest \in slots'
    BY <1>2 DEF IInv, RegistryAgrees
  <2>2. ASSUME NEW h \in Signals, NEW e \in Slots
        PROVE  h \in senders'[e] <=> Between(h, e)' # {}
    <3>1. Between(h, e)' # {} <=>
            e # d /\ \E k \in connected : k.sig = h /\ k.dest = e
      BY <1>2 DEF Between, ListOf
    <3>2. h \in senders'[e] <=> e # d /\ h \in senders[e]
      BY <1>3 DEF IInv, TypeOK
    <3> QED BY <1>1, <3>1, <3>2
  <2> QED BY <2>1, <2>2 DEF RegistryAgrees
<1>6. IdsUsed' /\ OncePerPair' /\ AheadOfFrame'
  BY <1>2, RemovalKeeps
<1>7. NextExists'
  <2>1. frame # NULL => frame.self # NULL /\ frame.self = d
    BY DEF MayRemove, Calling
  <2>2. \A k \in connected \ connected' : k.dest = d
    BY <1>2
  <2>3. frame # NULL => frame.sig \in signals'
    BY DEF IInv, NextExists
  <2> QED BY <1>2, <2>1, <2>2, <2>3, NextKept
<1>8. NeverBroken'
  <2>1. senders[d] \subseteq signals
    BY <1>1 DEF IInv, TypeOK, RegistryAgrees
  <2> QED BY <2>1 DEF IInv, NeverBroken, Leave
<1> QED BY <1>4, <1>5, <1>6, <1>7, <1>8 DEF IInv

LEMMA CopySlotsInv ==
  ASSUME IInv, NEW d \in Slots, NEW copy \in Slots, CopySlots(d, copy)
  PROVE  IInv'
<1> DEFINE duplicate(k) == [id |-> k.id + nextId - 1, sig |-> k.sig, dest |-> copy]
           mine == {k \in connected : k.dest = d}
<1>1. /\ copy # NULL /\ copy \notin slots
      /\ 2 * nextId - 1 <= MaxId + 1
      /\ nextId' = 2 * nextId - 1
      /\ slots' = slots \cup {copy}
      /\ senders' = [senders EXCEPT ![copy] = senders[d]]
      /\ UNCHANGED <<signals, frame>>
  BY NullAssumption DEF CopySlots, Room
<1>2. \A g \in Signals, e \in Slots :
        g \in senders[e] <=> \E k \in connected : k.sig = g /\ k.dest = e
  BY DEF IInv, RegistryAgrees, Between, ListOf
<1>3. UNION {Between(g, d) : g \in senders[d]} = mine
  <2>1. ASSUME NEW k \in mine PROVE k \in Between(k.sig, d) /\ k.sig \in senders[d]
    BY <1>2 DEF IInv, TypeOK, Connection, Between, ListOf
  <2>2. \A g : Between(g, d) \subseteq mine
    BY DEF Between, ListOf
  <2> QED BY <2>1, <2>2
<1>4. connected' = connected \cup {duplicate(k) : k \in mine}
  BY <1>1, <1>3 DEF CopySlots, Copies
<1>5. /\ nextId \in Nat \ {0} /\ nextId' \in Nat /\ nextId <= nextId'
      /\ nextId' \in 1 .. End
  BY <1>1, BoundAssumption DEF IInv, TypeOK, End
<1>6. \A k \in connected : k.id \in 1 .. (nextId - 1) /\ k \in Connection
  BY BoundAssumption, <1>5 DEF IInv, TypeOK, IdsUsed, Connection
<1>7. \A k \in connected :
        /\ duplicate(k).id = k.id + nextId - 1
        /\ duplicate(k).id \in nextId .. (nextId' - 1)
        /\ duplicate(k).sig = k.sig /\ duplicate(k).dest = copy
        /\ duplicate(k) \in Connection
  BY <1>1, <1>5, <1>6, BoundAssumption DEF Connection
<1>8. mine \subseteq connected /\ \A k \in connected : k.dest # copy
  BY <1>1 DEF IInv, RegistryAgrees
<1> HIDE DEF duplicate
<1>9. TypeOK'
  <2>1. ASSUME NEW k1 \in connected', NEW k2 \in connected', k1.id = k2.id
        PROVE  k1 = k2
    <3>1. CASE k1 \in connected /\ k2 \in connected
      BY <2>1, <3>1 DEF IInv, TypeOK
    <3>2. CASE k1 \in connected /\ k2 \notin connected
      BY <2>1, <3>2, <1>4, <1>5, <1>6, <1>7, <1>8
    <3>3. CASE k1 \notin connected /\ k2 \in connected
      BY <2>1, <3>3, <1>4, <1>5, <1>6, <1>7, <1>8
    <3>4. CASE k1 \notin connected /\ k2 \notin connected
      <4>1. PICK j1 \in connected, j2 \in connected :
              k1 = duplicate(j1) /\ k2 = duplicate(j2)
        BY <3>4, <1>4, <1>8
      <4>2. j1.id = j2.id
        BY <2>1, <4>1, <1>5, <1>6, <1>7
      <4> QED BY <4>1, <4>2 DEF IInv, TypeOK
    <3> QED BY <3>1, <3>2, <3>3, <3>4
  <2>2. connected' \subseteq Connection
    BY <1>4, <1>7, <1>8 DEF IInv, TypeOK
  <2>3. senders' \in [Slots -> SUBSET Signals] /\ broken' \in BOOLEAN
    BY <1>1 DEF IInv, TypeOK, CopySlots
  <2> QED BY <1>1, <1>5, <2>1, <2>2, <2>3 DEF IInv, TypeOK
<1>10. OncePerPair'
  <2> SUFFICES ASSUME NEW k1 \in connected', NEW k2 \in connected',
                      k1.sig = k2.sig, k1.dest = k2.dest
               PROVE  k1 = k2
    BY DEF OncePerPair
  <2>1. CASE k1.dest # copy
    BY <2>1, <1>4, <1>7, <1>8 DEF IInv, OncePerPair
  <2>2. CASE k1.dest = copy
    <3>1. PICK j1 \in mine, j2 \in mine : k1 = duplicate(j1) /\ k2 = duplicate(j2)
      BY <2>2, <1>4, <1>8
    <3>2. j1.sig = j2.sig /\ j1.dest = j2.dest
      BY <3>1, <1>7, <1>8
    <3> QED BY <3>1, <3>2, <1>8 DEF IInv, OncePerPair
  <2> QED BY <2>1, <2>2
<1>11. RegistryAgrees'
  <2>1. \A k \in connected' : k.sig \in signals' /\ k.dest \in slots'
    BY <1>1, <1>4, <1>7, <1>8 DEF IInv, RegistryAgrees
  <2>2. ASSUME NEW h \in Signals, NEW e \in Slots
        PROVE  h \in senders'[e] <=> Between(h, e)' # {}
    <3>1. Between(h, e)' # {} <=> \E k \in connected' : k.sig = h /\ k.dest = e
      BY DEF Between, ListOf
    <3>2. h \in senders'[e] <=> IF e = copy THEN h \in senders[d] ELSE h \in senders[e]
      BY <1>1 DEF IInv, TypeOK
    <3> QED BY <1>2, <3>1, <3>2, <1>4, <1>7, <1>8
  <2> QED BY <2>1, <2>2 DEF RegistryAgrees
<1>12. IdsUsed' /\ NextExists' /\ AheadOfFrame'
  <2>1. \A k \in connected' :
          k.id \in Nat /\ (k \in connected \/ (nextId <= k.id /\ k.id < nextId'))
    BY <1>4, <1>5, <1>6, <1>7, <1>8
  <2> QED BY <1>1, <1>4, <1>5, <2>1, AdditionKeeps
<1>13. NeverBroken'
  <2>1. senders[d] \subseteq signals
    BY <1>2 DEF IInv, TypeOK, RegistryAgrees
  <2> QED BY <2>1 DEF IInv, NeverBroken, CopySlots
<1> QED BY <1>9, <1>10, <1>11, <1>12, <1>13 DEF IInv

-----------------------------------------------------------------------------
(***************************************************************************)
(* emit().                                                                 *)
(***************************************************************************)

\* A step of emit() leaves the connections alone.
LEMMA EmitKeeps ==
  ASSUME IInv, UNCHANGED <<signals, slots, connected, nextId, senders, broken>>,
         frame' \in Frame \cup {NULL},
         frame' # NULL => \A i \in frame'.start : i < nextId
  PROVE  TypeOK' /\ IdsUsed' /\ OncePerPair' /\ RegistryAgrees' /\ NeverBroken'
<1>1. TypeOK' /\ IdsUsed'
  BY DEF IInv, TypeOK, IdsUsed
<1>2. OncePerPair' /\ NeverBroken'
  BY DEF IInv, OncePerPair, NeverBroken
<1>3. RegistryAgrees'
  BY DEF IInv, RegistryAgrees, Between, ListOf
<1> QED BY <1>1, <1>2, <1>3

LEMMA EmitInv ==
  ASSUME IInv, NEW g \in Signals, Emit(g) PROVE IInv'
<1>1. /\ frame' = [sig |-> g, it |-> After(g, 0), itNext |-> End, self |-> NULL,
                   start |-> Ids(ListOf(g)), called |-> {}]
      /\ g \in signals
      /\ UNCHANGED <<signals, slots, connected, nextId, senders, broken>>
  BY DEF Emit
<1>2. /\ connected \subseteq Connection
      /\ End \in 1 .. End
  BY BoundAssumption DEF IInv, TypeOK, End
<1>3. /\ After(g, 0) \in 1 .. End
      /\ After(g, 0) # End => \E k \in connected : k.sig = g /\ k.id = After(g, 0)
      /\ \A k \in connected : k.sig = g /\ 0 < k.id => After(g, 0) <= k.id
  BY <1>2, AfterIsNext
<1>4. /\ Ids(ListOf(g)) \subseteq 1 .. MaxId
      /\ \A i \in Ids(ListOf(g)) : i < nextId
  BY <1>2 DEF Ids, ListOf, Connection, IInv, IdsUsed
<1>5. frame' \in Frame
  BY <1>1, <1>2, <1>3, <1>4 DEF Frame
<1>6. TypeOK' /\ IdsUsed' /\ OncePerPair' /\ RegistryAgrees' /\ NeverBroken'
  BY <1>1, <1>4, <1>5, EmitKeeps
<1>7. NextExists'
  BY <1>1, <1>3 DEF NextExists
<1>8. AheadOfFrame'
  BY <1>1, <1>2, <1>3 DEF AheadOfFrame, Ahead, Connection
<1> QED BY <1>6, <1>7, <1>8 DEF IInv

LEMMA CallSlotInv ==
  ASSUME IInv, CallSlot PROVE IInv'
<1>1. /\ frame # NULL /\ frame.self = NULL /\ frame.it # End
      /\ frame \in Frame /\ connected \subseteq Connection
      /\ UNCHANGED <<signals, slots, connected, nextId, senders>>
  BY DEF CallSlot, IInv, TypeOK
<1>2. \E k \in connected : k.sig = frame.sig /\ k.id = frame.it /\ k.dest \in slots
  BY <1>1 DEF IInv, NextExists, RegistryAgrees
<1>3. PICK k \in connected :
        /\ k.sig = frame.sig /\ k.id = frame.it /\ k.dest \in slots
        /\ frame' = [frame EXCEPT !.itNext = After(frame.sig, frame.it),
                                  !.self = k.dest, !.called = @ \cup {frame.it}]
        /\ UNCHANGED broken
  BY <1>2 DEF CallSlot, ListOf
<1> DEFINE next == After(frame.sig, frame.it)
<1>4. /\ next \in 1 .. End
      /\ next # End => /\ frame.it < next
                       /\ \E j \in connected : j.sig = frame.sig /\ j.id = next
      /\ \A j \in connected : j.sig = frame.sig /\ frame.it < j.id => next <= j.id
  BY <1>1, AfterIsNext DEF Frame
<1>5. k.dest \in Slots /\ k.dest # NULL /\ frame.it \in 1 .. MaxId
  BY <1>1, <1>3, NullAssumption DEF Connection
<1> HIDE DEF next
<1>6. frame' = [frame EXCEPT !.itNext = next, !.self = k.dest,
                             !.called = @ \cup {frame.it}]
  BY <1>3 DEF next
<1>7. /\ frame' \in Frame
      /\ frame'.sig = frame.sig /\ frame'.itNext = next /\ frame'.self = k.dest
      /\ frame'.start = frame.start /\ frame'.called = frame.called \cup {frame.it}
  BY <1>1, <1>4, <1>5, <1>6 DEF Frame
<1>8. TypeOK' /\ IdsUsed' /\ OncePerPair' /\ RegistryAgrees' /\ NeverBroken'
  BY <1>1, <1>3, <1>7, EmitKeeps DEF IInv, IdsUsed
<1>9. NextExists'
  <2>1. \A j \in connected :
          j.sig = frame.sig /\ j.id = next /\ next # End => j.dest # k.dest
    BY <1>1, <1>3, <1>4, <1>5 DEF IInv, OncePerPair, Frame, Connection
  <2> QED BY <1>1, <1>4, <1>5, <1>7, <2>1 DEF IInv, NextExists
<1>10. AheadOfFrame'
  <2>1. ASSUME NEW j \in connected, j.sig = frame.sig, j.id \in frame.start
        PROVE  j.id \in frame.called \cup {frame.it} \/ next <= j.id
    <3>1. j.id \in frame.called \/ frame.it <= j.id
      BY <1>1, <2>1 DEF IInv, AheadOfFrame, Ahead
    <3>2. j.id \in Nat /\ frame.it \in Nat
      BY <1>1, <1>5 DEF Connection
    <3> QED BY <2>1, <3>1, <3>2, <1>4
  <2> QED BY <1>1, <1>5, <1>7, <2>1 DEF AheadOfFrame, Ahead
<1> QED BY <1>8, <1>9, <1>10 DEF IInv

LEMMA SlotReturnsInv ==
  ASSUME IInv, SlotReturns PROVE IInv'
<1>1. /\ frame # NULL /\ frame.self # NULL /\ frame \in Frame
      /\ UNCHANGED <<signals, slots, connected, nextId, senders, broken>>
      /\ frame' = [frame EXCEPT !.it = frame.itNext, !.self = NULL]
  BY DEF SlotReturns, Calling, IInv, TypeOK
<1>2. /\ frame' \in Frame
      /\ frame'.sig = frame.sig /\ frame'.it = frame.itNext /\ frame'.self = NULL
      /\ frame'.start = frame.start /\ frame'.called = frame.called
  BY <1>1 DEF Frame
<1>3. TypeOK' /\ IdsUsed' /\ OncePerPair' /\ RegistryAgrees' /\ NeverBroken'
  BY <1>1, <1>2, EmitKeeps DEF IInv, IdsUsed
<1>4. NextExists' /\ AheadOfFrame'
  BY <1>1, <1>2 DEF IInv, NextExists, AheadOfFrame, Ahead
<1> QED BY <1>3, <1>4 DEF IInv

LEMMA EmitReturnsInv ==
  ASSUME IInv, EmitReturns PROVE IInv'
<1>1. TypeOK' /\ IdsUsed' /\ OncePerPair' /\ RegistryAgrees' /\ NeverBroken'
  BY EmitKeeps DEF EmitReturns
<1>2. NextExists' /\ AheadOfFrame'
  BY DEF EmitReturns, NextExists, AheadOfFrame
<1> QED BY <1>1, <1>2 DEF IInv

\* Nobody who is told of the end of a signal has gone before it.
LEMMA ExitInSlotInv ==
  ASSUME IInv, ExitInSlot PROVE IInv'
<1>1. /\ frame' = NULL /\ signals' = {} /\ connected' = {}
      /\ slots' = slots /\ nextId' = nextId
      /\ senders' = [d \in Slots |-> {g \in senders[d] : Between(g, d) = {}}]
      /\ broken' = (broken \/ \E k \in connected : k.dest \notin slots)
  BY DEF ExitInSlot
<1>2. senders' = [d \in Slots |-> {}]
  <2>1. \A d \in Slots : \A g \in senders[d] : g \in Signals
    BY DEF IInv, TypeOK
  <2> QED BY <1>1, <2>1 DEF IInv, RegistryAgrees
<1>3. broken' = FALSE
  BY <1>1 DEF IInv, RegistryAgrees, NeverBroken
<1>4. TypeOK' /\ IdsUsed' /\ OncePerPair' /\ NeverBroken'
  BY <1>1, <1>2, <1>3 DEF IInv, TypeOK, IdsUsed, OncePerPair, NeverBroken
<1>5. RegistryAgrees'
  BY <1>1, <1>2 DEF RegistryAgrees, Between, ListOf
<1>6. NextExists' /\ AheadOfFrame'
  BY <1>1 DEF NextExists, AheadOfFrame
<1> QED BY <1>4, <1>5, <1>6 DEF IInv

-----------------------------------------------------------------------------

LEMMA NextInv == IInv /\ [Next]_vars => IInv'
<1> SUFFICES ASSUME IInv, [Next]_vars PROVE IInv'
  OBVIOUS
<1>1. ASSUME NEW g \in Signals, SignalDisconnectAll(g) \/ DestroySignal(g) PROVE IInv'
  BY <1>1, ForgetInv DEF SignalDisconnectAll, DestroySignal
<1>2. CASE SignalCalls
  BY <1>1, <1>2, CreateSignalInv, ConnectInv, DisconnectInv, CopySignalInv, EmitInv
     DEF SignalCalls
<1>3. ASSUME NEW d \in Slots, SlotsDisconnectAll(d) \/ DestroySlots(d) PROVE IInv'
  BY <1>3, LeaveInv DEF SlotsDisconnectAll, DestroySlots
<1>4. CASE SlotsCalls
  BY <1>3, <1>4, CreateSlotsInv, CopySlotsInv DEF SlotsCalls
<1>5. CASE CallSlot \/ SlotReturns \/ EmitReturns \/ ExitInSlot
  BY <1>5, CallSlotInv, SlotReturnsInv, EmitReturnsInv, ExitInSlotInv
<1>6. CASE UNCHANGED vars
  BY <1>6 DEF vars, IInv, TypeOK, IdsUsed, OncePerPair, RegistryAgrees, Between,
     ListOf, NeverBroken, NextExists, AheadOfFrame, Ahead
<1> QED BY <1>2, <1>4, <1>5, <1>6 DEF Next

\* The invariant holds in every reachable state of signals and slots.
THEOREM Invariance == Spec => []IInv
  BY InitInv, NextInv, PTL DEF Spec

\* Type correctness, and lists whose connections have different places.
THEOREM TypeCorrect == Spec => []TypeOK
  BY Invariance, PTL DEF IInv

\* Signals and objects with slots always agree on who is connected, whatever is
\* created, copied, disconnected and destroyed, and when (sigslot.h:442-487,
\* 851-946, 2218-2228).
THEOREM RegistryCorrect == Spec => []RegistryAgrees
  BY Invariance, PTL DEF IInv

\* No call ever reaches an object that has been destroyed, although slots take
\* themselves out of the list that emit() walks (sigslot.h:2230-2245).
THEOREM NeverBrokenCorrect == Spec => []NeverBroken
  BY Invariance, PTL DEF IInv

\* An emission calls everyone who stays connected (sigslot.h:2230-2245).
THEOREM EveryoneCalledCorrect == Spec => []EveryoneCalled
<1>1. IInv => EveryoneCalled
  <2> SUFFICES ASSUME IInv, frame # NULL, frame.it = End, frame.self = NULL,
                      NEW k \in connected, k.sig = frame.sig, k.id \in frame.start
               PROVE  k.id \in frame.called
    BY DEF EveryoneCalled, Ids, ListOf
  <2>1. k.id \in 1 .. MaxId
    BY DEF IInv, TypeOK, Connection
  <2>2. k.id \in frame.called \/ End <= k.id
    BY DEF IInv, AheadOfFrame, Ahead
  <2> QED BY <2>1, <2>2, BoundAssumption DEF End
<1> QED BY <1>1, Invariance, PTL

=============================================================================

------------------------ MODULE CameraControlsProofs ------------------------
(***************************************************************************)
(* Theorems about CameraControls, for any frontends and values, any number   *)
(* of changes and bindings, and however fast users make their changes.       *)
(***************************************************************************)
EXTENDS CameraControls, SequenceTheorems, TLAPS

\* What a request does to the device, to the frontend that made it, and to the others.
LEMMA CtrlSetTypes ==
    ASSUME TypeOK, NEW d \in Doms, NEW v \in Values, NEW queues \in [Doms -> Seq(Values)],
           CtrlSet(d, v, queues)
    PROVE  /\ value' \in Values
           /\ known' \in [Doms -> Values \cup {Unknown}]
           /\ events' \in [Doms -> Seq(Values)]
<1>1. \A e \in Doms : queues[e] \in Seq(Values) /\ Append(queues[e], v) \in Seq(Values)
  BY AppendProperties
<1>2. TellOthers(d, v, queues) \in [Doms -> Seq(Values)]
  BY <1>1 DEF TellOthers
<1> QED
  BY <1>2 DEF CtrlSet, TypeOK

\* A frontend that answers an event names one of the values, and has it off its ring.
LEMMA Heard ==
    ASSUME TypeOK, NEW d \in Doms, events[d] # <<>>
    PROVE  /\ events[d] \in Seq(Values) /\ Head(events[d]) \in Values
           /\ [events EXCEPT ![d] = Tail(@)] \in [Doms -> Seq(Values)]
           /\ [events EXCEPT ![d] = Tail(@)][d] = Tail(events[d])
           /\ \A e \in Doms \ {d} : [events EXCEPT ![d] = Tail(@)][e] = events[e]
<1>1. events \in [Doms -> Seq(Values)] /\ events[d] \in Seq(Values)
  BY DEF TypeOK
<1>2. Head(events[d]) \in Values /\ Tail(events[d]) \in Seq(Values)
  BY <1>1, HeadTailProperties
<1> QED
  BY <1>1, <1>2

\* Every variable has its type in every reachable state.
THEOREM TypeCorrect == Spec => []TypeOK
<1>1. Init => TypeOK
  <2> SUFFICES ASSUME Init PROVE TypeOK
    OBVIOUS
  <2>1. <<>> \in Seq(Values)
    OBVIOUS
  <2> QED
    BY <2>1, ControlsAssumption DEF Init, TypeOK
<1>2. TypeOK /\ [Next]_vars => TypeOK'
  <2> SUFFICES ASSUME TypeOK, [Next]_vars PROVE TypeOK'
    OBVIOUS
  <2>r. ASSUME Recorded, value' \in Values PROVE changed' \subseteq Doms /\ had' \subseteq Values
    BY <2>r DEF Recorded, TypeOK
  <2>1. ASSUME NEW d \in Doms, Bind(d) PROVE TypeOK'
    BY <2>1, <2>r, ControlsAssumption DEF Bind, TypeOK
  <2>2. ASSUME NEW d \in Doms, CtrlEnum(d) PROVE TypeOK'
    BY <2>2, <2>r, ControlsAssumption DEF CtrlEnum, TypeOK, boundVars
  <2>3. ASSUME NEW d \in Doms, Leave(d) PROVE TypeOK'
    <3>1. <<>> \in Seq(Values)
      OBVIOUS
    <3> QED
      BY <2>3, <2>r, <3>1 DEF Leave, TypeOK, boundVars
  <2>4. ASSUME NEW d \in Doms, Echo(d) PROVE TypeOK'
    <3>1. /\ value' \in Values /\ known' \in [Doms -> Values \cup {Unknown}]
          /\ events' \in [Doms -> Seq(Values)]
      BY <2>4, Heard, CtrlSetTypes DEF Echo
    <3> QED
      BY <2>4, <2>r, <3>1 DEF Echo, TypeOK, boundVars
  <2>5. ASSUME NEW d \in Doms, Overlook(d) PROVE TypeOK'
    BY <2>5, <2>r, Heard DEF Overlook, TypeOK, boundVars
  <2>6. ASSUME NEW d \in Users, UserSets(d) PROVE TypeOK'
    <3>1. d \in Doms /\ events \in [Doms -> Seq(Values)]
      BY ControlsAssumption DEF TypeOK
    <3>2. /\ value' \in Values /\ known' \in [Doms -> Values \cup {Unknown}]
          /\ events' \in [Doms -> Seq(Values)]
      BY <2>6, <3>1, CtrlSetTypes DEF UserSets
    <3>3. sets' \in [Users -> 0..SetsPerUser]
      BY <2>6, ControlsAssumption DEF UserSets, TypeOK
    <3> QED
      BY <2>6, <2>r, <3>2, <3>3 DEF UserSets, TypeOK
  <2>7. CASE UNCHANGED vars
    BY <2>7 DEF vars, boundVars, TypeOK
  <2> QED
    BY <2>1, <2>2, <2>3, <2>4, <2>5, <2>6, <2>7 DEF Next, Hear
<1> QED
  BY <1>1, <1>2, PTL DEF Spec

-----------------------------------------------------------------------------
(* Nobody is left with an old value                                         *)

\* What EveryoneIsTold says of one frontend.
Told(e) ==
    \/ known[e] = value
    \/ events[e] # <<>> /\ events[e][Len(events[e])] = value

\* When the queue's head is not its last, its last stays.
LEMMA LastStays ==
    ASSUME NEW q \in Seq(Values), q # <<>>, Head(q) # q[Len(q)]
    PROVE  Tail(q) # <<>> /\ Tail(q)[Len(Tail(q))] = q[Len(q)]
<1>1. Len(q) \in Nat \ {0} /\ Head(q) = q[1]
  BY EmptySeq
<1>2. Len(q) # 1
  BY <1>1
<1>3. Len(Tail(q)) = Len(q) - 1 /\ \A i \in 1..Len(Tail(q)) : Tail(q)[i] = q[i + 1]
  BY HeadTailProperties
<1>4. Len(q) - 1 \in 1..Len(Tail(q)) /\ (Len(q) - 1) + 1 = Len(q)
  BY <1>1, <1>2, <1>3
<1>5. Tail(q)[Len(q) - 1] = q[Len(q)]
  BY <1>3, <1>4
<1>6. Len(Tail(q)) # 0
  BY <1>1, <1>2, <1>3
<1> QED
  BY <1>3, <1>5, <1>6, EmptySeq

\* A request of d leaves a frontend that has the control told, if it changes the
\* device's value; if it does not, one that was told and lost no event stays so.
LEMMA CtrlSetTells ==
    ASSUME TypeOK, NEW d \in Doms, NEW v \in Values, NEW queues \in [Doms -> Seq(Values)],
           CtrlSet(d, v, queues), NEW e \in Doms, e \in mListeners
    PROVE  /\ value' # value => Told(e)'
           /\ Told(e) /\ queues[e] = events[e] => Told(e)'
<1>t. /\ value \in Values /\ known \in [Doms -> Values \cup {Unknown}]
      /\ queues[e] \in Seq(Values)
  BY DEF TypeOK
<1>1. CASE e = d /\ known' = [known EXCEPT ![d] = v] /\ value' = v
  BY <1>1, <1>t DEF Told
<1>2. CASE v = value /\ value' = value /\ events' = queues /\ known' = [known EXCEPT ![d] = v]
  BY <1>1, <1>2, <1>t DEF Told
<1>3. CASE e # d /\ value' = v /\ events' = TellOthers(d, v, queues)
  <2>1. events'[e] = Append(queues[e], v)
    BY <1>3 DEF TellOthers
  <2>2. /\ Append(queues[e], v) # <<>>
        /\ Append(queues[e], v)[Len(Append(queues[e], v))] = v
    BY <1>t, AppendProperties
  <2> QED
    BY <1>3, <2>1, <2>2 DEF Told
<1>4. CASE v # value /\ events' = queues /\ UNCHANGED <<value, known>>
  BY <1>4 DEF Told
<1> QED
  BY <1>1, <1>2, <1>3, <1>4 DEF CtrlSet

\* Whoever has the control has a CommandHandler, and whose value was changed has it.
Present ==
    /\ \A d \in Doms : known[d] # Unknown => d \in mListeners
    /\ \A d \in changed : d \in Doms /\ known[d] # Unknown

LEMMA PresentHolds == Spec => []Present
<1>1. Init => Present
  BY DEF Init, Present
<1>2. TypeOK /\ Present /\ [Next]_vars => Present'
  <2> SUFFICES ASSUME TypeOK, Present, [Next]_vars PROVE Present'
    OBVIOUS
  <2>t. known \in [Doms -> Values \cup {Unknown}]
    BY DEF TypeOK
  <2>1. ASSUME NEW d \in Doms, Bind(d) \/ CtrlEnum(d) \/ Leave(d) \/ Overlook(d)
        PROVE  Present'
    BY <2>1, <2>t DEF Bind, CtrlEnum, Leave, Overlook, Recorded, Present
  <2>2. ASSUME NEW d \in Doms, NEW v, NEW queues, CtrlSet(d, v, queues), known[d] # Unknown,
               mListeners' = mListeners, Recorded
        PROVE  Present'
    <3>1. known' = known \/ known' = [known EXCEPT ![d] = v]
      BY <2>2 DEF CtrlSet
    <3> QED
      BY <2>2, <2>t, <3>1 DEF Present, Recorded
  <2>3. ASSUME NEW d \in Doms, Echo(d) PROVE Present'
    BY <2>2, <2>3 DEF Echo
  <2>4. ASSUME NEW d \in Users, UserSets(d) PROVE Present'
    BY <2>2, <2>4, ControlsAssumption DEF UserSets
  <2>5. CASE UNCHANGED vars
    BY <2>5 DEF vars, Present
  <2> QED
    BY <2>1, <2>3, <2>4, <2>5 DEF Next, Hear
<1> QED
  BY <1>1, <1>2, TypeCorrect, PTL DEF Spec

\* Whoever had the control when the device's value was changed holds the device's value,
\* or it is the last event on its ring (CameraHandler.cpp:330-363).
THEOREM AllAreTold == Spec => []EveryoneIsTold
<1>1. Init => EveryoneIsTold
  BY DEF Init, EveryoneIsTold
<1>2. TypeOK /\ Present /\ EveryoneIsTold /\ [Next]_vars => EveryoneIsTold'
  <2> SUFFICES ASSUME TypeOK, Present, EveryoneIsTold, [Next]_vars,
                      NEW e \in changed'
               PROVE  Told(e)'
    BY DEF EveryoneIsTold, Told
  <2>t. /\ known \in [Doms -> Values \cup {Unknown}] /\ events \in [Doms -> Seq(Values)]
        /\ \A d \in changed : Told(d)
    BY DEF TypeOK, EveryoneIsTold, Told
  <2>r. ASSUME Recorded
        PROVE  e \in Doms /\ known'[e] # Unknown /\ (e \in changed \/ value' # value)
    BY <2>r DEF Recorded
  <2>1. ASSUME NEW d \in Doms, Bind(d) \/ CtrlEnum(d) \/ Leave(d) \/ Overlook(d)
        PROVE  Told(e)'
    <3>1. e \in Doms /\ known'[e] # Unknown /\ value' = value /\ e \in changed
      BY <2>1, <2>r DEF Bind, CtrlEnum, Leave, Overlook
    <3>2. known[e] # Unknown
      BY <3>1 DEF Present
    <3>3. known'[e] = known[e] /\ events'[e] = events[e]
      BY <2>1, <2>t, <3>1, <3>2 DEF Bind, CtrlEnum, Leave, Overlook
    <3> QED
      BY <2>t, <3>1, <3>3 DEF Told
  <2>2. ASSUME NEW d \in Doms, NEW v \in Values, NEW queues \in [Doms -> Seq(Values)],
               CtrlSet(d, v, queues), Recorded, known[d] # Unknown,
               e # d => queues[e] = events[e]
        PROVE  /\ e \in Doms /\ e \in mListeners
               /\ value' # value \/ e # d \/ queues[e] = events[e] => Told(e)'
    <3>1. known' = known \/ known' = [known EXCEPT ![d] = v]
      BY <2>2 DEF CtrlSet
    <3>2. e \in Doms /\ known[e] # Unknown
      BY <2>2, <2>r, <2>t, <3>1
    <3>3. e \in mListeners
      BY <3>2 DEF Present
    <3>4. value' # value \/ e \in changed
      BY <2>2, <2>r
    <3>5. /\ value' # value => Told(e)'
          /\ Told(e) /\ queues[e] = events[e] => Told(e)'
      BY <2>2, <3>2, <3>3, CtrlSetTells
    <3> QED
      BY <2>t, <2>2, <3>2, <3>3, <3>4, <3>5
  <2>3. ASSUME NEW d \in Users, UserSets(d) PROVE Told(e)'
    <3>1. d \in Doms
      BY ControlsAssumption
    <3>2. PICK v \in Values : CtrlSet(d, v, events)
      BY <2>3 DEF UserSets
    <3> QED
      BY <2>t, <2>2, <2>3, <3>1, <3>2 DEF UserSets
  <2>4. ASSUME NEW d \in Doms, Echo(d) PROVE Told(e)'
    <3> DEFINE v == Head(events[d])
               queues == [events EXCEPT ![d] = Tail(@)]
    <3>1. events[d] # <<>> /\ known[d] # Unknown /\ CtrlSet(d, v, queues) /\ Recorded
      BY <2>4 DEF Echo
    <3>2. /\ events[d] \in Seq(Values) /\ v \in Values
          /\ queues \in [Doms -> Seq(Values)] /\ queues[d] = Tail(events[d])
          /\ \A x \in Doms \ {d} : queues[x] = events[x]
      BY <3>1, Heard
    <3>3. e \in Doms
      BY <3>1, <2>r
    <3>4. value' # value \/ e # d => Told(e)'
      BY <2>2, <3>1, <3>2, <3>3
    <3>5. CASE e = d /\ value' = value
      <4>1. e \in changed
        BY <2>r, <3>1, <3>5
      <4>2. CASE v = value
        BY <2>t, <3>1, <3>5, <4>2 DEF CtrlSet, Told
      <4>3. CASE v # value
        <5>1. events' = queues /\ known' = known
          BY <3>1, <3>5, <4>3 DEF CtrlSet
        <5>2. CASE known[e] = value
          BY <3>5, <5>1, <5>2 DEF Told
        <5>3. CASE events[d][Len(events[d])] = value
          <6>1. Tail(events[d]) # <<>> /\ Tail(events[d])[Len(Tail(events[d]))] = value
            BY <3>1, <3>2, <4>3, <5>3, LastStays
          <6>2. events'[e] = Tail(events[d])
            BY <3>2, <3>5, <5>1
          <6> QED
            BY <3>5, <6>1, <6>2 DEF Told
        <5> QED
          BY <2>t, <3>5, <4>1, <5>2, <5>3 DEF Told
      <4> QED
        BY <4>2, <4>3
    <3> QED
      BY <3>4, <3>5
  <2>5. CASE UNCHANGED vars
    BY <2>5, <2>t DEF vars, Told
  <2> QED
    BY <2>1, <2>3, <2>4, <2>5 DEF Next, Hear
<1> QED
  BY <1>1, <1>2, TypeCorrect, PresentHolds, PTL DEF Spec

-----------------------------------------------------------------------------
(* Nobody is told a value the device refused                                *)

\* The values of a queue that was appended to, or lost its head, are the ones it had and
\* the one that was appended.
LEMMA QueueValues ==
    ASSUME NEW S \in SUBSET Values, NEW q \in Seq(Values), \A k \in DOMAIN q : q[k] \in S
    PROVE  /\ \A v \in S : \A k \in DOMAIN Append(q, v) : Append(q, v)[k] \in S
           /\ q # <<>> => Head(q) \in S /\ \A k \in DOMAIN Tail(q) : Tail(q)[k] \in S
<1>1. Len(q) \in Nat /\ DOMAIN q = 1..Len(q)
  BY LenProperties
<1>2. ASSUME NEW v \in S, NEW k \in DOMAIN Append(q, v) PROVE Append(q, v)[k] \in S
  <2>1. k \in 1..(Len(q) + 1)
    BY <1>1, AppendProperties, LenProperties
  <2>2. CASE k = Len(q) + 1
    BY <2>2, AppendProperties
  <2>3. CASE k \in 1..Len(q)
    BY <1>1, <2>3, AppendProperties
  <2> QED
    BY <1>1, <2>1, <2>2, <2>3
<1>3. ASSUME q # <<>> PROVE Head(q) \in S /\ \A k \in DOMAIN Tail(q) : Tail(q)[k] \in S
  <2>1. Len(q) \in Nat \ {0} /\ Head(q) = q[1]
    BY <1>3, EmptySeq
  <2>2. /\ DOMAIN Tail(q) = 1..(Len(q) - 1)
        /\ \A k \in 1..(Len(q) - 1) : Tail(q)[k] = q[k + 1]
    BY <1>3, HeadTailProperties, LenProperties
  <2>3. ASSUME NEW k \in 1..(Len(q) - 1) PROVE q[k + 1] \in S
    <3>1. k + 1 \in DOMAIN q
      BY <1>1, <2>1
    <3> QED
      BY <3>1
  <2> QED
    BY <1>1, <2>1, <2>2, <2>3
<1> QED
  BY <1>2, <1>3

\* What frontends hold and hear of the device has had, but for the default that the
\* enumeration tells (CameraHandler.cpp:357-363: the device is asked first).
THEOREM NoRefusedValueSpreads == Spec => []RefusedIsUntold
<1> DEFINE Inv == RefusedIsUntold /\ value \in had
<1>1. Init => Inv
  BY DEF Init, RefusedIsUntold
<1>2. TypeOK /\ Inv /\ [Next]_vars => Inv'
  <2> SUFFICES ASSUME TypeOK, Inv, [Next]_vars PROVE Inv'
    OBVIOUS
  <2>t. /\ known \in [Doms -> Values \cup {Unknown}] /\ events \in [Doms -> Seq(Values)]
        /\ value \in had /\ had \subseteq Values
        /\ \A e \in Doms : known[e] \in had \cup {Default, Unknown}
        /\ \A e \in Doms : \A k \in DOMAIN events[e] : events[e][k] \in had
    BY DEF TypeOK, RefusedIsUntold
  <2>1. ASSUME NEW d \in Doms, Bind(d) \/ CtrlEnum(d) PROVE Inv'
    <3>1. /\ \A e \in Doms : known'[e] \in {known[e], Default}
          /\ events' = events /\ value' = value /\ had' = had
      BY <2>1, <2>t DEF Bind, CtrlEnum, Recorded
    <3> QED
      BY <2>t, <3>1 DEF RefusedIsUntold
  <2>2. ASSUME NEW d \in Doms, Leave(d) PROVE Inv'
    <3>1. /\ \A e \in Doms : known'[e] \in {known[e], Unknown}
          /\ \A e \in Doms : events'[e] \in {events[e], <<>>}
          /\ value' = value /\ had' = had
      BY <2>2, <2>t DEF Leave, Recorded
    <3> QED
      BY <2>t, <3>1 DEF RefusedIsUntold
  <2>3. ASSUME NEW d \in Doms, NEW v \in Values, NEW queues \in [Doms -> Seq(Values)],
               \A e \in Doms : \A k \in DOMAIN queues[e] : queues[e][k] \in had,
               CtrlSet(d, v, queues), Recorded
        PROVE  Inv'
    <3>1. value' \in Values /\ had' = had \cup {value'}
      BY <2>3, CtrlSetTypes DEF Recorded
    <3>2. CASE events' = queues /\ value' = value
               /\ (known' = known \/ (v = value /\ known' = [known EXCEPT ![d] = v]))
      <4>1. had' = had /\ \A e \in Doms : known'[e] \in {known[e], value}
        BY <2>t, <3>1, <3>2
      <4> QED
        BY <2>t, <2>3, <3>2, <4>1 DEF RefusedIsUntold
    <3>3. CASE value' = v /\ known' = [known EXCEPT ![d] = v] /\ events' = TellOthers(d, v, queues)
      <4>1. \A e \in Doms : known'[e] \in {known[e], v}
        BY <2>t, <3>3
      <4>2. ASSUME NEW e \in Doms, NEW k \in DOMAIN events'[e] PROVE events'[e][k] \in had'
        <5>1. queues[e] \in Seq(Values) /\ v \in had' /\ had' \subseteq Values
              /\ \A j \in DOMAIN queues[e] : queues[e][j] \in had'
          BY <2>t, <2>3, <3>1, <3>3
        <5>2. events'[e] = queues[e] \/ events'[e] = Append(queues[e], v)
          BY <3>3 DEF TellOthers
        <5>3. \A w \in had' : \A j \in DOMAIN Append(queues[e], w) : Append(queues[e], w)[j] \in had'
          BY <5>1, QueueValues
        <5> QED
          BY <4>2, <5>1, <5>2, <5>3
      <4>3. value' \in had' /\ \A e \in Doms : known'[e] \in had' \cup {Default, Unknown}
        BY <2>t, <3>1, <3>3, <4>1
      <4> QED
        BY <4>2, <4>3 DEF RefusedIsUntold
    <3>4. \/ events' = queues /\ value' = value
             /\ (known' = known \/ (v = value /\ known' = [known EXCEPT ![d] = v]))
          \/ value' = v /\ known' = [known EXCEPT ![d] = v] /\ events' = TellOthers(d, v, queues)
      <4>1. CtrlSet(d, v, queues)
        BY <2>3
      <4> QED
        BY <4>1 DEF CtrlSet
    <3> QED
      BY <3>2, <3>3, <3>4
  <2>4. ASSUME NEW d \in Doms, events[d] # <<>>
        PROVE  LET queues == [events EXCEPT ![d] = Tail(@)]
               IN  \A e \in Doms : \A k \in DOMAIN queues[e] : queues[e][k] \in had
    <3> DEFINE queues == [events EXCEPT ![d] = Tail(@)]
    <3>1. events[d] \in Seq(Values) /\ had \in SUBSET Values /\ \A k \in DOMAIN events[d] : events[d][k] \in had
      BY <2>t
    <3>2. \A k \in DOMAIN Tail(events[d]) : Tail(events[d])[k] \in had
      BY <2>4, <3>1, QueueValues
    <3>3. queues[d] = Tail(events[d]) /\ \A e \in Doms \ {d} : queues[e] = events[e]
      BY <2>4, Heard
    <3>4. ASSUME NEW e \in Doms PROVE \A k \in DOMAIN queues[e] : queues[e][k] \in had
      BY <2>t, <3>2, <3>3
    <3> QED
      BY <3>4
  <2>5. ASSUME NEW d \in Doms, Echo(d) PROVE Inv'
    <3>1. events[d] # <<>>
      BY <2>5 DEF Echo
    <3>2. /\ Head(events[d]) \in Values
          /\ [events EXCEPT ![d] = Tail(@)] \in [Doms -> Seq(Values)]
      BY <3>1, Heard
    <3> QED
      BY <2>3, <2>4, <2>5, <3>1, <3>2 DEF Echo
  <2>6. ASSUME NEW d \in Doms, Overlook(d) PROVE Inv'
    <3>1. events[d] # <<>> /\ events' = [events EXCEPT ![d] = Tail(@)]
          /\ known' = known /\ value' = value /\ had' = had
      BY <2>6, <2>t DEF Overlook, Recorded
    <3> QED
      BY <2>t, <2>4, <3>1 DEF RefusedIsUntold
  <2>7. ASSUME NEW d \in Users, UserSets(d) PROVE Inv'
    <3>1. d \in Doms
      BY ControlsAssumption
    <3> QED
      BY <2>3, <2>7, <2>t, <3>1 DEF UserSets
  <2>8. CASE UNCHANGED vars
    BY <2>8 DEF vars, RefusedIsUntold
  <2> QED
    BY <2>1, <2>2, <2>5, <2>6, <2>7, <2>8 DEF Next, Hear
<1> QED
  BY <1>1, <1>2, TypeCorrect, PTL DEF Spec

-----------------------------------------------------------------------------
(* Why the exchange of a user who waits dies down                           *)

\* While users wait, whatever is on its way is the value the device has.
OneValue == paced => \A d \in Doms : \A k \in DOMAIN events[d] : events[d][k] = value

\* The tail of a queue of equal values is one.
LEMMA TailSame ==
    ASSUME NEW q \in Seq(Values), q # <<>>, NEW v, \A k \in DOMAIN q : q[k] = v
    PROVE  /\ Head(q) = v
           /\ Tail(q) \in Seq(Values) /\ Len(Tail(q)) = Len(q) - 1 /\ Len(q) \in Nat
           /\ \A k \in DOMAIN Tail(q) : Tail(q)[k] = v
<1>1. Len(q) \in Nat /\ Len(q) # 0 /\ 1 \in DOMAIN q /\ Head(q) = q[1]
  BY EmptySeq
<1>2. Tail(q) \in Seq(Values) /\ Len(Tail(q)) = Len(q) - 1
  BY HeadTailProperties
<1>3. ASSUME NEW k \in DOMAIN Tail(q) PROVE Tail(q)[k] = v
  <2>1. k \in 1..(Len(q) - 1) /\ Tail(q)[k] = q[k + 1]
    BY <1>1, <1>2, HeadTailProperties
  <2>2. k + 1 \in DOMAIN q
    BY <1>1, <2>1
  <2> QED
    BY <2>1, <2>2
<1> QED
  BY <1>1, <1>2, <1>3

\* An event heard while users wait changes nothing but the queue it came from.
LEMMA HearIsSilent ==
    ASSUME TypeOK, OneValue, paced, NEW d \in Doms, Hear(d)
    PROVE  /\ value' = value /\ paced' = paced
           /\ events' = [events EXCEPT ![d] = Tail(@)]
           /\ events[d] \in Seq(Values) /\ events[d] # <<>>
           /\ \A k \in DOMAIN events[d] : events[d][k] = value
<1>1. events \in [Doms -> Seq(Values)] /\ events[d] \in Seq(Values) /\ events[d] # <<>>
  BY DEF TypeOK, Hear, Echo, Overlook
<1>2. \A k \in DOMAIN events[d] : events[d][k] = value
  BY DEF OneValue
<1>3. Head(events[d]) = value
  BY <1>1, <1>2, TailSame
<1>4. value' = value /\ paced' = paced /\ events' = [events EXCEPT ![d] = Tail(@)]
  BY <1>3 DEF Hear, Echo, Overlook, CtrlSet, boundVars
<1> QED
  BY <1>1, <1>2, <1>4

LEMMA OneValueHolds == Spec => []OneValue
<1>1. Init => OneValue
  BY DEF Init, OneValue
<1>2. TypeOK /\ OneValue /\ [Next]_vars => OneValue'
  <2> SUFFICES ASSUME TypeOK, OneValue, [Next]_vars, paced' PROVE OneValue'
    BY DEF OneValue
  <2>t. events \in [Doms -> Seq(Values)]
    BY DEF TypeOK
  <2>1. ASSUME NEW d \in Users, UserSets(d) PROVE OneValue'
    <3>1. paced /\ \A e \in Doms : events[e] = <<>>
      BY <2>1 DEF UserSets, Settled
    <3>2. PICK v \in Values : CtrlSet(d, v, events)
      BY <2>1 DEF UserSets
    <3>3. CASE events' = events
      BY <3>1, <3>3 DEF OneValue
    <3>4. CASE value' = v /\ events' = TellOthers(d, v, events)
      <4>1. \A e \in Doms : events'[e] \in {<<>>, Append(<<>>, v)}
        BY <3>1, <3>4 DEF TellOthers
      <4>2. Append(<<>>, v) = <<v>>
        OBVIOUS
      <4> QED
        BY <3>4, <4>1, <4>2 DEF OneValue
    <3> QED
      BY <3>2, <3>3, <3>4 DEF CtrlSet
  <2>2. ASSUME NEW d \in Doms, Hear(d) PROVE OneValue'
    <3>1. paced
      BY <2>2 DEF Hear, Echo, Overlook, boundVars
    <3>2. /\ value' = value /\ events' = [events EXCEPT ![d] = Tail(@)]
          /\ events[d] \in Seq(Values) /\ events[d] # <<>>
          /\ \A k \in DOMAIN events[d] : events[d][k] = value
      BY <2>2, <3>1, HearIsSilent
    <3>3. \A k \in DOMAIN Tail(events[d]) : Tail(events[d])[k] = value
      BY <3>2, TailSame
    <3>4. events'[d] = Tail(events[d]) /\ \A e \in Doms \ {d} : events'[e] = events[e]
      BY <2>t, <3>2
    <3> QED
      BY <3>1, <3>2, <3>3, <3>4 DEF OneValue
  <2>3. ASSUME NEW d \in Doms, Bind(d) \/ CtrlEnum(d) \/ Leave(d) PROVE OneValue'
    <3>1. /\ paced /\ value' = value
          /\ \A e \in Doms : events'[e] \in {events[e], <<>>}
      BY <2>3, <2>t DEF Bind, CtrlEnum, Leave, boundVars
    <3> QED
      BY <3>1 DEF OneValue
  <2>4. CASE UNCHANGED vars
    BY <2>4 DEF vars, boundVars, OneValue
  <2> QED
    BY <2>1, <2>2, <2>3, <2>4 DEF Next
<1> QED
  BY <1>1, <1>2, TypeCorrect, PTL DEF Spec

\* With users who wait until their change has gone round, every "set control" request
\* that an event caused finds its value set, and causes no further event: the number of
\* events on their way falls with each (CameraHandler.cpp:330-353).
THEOREM EchoesCauseNone == Spec => EchoesDieDown
<1>1. TypeOK /\ OneValue =>
        \A d \in Doms : paced /\ Hear(d) =>
          /\ Len(events'[d]) < Len(events[d])
          /\ \A e \in Doms : Len(events'[e]) <= Len(events[e])
  <2> SUFFICES ASSUME TypeOK, OneValue, NEW d \in Doms, paced, Hear(d)
               PROVE  /\ Len(events'[d]) < Len(events[d])
                      /\ \A e \in Doms : Len(events'[e]) <= Len(events[e])
    OBVIOUS
  <2>t. events \in [Doms -> Seq(Values)] /\ \A e \in Doms : Len(events[e]) \in Nat
    BY LenProperties DEF TypeOK
  <2>1. /\ events' = [events EXCEPT ![d] = Tail(@)]
        /\ events[d] \in Seq(Values) /\ events[d] # <<>>
        /\ \A k \in DOMAIN events[d] : events[d][k] = value
    BY HearIsSilent
  <2>2. Len(Tail(events[d])) = Len(events[d]) - 1
    BY <2>1, TailSame
  <2>3. events'[d] = Tail(events[d]) /\ \A e \in Doms \ {d} : events'[e] = events[e]
    BY <2>t, <2>1
  <2>4. Len(events'[d]) = Len(events[d]) - 1
    BY <2>2, <2>3
  <2>5. Len(events'[d]) < Len(events[d])
    BY <2>t, <2>4
  <2>6. ASSUME NEW e \in Doms, e # d PROVE Len(events'[e]) <= Len(events[e])
    <3>1. Len(events'[e]) = Len(events[e])
      BY <2>3, <2>6
    <3> QED
      BY <2>t, <3>1
  <2>7. Len(events'[d]) <= Len(events[d])
    BY <2>t, <2>4
  <2> QED
    BY <2>5, <2>6, <2>7
<1> QED
  BY <1>1, TypeCorrect, OneValueHolds, PTL DEF Spec, EchoesDieDown
=============================================================================

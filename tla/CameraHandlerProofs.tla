------------------------- MODULE CameraHandlerProofs -------------------------
(***************************************************************************)
(* Theorems about CameraHandler, for every set of frontends, every number   *)
(* of buffers the driver may grant and every choice of failing calls.       *)
(***************************************************************************)
EXTENDS CameraHandler, SequenceTheorems, FiniteSetTheorems, TLAPS

-----------------------------------------------------------------------------
(* Types                                                                    *)

BufStates == {"queued", "done", "dequeued"}

\* What streamRelease() and ~Camera leave behind has the right type.
LEMMA Emptied ==
    /\ <<>> \in Seq(Int)
    /\ [i \in 0..-1 |-> "dequeued"] \in [0..(0 - 1) -> BufStates]
<1>1. <<>> \in Seq(Int)
  OBVIOUS
<1>2. 0..-1 = 0..(0 - 1)
  OBVIOUS
<1> QED
  BY <1>1, <1>2 DEF BufStates

\* streamAlloc() appends: the vector grows by the number of buffers mapped.
LEMMA MappedGrows ==
    ASSUME mBuffers \in Seq(Int), NEW k \in Nat
    PROVE  Mapped(k) \in Seq(Int) /\ Len(Mapped(k)) = Len(mBuffers) + k
<1> DEFINE old == [j \in 1..Len(mBuffers) |-> Stale]
           new == [j \in 1..k |-> j - 1]
<1>1. Len(mBuffers) \in Nat
  OBVIOUS
<1>2. old \in Seq(Int) /\ Len(old) = Len(mBuffers)
  BY <1>1 DEF Stale
<1>3. new \in Seq(Int) /\ Len(new) = k
  OBVIOUS
<1> HIDE DEF old, new
<1>4. old \o new \in Seq(Int) /\ Len(old \o new) = Len(old) + Len(new)
  BY <1>2, <1>3, ConcatProperties
<1> QED
  BY <1>2, <1>3, <1>4 DEF old, new, Mapped

\* The types are preserved by every step.
LEMMA TypeStep == TypeOK /\ [Next]_vars => TypeOK'
<1> SUFFICES ASSUME TypeOK, [Next]_vars PROVE TypeOK'
  OBVIOUS
<1> USE CameraAssumption, DomsAssumption
<1> USE DEF TypeOK, CameraTypeOK, ConnStates, Connected, Pcs, EvtPcs, cameraVars, threadVars, driverVars,
            bookVars, handlerVars, Serves
<1>1. ASSUME NEW d \in Doms, Connect(d) PROVE TypeOK'
  BY <1>1 DEF Connect
<1>2. ASSUME NEW d \in Doms, Close(d) PROVE TypeOK'
  BY <1>2 DEF Close
<1>3. ASSUME NEW d \in Doms, CloseLast(d) PROVE TypeOK'
  BY <1>3 DEF CloseLast
<1>4. ASSUME NEW d \in Doms, BufRequest(d) PROVE TypeOK'
  <2>1. CASE mBuffersAllocated # {}
    BY <1>4, <2>1 DEF BufRequest
  <2>2. CASE mBuffersAllocated = {}
    <3>1. PICK n \in BufCounts : StreamAlloc(n)
      BY <1>4, <2>2 DEF BufRequest
    <3>2. n \in Nat /\ mBuffers' \in Seq(Int)
      BY <3>1, MappedGrows DEF StreamAlloc
    <3>3. hwBuf' \in [0..(n - 1) -> {"queued", "done", "dequeued"}]
      BY <3>1, <3>2 DEF StreamAlloc
    <3> QED
      BY <1>4, <3>2, <3>3 DEF BufRequest
  <2> QED
    BY <2>1, <2>2
<1>5. ASSUME NEW d \in Doms, BufRequestFails(d) PROVE TypeOK'
  <2>1. CASE RequestRefused
    BY <1>5, <2>1 DEF BufRequestFails, RequestRefused
  <2>2. ASSUME NEW n \in BufCounts, NEW k \in 0..(n - 1), StreamAllocFails(n, k)
        PROVE  TypeOK'
    <3>1. n \in Nat /\ k \in Nat /\ mBuffers' \in Seq(Int)
      BY <2>2, MappedGrows DEF StreamAllocFails
    <3>2. hwBuf' \in [0..(n - 1) -> {"queued", "done", "dequeued"}]
      BY <2>2, <3>1 DEF StreamAllocFails
    <3> QED
      BY <1>5, <2>2, <3>1, <3>2 DEF BufRequestFails
  <2> QED
    BY <1>5, <2>1, <2>2 DEF BufRequestFails
<1>6. ASSUME NEW d \in Doms, BufRelease(d) PROVE TypeOK'
  BY <1>6, Emptied DEF BufRelease, StreamRelease
<1>7. ASSUME NEW d \in Doms, StreamStartJoin(d) PROVE TypeOK'
  BY <1>7 DEF StreamStartJoin
<1>8. ASSUME NEW d \in Doms, StreamStartFirst(d) PROVE TypeOK'
  BY <1>8 DEF StreamStartFirst, CreateThread
<1>9. ASSUME NEW d \in Doms, StreamStop(d) PROVE TypeOK'
  BY <1>9 DEF StreamStop
<1>10. ASSUME NEW d \in Doms, StreamStartOn(d) PROVE TypeOK'
  BY <1>10 DEF StreamStartOn, StreamOn
<1>11. ASSUME NEW d \in Doms, StopPoll(d) PROVE TypeOK'
  BY <1>11 DEF StopPoll, PollStop
<1>12. ASSUME NEW d \in Doms, StopJoin(d) PROVE TypeOK'
  BY <1>12 DEF StopJoin, Join
<1>13. ASSUME NEW d \in Doms, StopOff(d) PROVE TypeOK'
  BY <1>13 DEF StopOff, StreamOff
<1>14. ASSUME NEW d \in Doms, Destroy(d) PROVE TypeOK'
  BY <1>14, Emptied DEF BufStates, Destroy, StreamRelease
<1>15. CASE EvtLoop
  BY <1>15 DEF EvtLoop, EvtPollStopped, EvtPollReady, EvtDequeue, EvtRequeue, EvtThrow, EvtAt, Done
<1>16. CASE FrameBegin
  BY <1>16 DEF FrameBegin
<1>17. ASSUME NEW d \in Doms, FrameDeliver(d) PROVE TypeOK'
  BY <1>17 DEF FrameDeliver
<1>18. CASE FrameEnd
  BY <1>18 DEF FrameEnd
<1>19. CASE DriverCapture
  BY <1>19 DEF DriverCapture, Capture
<1>20. CASE UNCHANGED vars
  BY <1>20 DEF vars
<1>21. QED
  BY <1>1, <1>2, <1>3, <1>4, <1>5, <1>6, <1>7, <1>8, <1>9, <1>10, <1>11, <1>12, <1>13,
     <1>14, <1>15, <1>16, <1>17, <1>18, <1>19, <1>20 DEF Next, Request, Continue, Event, Ended

LEMMA InitTypes == Init => TypeOK
<1> SUFFICES ASSUME Init PROVE TypeOK
  OBVIOUS
<1>1. hwBuf \in [0..(0 - 1) -> BufStates] /\ mBuffers \in Seq(Int)
  BY Emptied DEF Init, CameraInit
<1>2. CameraTypeOK
  BY <1>1 DEF Init, CameraInit, CameraTypeOK, EvtPcs, BufStates
<1> QED
  BY <1>2 DEF Init, TypeOK, ConnStates, Connected, Pcs

\* Every variable has its type in every reachable state.
THEOREM TypeCorrect == Spec => []TypeOK
BY InitTypes, TypeStep, PTL DEF Spec

-----------------------------------------------------------------------------
(* Which thread may be where                                                *)

\* A control thread is busy only for a frontend that has buffers or that is
\* destroying the handler; while a handler is destroyed nobody is connected.
Lifecycle ==
    /\ \A d \in Doms : pc[d] # "idle" => conn[d] \in {"ready", "closing"}
    /\ \A d \in Doms : pc[d] = "on" => conn[d] = "ready"
    /\ \A d \in Doms : pc[d] = "release" => conn[d] = "closing"
    /\ \A d, e \in Doms : conn[d] = "closing" =>
          conn[e] \notin Connected /\ (conn[e] = "closing" => e = d)
    /\ \A d \in Doms : conn[d] = "closing" => pc[d] \in {"stop", "join", "off", "release"}

LEMMA LifecycleStep == TypeOK /\ Lifecycle /\ [Next]_vars => Lifecycle'
<1> SUFFICES ASSUME TypeOK, Lifecycle, [Next]_vars PROVE Lifecycle'
  OBVIOUS
<1>t. conn \in [Doms -> ConnStates] /\ pc \in [Doms -> Pcs]
  BY DEF TypeOK
<1> USE DEF Lifecycle, ConnStates, Connected, Pcs, Serves
<1>1. ASSUME NEW d \in Doms, Connect(d) PROVE Lifecycle'
  BY <1>t, <1>1 DEF Connect
<1>2. ASSUME NEW d \in Doms, Close(d) PROVE Lifecycle'
  BY <1>t, <1>2 DEF Close
<1>3. ASSUME NEW d \in Doms, CloseLast(d) PROVE Lifecycle'
  BY <1>t, <1>3 DEF CloseLast
<1>4. ASSUME NEW d \in Doms, BufRequest(d) PROVE Lifecycle'
  BY <1>t, <1>4 DEF BufRequest
<1>5. ASSUME NEW d \in Doms, BufRelease(d) PROVE Lifecycle'
  BY <1>t, <1>5 DEF BufRelease
<1>6. ASSUME NEW d \in Doms, StreamStartJoin(d) PROVE Lifecycle'
  BY <1>t, <1>6 DEF StreamStartJoin
<1>7. ASSUME NEW d \in Doms, StreamStartFirst(d) PROVE Lifecycle'
  BY <1>t, <1>7 DEF StreamStartFirst
<1>8. ASSUME NEW d \in Doms, StreamStop(d) PROVE Lifecycle'
  BY <1>t, <1>8 DEF StreamStop
<1>9. ASSUME NEW d \in Doms, StreamStartOn(d) PROVE Lifecycle'
  BY <1>t, <1>9 DEF StreamStartOn
<1>10. ASSUME NEW d \in Doms, StopPoll(d) PROVE Lifecycle'
  BY <1>t, <1>10 DEF StopPoll
<1>11. ASSUME NEW d \in Doms, StopJoin(d) PROVE Lifecycle'
  BY <1>t, <1>11 DEF StopJoin
<1>12. ASSUME NEW d \in Doms, StopOff(d) PROVE Lifecycle'
  BY <1>t, <1>12 DEF StopOff
<1>13. ASSUME NEW d \in Doms, Destroy(d) PROVE Lifecycle'
  BY <1>t, <1>13 DEF Destroy
<1>14. CASE UNCHANGED <<conn, pc>>
  BY <1>14
<1>15. QED
  BY <1>1, <1>2, <1>3, <1>4, <1>5, <1>6, <1>7, <1>8, <1>9, <1>10, <1>11, <1>12, <1>13, <1>14
  DEF Next, Request, Continue, Event, Ended, vars, BufRequestFails, EvtLoop, handlerVars,
      FrameBegin, FrameDeliver, FrameEnd, DriverCapture

-----------------------------------------------------------------------------
(* Listeners                                                                *)

\* Listeners are connected, and a frame is in delivery only under mLock.
Listeners ==
    /\ \A d \in mListeners : conn[d] \in Connected
    /\ \A d \in todo : conn[d] \in Connected
    /\ todo # {} => mLock = "event"
    /\ evtPc = "deliver" => mLock = "event"
    /\ \A d \in Doms : pc[d] = "on" => mLock = "control"
    /\ \A d, e \in Doms : pc[d] = "on" /\ pc[e] = "on" => d = e

LEMMA ListenersStep == TypeOK /\ Lifecycle /\ Listeners /\ [Next]_vars => Listeners'
<1> SUFFICES ASSUME TypeOK, Lifecycle, Listeners, [Next]_vars PROVE Listeners'
  OBVIOUS
<1>t. /\ conn \in [Doms -> ConnStates] /\ pc \in [Doms -> Pcs]
      /\ mListeners \subseteq Doms /\ todo \subseteq Doms
  BY DEF TypeOK
<1> USE DEF Listeners, ConnStates, Connected, Pcs, Serves, bookVars, threadVars, cameraVars
<1>1. ASSUME NEW d \in Doms, Connect(d) PROVE Listeners'
  BY <1>t, <1>1 DEF Connect
<1>2. ASSUME NEW d \in Doms, Close(d) PROVE Listeners'
  BY <1>t, <1>2 DEF Close
<1>3. ASSUME NEW d \in Doms, CloseLast(d) PROVE Listeners'
  BY <1>t, <1>3 DEF CloseLast
<1>4. ASSUME NEW d \in Doms, BufRequest(d) PROVE Listeners'
  BY <1>t, <1>4 DEF BufRequest
<1>5. ASSUME NEW d \in Doms, BufRelease(d) PROVE Listeners'
  BY <1>t, <1>5 DEF BufRelease
<1>6. ASSUME NEW d \in Doms, StreamStartJoin(d) PROVE Listeners'
  BY <1>t, <1>6 DEF StreamStartJoin
<1>7. ASSUME NEW d \in Doms, StreamStartFirst(d) PROVE Listeners'
  BY <1>t, <1>7 DEF StreamStartFirst, CreateThread
<1>8. ASSUME NEW d \in Doms, StreamStop(d) PROVE Listeners'
  BY <1>t, <1>8 DEF StreamStop
<1>9. ASSUME NEW d \in Doms, StreamStartOn(d) PROVE Listeners'
  BY <1>t, <1>9 DEF StreamStartOn
<1>10. ASSUME NEW d \in Doms, StopPoll(d) PROVE Listeners'
  BY <1>t, <1>10 DEF StopPoll
<1>11. ASSUME NEW d \in Doms, StopJoin(d) PROVE Listeners'
  BY <1>t, <1>11 DEF StopJoin, Join
<1>12. ASSUME NEW d \in Doms, StopOff(d) PROVE Listeners'
  BY <1>t, <1>12 DEF StopOff
<1>13. ASSUME NEW d \in Doms, Destroy(d) PROVE Listeners'
  BY <1>t, <1>13 DEF Destroy, Lifecycle
<1>14. CASE FrameBegin
  BY <1>t, <1>14 DEF FrameBegin
<1>15. ASSUME NEW d \in Doms, FrameDeliver(d) PROVE Listeners'
  BY <1>t, <1>15 DEF FrameDeliver
<1>16. CASE FrameEnd
  BY <1>t, <1>16 DEF FrameEnd, EvtAt
<1>17. CASE UNCHANGED <<evtPc, mListeners, todo, mLock, conn, pc>>
  BY <1>17
<1>18. CASE EvtLoop
  BY <1>18 DEF EvtLoop, handlerVars, EvtPollStopped, EvtPollReady, EvtDequeue, EvtRequeue, EvtThrow
<1>19. QED
  BY <1>1, <1>2, <1>3, <1>4, <1>5, <1>6, <1>7, <1>8, <1>9, <1>10, <1>11, <1>12, <1>13, <1>14,
     <1>15, <1>16, <1>17, <1>18
  DEF Next, Request, Continue, Event, Ended, vars, BufRequestFails, handlerVars,
      DriverCapture, Capture

\* No frame is ever delivered to a CommandHandler that was destroyed: the
\* callbacks hold a bare pointer, and mLock in listenerReset() is what keeps
\* it good (CameraHandler.cpp:118, 372).
THEOREM ListenersAlive == Spec => []NoDeadListener
<1> DEFINE Inv == TypeOK /\ Lifecycle /\ Listeners
<1>1. Init => Inv
  <2>1. Init => TypeOK
    BY InitTypes
  <2>2. Init => Lifecycle /\ Listeners
    BY DEF Init, CameraInit, Lifecycle, Listeners, Connected
  <2> QED
    BY <2>1, <2>2
<1>2. Inv /\ [Next]_vars => Inv'
  BY TypeStep, LifecycleStep, ListenersStep
<1>3. Inv => NoDeadListener
  BY DEF Listeners, NoDeadListener
<1> QED
  BY <1>1, <1>2, <1>3, PTL DEF Spec

-----------------------------------------------------------------------------
(* The books                                                                *)

\* Who streams holds buffers; who is connected with buffers is in the books; and
\* only a frontend that streams, or went away streaming, is booked as streaming.
Books ==
    /\ mStreamingNow \subseteq mBuffersAllocated
    /\ \A d \in Doms : conn[d] \in {"ready", "streaming"} => d \in mBuffersAllocated
    /\ \A d \in mStreamingNow : conn[d] \in {"streaming", "gone", "closing"}

LEMMA BooksStep ==
    ASSUME Returning = {}, TypeOK, Lifecycle, Books, [Next]_vars
    PROVE  Books'
<1>t. /\ conn \in [Doms -> ConnStates] /\ pc \in [Doms -> Pcs]
      /\ mBuffersAllocated \subseteq Doms /\ mStreamingNow \subseteq Doms
  BY DEF TypeOK
<1> USE DEF Books, ConnStates, Connected, Pcs, Serves, bookVars
<1>1. ASSUME NEW d \in Doms, Connect(d) PROVE Books'
  BY <1>t, <1>1 DEF Connect
<1>2. ASSUME NEW d \in Doms, Close(d) PROVE Books'
  BY <1>t, <1>2, Returning = {} DEF Close
<1>3. ASSUME NEW d \in Doms, CloseLast(d) PROVE Books'
  BY <1>t, <1>3 DEF CloseLast
<1>4. ASSUME NEW d \in Doms, BufRequest(d) PROVE Books'
  BY <1>t, <1>4 DEF BufRequest
<1>5. ASSUME NEW d \in Doms, BufRelease(d) PROVE Books'
  BY <1>t, <1>5 DEF BufRelease
<1>6. ASSUME NEW d \in Doms, StreamStartJoin(d) PROVE Books'
  BY <1>t, <1>6 DEF StreamStartJoin
<1>7. ASSUME NEW d \in Doms, StreamStartFirst(d) PROVE Books'
  BY <1>t, <1>7 DEF StreamStartFirst, CreateThread
<1>8. ASSUME NEW d \in Doms, StreamStop(d) PROVE Books'
  BY <1>t, <1>8 DEF StreamStop
<1>9. ASSUME NEW d \in Doms, StreamStartOn(d) PROVE Books'
  BY <1>t, <1>9 DEF StreamStartOn, Lifecycle
<1>10. ASSUME NEW d \in Doms, StopPoll(d) PROVE Books'
  BY <1>t, <1>10 DEF StopPoll
<1>11. ASSUME NEW d \in Doms, StopJoin(d) PROVE Books'
  BY <1>t, <1>11 DEF StopJoin, Join
<1>12. ASSUME NEW d \in Doms, StopOff(d) PROVE Books'
  BY <1>t, <1>12 DEF StopOff
<1>13. ASSUME NEW d \in Doms, Destroy(d) PROVE Books'
  BY <1>t, <1>13 DEF Destroy
<1>14. CASE UNCHANGED <<mBuffersAllocated, mStreamingNow, conn>>
  BY <1>14
<1>15. QED
  BY <1>1, <1>2, <1>3, <1>4, <1>5, <1>6, <1>7, <1>8, <1>9, <1>10, <1>11, <1>12, <1>13, <1>14
  DEF Next, Request, Continue, Event, Ended, vars, BufRequestFails, EvtLoop, handlerVars,
      FrameBegin, FrameDeliver, FrameEnd, DriverCapture

-----------------------------------------------------------------------------
(* The event thread                                                         *)

\* The event thread runs only while some frontend has buffers, and only for a
\* frontend that streams, is about to, or is just stopping it; the destructor
\* has waited for it before it lets the buffers go.
Thread ==
    /\ mThread = "running" => mBuffersAllocated # {}
    /\ mThread = "running" =>
          mStreamingNow # {} \/ \E d \in Doms : pc[d] \in {"on", "stop", "join"}
    /\ \A d \in Doms : conn[d] = "closing" /\ pc[d] \in {"off", "release"} => mThread = "none"

LEMMA ThreadStep ==
    ASSUME TypeOK, Lifecycle, Books, Thread, [Next]_vars
    PROVE  Thread'
<1>t. /\ conn \in [Doms -> ConnStates] /\ pc \in [Doms -> Pcs]
      /\ mBuffersAllocated \subseteq Doms /\ mStreamingNow \subseteq Doms
  BY DEF TypeOK
<1> USE DEF Thread, ConnStates, Connected, Pcs, Serves, bookVars, cameraVars, threadVars
<1>1. ASSUME NEW d \in Doms, Connect(d) PROVE Thread'
  BY <1>t, <1>1 DEF Lifecycle, Books, Connect
<1>2. ASSUME NEW d \in Doms, Close(d) PROVE Thread'
  BY <1>t, <1>2 DEF Lifecycle, Books, Close
<1>3. ASSUME NEW d \in Doms, CloseLast(d) PROVE Thread'
  BY <1>t, <1>3 DEF Lifecycle, Books, CloseLast
<1>4. ASSUME NEW d \in Doms, BufRequest(d) PROVE Thread'
  BY <1>t, <1>4 DEF Lifecycle, Books, BufRequest
<1>5. ASSUME NEW d \in Doms, BufRelease(d) PROVE Thread'
  BY <1>t, <1>5 DEF Lifecycle, Books, BufRelease
<1>6. ASSUME NEW d \in Doms, StreamStartJoin(d) PROVE Thread'
  BY <1>t, <1>6 DEF Lifecycle, Books, StreamStartJoin
<1>7. ASSUME NEW d \in Doms, StreamStartFirst(d) PROVE Thread'
  BY <1>t, <1>7 DEF Lifecycle, Books, StreamStartFirst, CreateThread
<1>8. ASSUME NEW d \in Doms, StreamStop(d) PROVE Thread'
  BY <1>t, <1>8 DEF Lifecycle, Books, StreamStop
<1>9. ASSUME NEW d \in Doms, StreamStartOn(d) PROVE Thread'
  BY <1>t, <1>9 DEF Lifecycle, Books, StreamStartOn
<1>10. ASSUME NEW d \in Doms, StopPoll(d) PROVE Thread'
  BY <1>t, <1>10 DEF Lifecycle, Books, StopPoll
<1>11. ASSUME NEW d \in Doms, StopJoin(d) PROVE Thread'
  BY <1>t, <1>11 DEF Lifecycle, Books, StopJoin, Join
<1>12. ASSUME NEW d \in Doms, StopOff(d) PROVE Thread'
  BY <1>t, <1>12 DEF Lifecycle, Books, StopOff
<1>13. ASSUME NEW d \in Doms, Destroy(d) PROVE Thread'
  BY <1>t, <1>13 DEF Lifecycle, Books, Destroy
<1>14. CASE UNCHANGED <<mThread, mBuffersAllocated, mStreamingNow, conn, pc>>
  BY <1>14
<1>15. CASE EvtPollStopped /\ UNCHANGED handlerVars
  BY <1>15 DEF EvtPollStopped, EvtAt, handlerVars, Lifecycle
<1>16. QED
  BY <1>1, <1>2, <1>3, <1>4, <1>5, <1>6, <1>7, <1>8, <1>9, <1>10, <1>11, <1>12, <1>13, <1>14, <1>15
  DEF Next, Request, Continue, Event, Ended, vars, BufRequestFails, EvtLoop, EvtPollReady,
      EvtDequeue, EvtRequeue, EvtThrow, handlerVars, FrameBegin, FrameDeliver, FrameEnd,
      DriverCapture, Capture

-----------------------------------------------------------------------------
(* The buffer the event thread holds                                        *)

\* While anybody has buffers, every buffer of the driver has an entry in
\* mBuffers; what the event thread holds is one of them, and not the driver's.
Frame ==
    /\ mBuffersAllocated # {} => \A i \in DOMAIN hwBuf : i < Len(mBuffers)
    /\ evtPc \in HoldingPcs =>
          mThread = "running" /\ evtBuf \in DOMAIN hwBuf /\ hwBuf[evtBuf] = "dequeued"

LEMMA FrameStep ==
    ASSUME TypeOK, Lifecycle, Books, Thread, Frame, [Next]_vars
    PROVE  Frame'
<1>t. /\ conn \in [Doms -> ConnStates] /\ pc \in [Doms -> Pcs]
      /\ mBuffersAllocated \subseteq Doms /\ mStreamingNow \subseteq Doms
      /\ mBuffers \in Seq(Int) /\ Len(mBuffers) \in Nat
      /\ evtPc \in EvtPcs
  BY DEF TypeOK, CameraTypeOK
<1>h. PICK n \in BufCounts \cup {0} : hwBuf \in [0..(n - 1) -> BufStates]
  BY DEF TypeOK, CameraTypeOK, BufStates
<1>n. n \in Nat
  BY CameraAssumption
<1> USE DEF Frame, HoldingPcs, EvtPcs, Serves, bookVars, cameraVars, threadVars, driverVars
<1>1. ASSUME NEW d \in Doms, BufRequest(d) PROVE Frame'
  <2>1. CASE mBuffersAllocated # {}
    BY <1>1, <2>1 DEF BufRequest
  <2>2. CASE mBuffersAllocated = {}
    <3>1. PICK m \in BufCounts : StreamAlloc(m)
      BY <1>1, <2>2 DEF BufRequest
    <3>2. m \in Nat /\ DOMAIN hwBuf' = 0..(m - 1)
      BY <3>1, CameraAssumption DEF StreamAlloc
    <3>3. Len(mBuffers') = Len(mBuffers) + m
      BY <1>t, <3>1, <3>2, MappedGrows DEF StreamAlloc
    <3>4. evtPc' \notin HoldingPcs
      BY <1>1, <2>2 DEF BufRequest, Thread
    <3> QED
      BY <1>t, <3>2, <3>3, <3>4
  <2> QED
    BY <2>1, <2>2
<1>2. ASSUME NEW d \in Doms, BufRequestFails(d) PROVE Frame'
  BY <1>2 DEF BufRequestFails, Thread
<1>3. ASSUME NEW d \in Doms, BufRelease(d) PROVE Frame'
  BY <1>3 DEF BufRelease, Thread
<1>4. ASSUME NEW d \in Doms, StreamStartFirst(d) PROVE Frame'
  BY <1>4 DEF StreamStartFirst, CreateThread
<1>5. ASSUME NEW d \in Doms, StreamStartOn(d) PROVE Frame'
  BY <1>5 DEF StreamStartOn, StreamOn
<1>6. ASSUME NEW d \in Doms, StopJoin(d) PROVE Frame'
  BY <1>6 DEF StopJoin, Join
<1>7. ASSUME NEW d \in Doms, StopOff(d) PROVE Frame'
  BY <1>7 DEF StopOff, StreamOff
<1>8. ASSUME NEW d \in Doms, Destroy(d) PROVE Frame'
  <2>1. mThread = "none"
    BY <1>8 DEF Destroy, Thread, Lifecycle
  <2> QED
    BY <1>8, <2>1 DEF Destroy
<1>9. CASE EvtLoop
  <2>1. CASE EvtPollStopped
    BY <1>9, <2>1 DEF EvtLoop, handlerVars, EvtPollStopped, EvtAt
  <2>2. CASE EvtPollReady \/ EvtThrow
    BY <1>9, <2>2 DEF EvtLoop, handlerVars, EvtPollReady, EvtThrow
  <2>3. CASE EvtDequeue
    BY <1>9, <2>3, <1>h, <1>n DEF EvtLoop, handlerVars, EvtDequeue, EvtAt, Done
  <2>4. CASE EvtRequeue
    BY <1>9, <2>4, <1>h DEF EvtLoop, handlerVars, EvtRequeue
  <2> QED
    BY <1>9, <2>1, <2>2, <2>3, <2>4 DEF EvtLoop
<1>10. CASE FrameBegin
  BY <1>10 DEF FrameBegin, EvtAt
<1>11. CASE FrameEnd
  BY <1>11 DEF FrameEnd, EvtAt
<1>12. CASE DriverCapture
  BY <1>12, <1>h DEF DriverCapture, Capture, handlerVars
<1>13. CASE UNCHANGED <<mThread, evtPc, evtBuf, hwBuf, mBuffers, mBuffersAllocated>>
  BY <1>13
<1>14. QED
  BY <1>1, <1>2, <1>3, <1>4, <1>5, <1>6, <1>7, <1>8, <1>9, <1>10, <1>11, <1>12, <1>13
  DEF Next, Request, Continue, Event, Ended, vars, Connect, Close, CloseLast, StreamStartJoin,
      StreamStop, StopPoll, FrameDeliver

-----------------------------------------------------------------------------
(* The inductive invariant and what follows from it                         *)

IInv == TypeOK /\ Lifecycle /\ Books /\ Thread /\ Frame

\* With frontends that stay away after closing mid-stream, IInv is inductive.
LEMMA IInvHolds ==
    ASSUME Returning = {}
    PROVE  Spec => []IInv
<1>1. Init => IInv
  <2>1. Init => TypeOK
    BY InitTypes
  <2>2. Init => Lifecycle /\ Books /\ Thread /\ Frame
    BY DEF Init, CameraInit, Lifecycle, Books, Thread, Frame, HoldingPcs
  <2> QED
    BY <2>1, <2>2 DEF IInv
<1>2. IInv /\ [Next]_vars => IInv'
  BY TypeStep, LifecycleStep, BooksStep, ThreadStep, FrameStep DEF IInv
<1> QED
  BY <1>1, <1>2, PTL DEF Spec

\* The unchecked mBuffers[index] of bufferGetData() (Camera.cpp:288) stays within
\* the vector, however the frontends interleave requests, buffers, starts, stops
\* and disconnections, and whichever ioctls fail.
THEOREM DataStaysInRange ==
    ASSUME Returning = {}
    PROVE  Spec => []DataInRange
<1>1. IInv => DataInRange
  <2> SUFFICES ASSUME IInv, evtPc \in HoldingPcs PROVE evtBuf < Len(mBuffers)
    BY DEF DataInRange
  <2>1. mBuffersAllocated # {} /\ evtBuf \in DOMAIN hwBuf
    BY DEF IInv, Frame, Thread
  <2> QED
    BY <2>1 DEF IInv, Frame
<1> QED
  BY <1>1, IInvHolds, PTL

\* The driver never fills the buffer a frame is being copied from.
THEOREM FramesAreWhole ==
    ASSUME Returning = {}
    PROVE  Spec => []NoTornFrame
<1>1. IInv => NoTornFrame
  BY DEF IInv, Frame, NoTornFrame
<1> QED
  BY <1>1, IInvHolds, PTL

-----------------------------------------------------------------------------
(* One thread starts or stops the device                                    *)

\* The threads that are starting the device, or stopping it up to the join.
Turning == {d \in Doms : pc[d] \in {"on", "stop", "join"}}
Closing == \E d \in Doms : conn[d] = "closing"

\* Who streams is booked.  While the handler is not being destroyed, at most one thread starts or stops, and then nobody is booked;
\* the event thread exists exactly while somebody is booked or turning the device, and
\* the byte that stops it is in the pipe only between stop() and its end.
Turns ==
    /\ \A d \in Doms : conn[d] = "streaming" => d \in mStreamingNow
    /\ Up /\ ~Closing =>
          /\ \A d, e \in Turning : d = e
          /\ Turning # {} => mStreamingNow = {}
          /\ mStreamingNow # {} => mThread = "running" /\ stopReq = 0
          /\ \A d \in Doms : pc[d] \in {"on", "stop"} => mThread = "running" /\ stopReq = 0
          /\ \A d \in Doms : pc[d] = "join" =>
                \/ mThread = "running" /\ stopReq = 1
                \/ mThread = "finished" /\ stopReq = 0
          /\ mStreamingNow = {} /\ Turning = {} => mThread = "none" /\ stopReq = 0

LEMMA TurnsStep ==
    TypeOK /\ Lifecycle /\ Listeners /\ Turns /\ [Next]_vars => Turns'
<1> SUFFICES ASSUME TypeOK, Lifecycle, Listeners, Turns, [Next]_vars PROVE Turns'
  OBVIOUS
<1>t. /\ conn \in [Doms -> ConnStates] /\ pc \in [Doms -> Pcs]
      /\ mStreamingNow \subseteq Doms /\ stopReq \in Nat
      /\ mThread \in {"none", "running", "finished"}
  BY DEF TypeOK, CameraTypeOK
<1>l. /\ \A d \in Doms : pc[d] # "idle" => conn[d] \in {"ready", "closing"}
      /\ \A d, e \in Doms : conn[d] = "closing" =>
            conn[e] \notin Connected /\ (conn[e] = "closing" => e = d)
      /\ \A d \in Doms : pc[d] = "on" => conn[d] = "ready"
      /\ \A d \in Doms : pc[d] = "release" => conn[d] = "closing"
      /\ \A d \in Doms : pc[d] = "on" => mLock = "control"
  BY DEF Lifecycle, Listeners
<1> USE DEF Turns, Turning, Closing, Up, ConnStates, Connected, Pcs, Serves, bookVars,
            cameraVars, threadVars
<1>1. ASSUME NEW d \in Doms, Connect(d) PROVE Turns'
  BY <1>t, <1>l, <1>1 DEF Connect
<1>2. ASSUME NEW d \in Doms, Close(d) PROVE Turns'
  BY <1>t, <1>l, <1>2 DEF Close
<1>3. ASSUME NEW d \in Doms, CloseLast(d) PROVE Turns'
  BY <1>t, <1>l, <1>3 DEF CloseLast
<1>4. ASSUME NEW d \in Doms, StreamStartJoin(d) PROVE Turns'
  BY <1>t, <1>l, <1>4 DEF StreamStartJoin
<1>5. ASSUME NEW d \in Doms, StreamStartFirst(d) PROVE Turns'
  BY <1>t, <1>l, <1>5 DEF StreamStartFirst, CreateThread
<1>6. ASSUME NEW d \in Doms, StreamStop(d) PROVE Turns'
  BY <1>t, <1>l, <1>6 DEF StreamStop
<1>7. ASSUME NEW d \in Doms, StreamStartOn(d) PROVE Turns'
  BY <1>t, <1>l, <1>7 DEF StreamStartOn
<1>8. ASSUME NEW d \in Doms, StopPoll(d) PROVE Turns'
  BY <1>t, <1>l, <1>8 DEF StopPoll, PollStop
<1>9. ASSUME NEW d \in Doms, StopJoin(d) PROVE Turns'
  BY <1>t, <1>l, <1>9 DEF StopJoin, Join
<1>10. ASSUME NEW d \in Doms, StopOff(d) PROVE Turns'
  BY <1>t, <1>l, <1>10 DEF StopOff
<1>11. ASSUME NEW d \in Doms, Destroy(d) PROVE Turns'
  BY <1>t, <1>l, <1>11 DEF Destroy
<1>12. CASE EvtPollStopped /\ UNCHANGED handlerVars
  BY <1>t, <1>l, <1>12 DEF EvtPollStopped, EvtAt, handlerVars
<1>13. CASE EvtThrow /\ UNCHANGED handlerVars
  BY <1>t, <1>l, <1>13 DEF EvtThrow, handlerVars
<1>14. CASE UNCHANGED <<backend, mThread, stopReq, mStreamingNow, conn, pc>> /\ mLock' = mLock
  BY <1>14
<1>15. CASE FrameBegin \/ FrameEnd
  BY <1>t, <1>l, <1>15 DEF FrameBegin, FrameEnd, EvtAt, Listeners
<1>16. ASSUME NEW d \in Doms, BufRequest(d) \/ BufRelease(d) PROVE Turns'
  BY <1>t, <1>l, <1>16 DEF BufRequest, BufRelease
<1>17. QED
  BY <1>1, <1>2, <1>3, <1>4, <1>5, <1>6, <1>7, <1>8, <1>9, <1>10, <1>11, <1>12, <1>13, <1>14,
     <1>15, <1>16
  DEF Next, Request, Continue, Event, Ended, vars, BufRequestFails, EvtLoop, EvtPollReady,
      EvtDequeue, EvtRequeue, handlerVars, FrameDeliver, DriverCapture, Capture

TInv == TypeOK /\ Lifecycle /\ Listeners /\ Turns

LEMMA TInvHolds == Spec => []TInv
<1>1. Init => TInv
  <2>1. Init => TypeOK
    BY InitTypes
  <2>2. Init => Lifecycle /\ Listeners /\ Turns
    BY DEF Init, CameraInit, Lifecycle, Listeners, Turns, Turning, Connected
  <2> QED
    BY <2>1, <2>2 DEF TInv
<1>2. TInv /\ [Next]_vars => TInv'
  BY TypeStep, LifecycleStep, ListenersStep, TurnsStep DEF TInv
<1> QED
  BY <1>1, <1>2, PTL DEF Spec

\* A std::thread is joined by at most one thread at a time: two joins would be
\* undefined (Camera.cpp:333-334, which no lock protects).
THEOREM OneJoinerAtATime == Spec => []OneJoiner
<1>1. TInv => OneJoiner
  <2> SUFFICES ASSUME TInv, Up PROVE Cardinality({d \in Doms : pc[d] \in {"stop", "join"}}) <= 1
    BY DEF OneJoiner
  <2> DEFINE Joiners == {d \in Doms : pc[d] \in {"stop", "join"}}
  <2>1. \A d, e \in Joiners : d = e
    <3>1. CASE Closing
      BY <3>1 DEF TInv, Closing, Lifecycle, Connected
    <3>2. CASE ~Closing
      BY <3>2 DEF TInv, Turns, Turning
    <3> QED
      BY <3>1, <3>2
  <2>2. CASE Joiners = {}
    BY <2>2, FS_EmptySet
  <2>3. ASSUME NEW d \in Joiners PROVE Cardinality(Joiners) <= 1
    <3>1. Joiners = {d}
      BY <2>1
    <3>2. Cardinality({d}) = 1
      BY FS_Singleton
    <3> HIDE DEF Joiners
    <3> QED
      BY <3>1, <3>2
  <2> QED
    BY <2>2, <2>3
<1> QED
  BY <1>1, TInvHolds, PTL

\* Whatever overtakes whatever, a device that streams is booked or still has a
\* STREAMOFF to come.
Off == streaming => mStreamingNow # {} \/ \E d \in Doms : pc[d] \in {"stop", "join", "off"}

\* As long as STREAMOFF does not fail, the books tell whether the event thread exists
\* and, once nobody is busy, that nothing of a stopped stream is left: no thread, no
\* stop byte for the next one, no streaming device (CameraHandler.cpp:434-469).
THEOREM ThreadsFollowBooks ==
    ASSUME "off" \notin Faults
    PROVE  Spec => []ThreadFollowsBook
<1>1. Init => Off
  BY DEF Init, CameraInit, Off
<1>2. TInv /\ Off /\ [Next]_vars => Off'
  <2> SUFFICES ASSUME TInv, Off, [Next]_vars PROVE Off'
    OBVIOUS
  <2>t. conn \in [Doms -> ConnStates] /\ pc \in [Doms -> Pcs] /\ mStreamingNow \subseteq Doms
    BY DEF TInv, TypeOK
  <2> USE DEF Off, Serves, bookVars, cameraVars, driverVars, Pcs
  <2>1. ASSUME NEW d \in Doms, StreamStop(d) PROVE Off'
    BY <2>t, <2>1 DEF StreamStop
  <2>2. ASSUME NEW d \in Doms, StreamStartOn(d) PROVE Off'
    BY <2>t, <2>2 DEF StreamStartOn
  <2>3. ASSUME NEW d \in Doms, StopPoll(d) PROVE Off'
    BY <2>t, <2>3 DEF StopPoll
  <2>4. ASSUME NEW d \in Doms, StopJoin(d) PROVE Off'
    BY <2>t, <2>4 DEF StopJoin
  <2>5. ASSUME NEW d \in Doms, StopOff(d) PROVE Off'
    BY <2>5 DEF StopOff, StreamOff
  <2>6. ASSUME NEW d \in Doms, Destroy(d) PROVE Off'
    BY <2>6 DEF Destroy
  <2>7. ASSUME NEW d \in Doms, StreamStartFirst(d) PROVE Off'
    BY <2>t, <2>7 DEF StreamStartFirst
  <2>8. ASSUME NEW d \in Doms, CloseLast(d) PROVE Off'
    BY <2>t, <2>8 DEF CloseLast
  <2>9. ASSUME NEW d \in Doms, StreamStartJoin(d) PROVE Off'
    BY <2>t, <2>9 DEF StreamStartJoin
  <2>10. CASE UNCHANGED <<streaming, mStreamingNow, pc>>
    BY <2>10
  <2> QED
    BY <2>1, <2>2, <2>3, <2>4, <2>5, <2>6, <2>7, <2>8, <2>9, <2>10
    DEF Next, Request, Continue, Event, Ended, vars, Connect, Close, BufRequest,
        BufRequestFails, BufRelease, EvtLoop, EvtPollStopped, EvtPollReady, EvtDequeue,
        EvtRequeue, EvtThrow, handlerVars, FrameBegin, FrameDeliver, FrameEnd, DriverCapture,
        Capture
<1>3. TInv /\ Off => ThreadFollowsBook
  <2> SUFFICES ASSUME TInv, Off PROVE ThreadFollowsBook
    OBVIOUS
  <2>1. Up /\ mStreamingNow # {} /\ (\A d \in Doms : conn[d] # "closing") => mThread = "running"
    BY DEF TInv, Turns, Closing
  <2>2. ASSUME Quiescent, mStreamingNow = {} PROVE mThread = "none" /\ stopReq = 0 /\ ~streaming
    <3>1. Up /\ ~Closing /\ Turning = {}
      BY <2>2 DEF Quiescent, TInv, Lifecycle, Closing, Turning
    <3>2. ~streaming
      BY <2>2 DEF Off, Quiescent
    <3> QED
      BY <2>2, <3>1, <3>2 DEF TInv, Turns
  <2> QED
    BY <2>1, <2>2 DEF ThreadFollowsBook
<1> QED
  BY <1>1, <1>2, <1>3, TInvHolds, PTL DEF Spec

-----------------------------------------------------------------------------
(* Nobody waits for ever                                                    *)

\* Who holds mLock, and, while the handler is being destroyed, how far the one
\* thread that destroys it has come with the event thread.
Waits ==
    /\ mLock = "event" => mThread = "running" /\ evtPc = "deliver"
    /\ mLock = "control" => \E d \in Doms : pc[d] = "on"
    /\ \A d \in Doms : conn[d] = "closing" =>
          /\ pc[d] = "stop" => stopReq = 0
          /\ pc[d] = "join" => mThread # "running" \/ stopReq = 1
          /\ pc[d] \in {"off", "release"} => mThread = "none"

LEMMA WaitsStep == TInv /\ Waits /\ [Next]_vars => Waits'
<1> SUFFICES ASSUME TInv, Waits, [Next]_vars PROVE Waits'
  OBVIOUS
<1>t. /\ conn \in [Doms -> ConnStates] /\ pc \in [Doms -> Pcs] /\ stopReq \in Nat
      /\ mThread \in {"none", "running", "finished"}
  BY DEF TInv, TypeOK, CameraTypeOK
<1>l. /\ \A d \in Doms : pc[d] # "idle" => conn[d] \in {"ready", "closing"}
      /\ \A d, e \in Doms : conn[d] = "closing" =>
            conn[e] \notin Connected /\ (conn[e] = "closing" => e = d)
      /\ \A d \in Doms : pc[d] = "on" => conn[d] = "ready"
      /\ \A d \in Doms : pc[d] = "release" => conn[d] = "closing"
      /\ \A d \in Doms : pc[d] = "on" => mLock = "control"
      /\ \A d \in Doms : conn[d] = "closing" => pc[d] \in {"stop", "join", "off", "release"}
      /\ evtPc = "deliver" => mLock = "event"
  BY DEF TInv, Lifecycle, Listeners
<1> USE DEF Waits, ConnStates, Connected, Pcs, Serves, bookVars, cameraVars, threadVars, driverVars
<1>1. ASSUME NEW d \in Doms, Connect(d) PROVE Waits'
  BY <1>t, <1>l, <1>1 DEF Connect
<1>2. ASSUME NEW d \in Doms, Close(d) PROVE Waits'
  BY <1>t, <1>l, <1>2 DEF Close
<1>3. ASSUME NEW d \in Doms, CloseLast(d) PROVE Waits'
  <2>1. stopReq = 0
    <3>1. Up /\ ~Closing
      BY <1>3, <1>l DEF CloseLast, Up, Closing
    <3>2. Turning = {}
      BY <1>3, <1>l DEF CloseLast, Turning
    <3> QED
      BY <3>1, <3>2 DEF TInv, Turns
  <2> QED
    BY <1>t, <1>l, <1>3, <2>1 DEF CloseLast
<1>4. ASSUME NEW d \in Doms, BufRequest(d) \/ BufRequestFails(d) \/ BufRelease(d) PROVE Waits'
  BY <1>t, <1>l, <1>4 DEF BufRequest, BufRequestFails, BufRelease
<1>5. ASSUME NEW d \in Doms, StreamStartJoin(d) PROVE Waits'
  BY <1>t, <1>l, <1>5 DEF StreamStartJoin
<1>6. ASSUME NEW d \in Doms, StreamStartFirst(d) PROVE Waits'
  BY <1>t, <1>l, <1>6 DEF StreamStartFirst, CreateThread
<1>7. ASSUME NEW d \in Doms, StreamStop(d) PROVE Waits'
  BY <1>t, <1>l, <1>7 DEF StreamStop
<1>8. ASSUME NEW d \in Doms, StreamStartOn(d) PROVE Waits'
  BY <1>t, <1>l, <1>8 DEF StreamStartOn
<1>9. ASSUME NEW d \in Doms, StopPoll(d) PROVE Waits'
  BY <1>t, <1>l, <1>9 DEF StopPoll, PollStop
<1>10. ASSUME NEW d \in Doms, StopJoin(d) PROVE Waits'
  BY <1>t, <1>l, <1>10 DEF StopJoin, Join
<1>11. ASSUME NEW d \in Doms, StopOff(d) PROVE Waits'
  BY <1>t, <1>l, <1>11 DEF StopOff
<1>12. ASSUME NEW d \in Doms, Destroy(d) PROVE Waits'
  BY <1>t, <1>l, <1>12 DEF Destroy
<1>13. CASE EvtLoop
  BY <1>t, <1>l, <1>13 DEF EvtLoop, EvtPollStopped, EvtPollReady, EvtDequeue, EvtRequeue, EvtThrow,
     EvtAt, handlerVars
<1>14. CASE FrameBegin \/ FrameEnd
  BY <1>t, <1>l, <1>14 DEF FrameBegin, FrameEnd, EvtAt
<1>15. CASE UNCHANGED <<mThread, evtPc, stopReq, mLock, conn, pc>>
  BY <1>15
<1> QED
  BY <1>1, <1>2, <1>3, <1>4, <1>5, <1>6, <1>7, <1>8, <1>9, <1>10, <1>11, <1>12, <1>13, <1>14, <1>15
  DEF Next, Request, Continue, Event, Ended, vars, handlerVars, FrameDeliver, DriverCapture, Capture

\* The waits of the handler form no circle: a control thread may wait for the end of the
\* event thread, the event thread for mLock, and whoever holds mLock waits for nobody
\* (CameraHandler.cpp:451-467 releases mLock before it joins).
THEOREM NobodyWaitsForEver == Spec => []NoCircularWait
<1>1. Init => Waits
  BY DEF Init, CameraInit, Waits
<1>2. TInv /\ Waits => NoCircularWait
  <2> SUFFICES ASSUME TInv, Waits, Up, NEW d \in Doms, pc[d] = "join"
               PROVE  mThread # "running" \/ stopReq > 0
    BY DEF Waits, NoCircularWait
  <2>1. CASE Closing
    <3>1. conn[d] = "closing"
      BY <2>1 DEF TInv, Lifecycle, Closing, Connected
    <3> QED
      BY <3>1 DEF Waits
  <2>2. CASE ~Closing
    BY <2>2 DEF TInv, Turns
  <2> QED
    BY <2>1, <2>2
<1> QED
  BY <1>1, <1>2, WaitsStep, TInvHolds, PTL DEF Spec

-----------------------------------------------------------------------------
(* A camera of one frontend                                                 *)

\* The frontend is booked as streaming only while it streams, on a device that does, or
\* while it destroys the handler.
Alone ==
    \A d \in mStreamingNow :
        conn[d] = "closing" \/ (conn[d] = "streaming" /\ streaming /\ pc[d] = "idle")

\* A camera that one frontend uses does what its books say (CameraHandler.hpp:82-84),
\* whatever that frontend asks for, unless STREAMON or STREAMOFF fails: it takes a second
\* frontend to make them differ.
THEOREM OneFrontendFollowsBook ==
    ASSUME \A d, e \in Doms : d = e, "on" \notin Faults, "off" \notin Faults
    PROVE  Spec => []HardwareFollowsBook
<1>1. Init => Alone
  BY DEF Init, Alone
<1>2. TInv /\ Alone /\ [Next]_vars => Alone'
  <2> SUFFICES ASSUME TInv, Alone, [Next]_vars PROVE Alone'
    OBVIOUS
  <2>t. conn \in [Doms -> ConnStates] /\ pc \in [Doms -> Pcs] /\ mStreamingNow \subseteq Doms
    BY DEF TInv, TypeOK
  <2> USE DEF Alone, Serves, bookVars, cameraVars, driverVars
  <2>1. ASSUME NEW d \in Doms, StreamStartOn(d) PROVE Alone'
    BY <2>t, <2>1 DEF StreamStartOn, StreamOn
  <2>2. ASSUME NEW d \in Doms, StreamStop(d) PROVE Alone'
    BY <2>t, <2>2 DEF StreamStop
  <2>3. ASSUME NEW d \in Doms, StopPoll(d) \/ StopJoin(d) PROVE Alone'
    BY <2>t, <2>3 DEF StopPoll, StopJoin
  <2>4. ASSUME NEW d \in Doms, StopOff(d) PROVE Alone'
    BY <2>t, <2>4 DEF StopOff, StreamOff
  <2>5. ASSUME NEW d \in Doms, CloseLast(d) \/ Close(d) \/ Connect(d) PROVE Alone'
    BY <2>t, <2>5 DEF CloseLast, Close, Connect, Connected
  <2>6. ASSUME NEW d \in Doms, StreamStartJoin(d) \/ StreamStartFirst(d) PROVE Alone'
    BY <2>t, <2>6 DEF StreamStartJoin, StreamStartFirst
  <2>7. ASSUME NEW d \in Doms, BufRequest(d) \/ BufRelease(d) PROVE Alone'
    BY <2>t, <2>7 DEF BufRequest, BufRelease
  <2>8. ASSUME NEW d \in Doms, Destroy(d) PROVE Alone'
    BY <2>8 DEF Destroy
  <2>9. CASE UNCHANGED <<streaming, mStreamingNow, conn, pc>>
    BY <2>9
  <2> QED
    BY <2>1, <2>2, <2>3, <2>4, <2>5, <2>6, <2>7, <2>8, <2>9
    DEF Next, Request, Continue, Event, Ended, vars, BufRequestFails, EvtLoop, EvtPollStopped,
        EvtPollReady, EvtDequeue, EvtRequeue, EvtThrow, handlerVars, FrameBegin, FrameDeliver,
        FrameEnd, DriverCapture, Capture
<1>3. TInv /\ Alone => HardwareFollowsBook
  BY DEF TInv, TypeOK, Lifecycle, Alone, HardwareFollowsBook, Quiescent
<1> QED
  BY <1>1, <1>2, <1>3, TInvHolds, PTL DEF Spec

\* Nor does a single frontend ever make streamStart() assign a std::thread that is
\* still joinable (Camera.cpp:318), however it starts, stops and disconnects.
THEOREM OneFrontendNeverTerminates ==
    ASSUME \A d, e \in Doms : d = e
    PROVE  Spec => [](backend # "terminated")
<1> DEFINE Alive == backend # "terminated"
<1>1. Init => Alive
  BY DEF Init, CameraInit
<1>2. TInv /\ Alive /\ [Next]_vars => Alive'
  <2> SUFFICES ASSUME TInv, Alive, [Next]_vars PROVE Alive'
    OBVIOUS
  <2>1. ASSUME NEW d \in Doms, StreamStartFirst(d) PROVE Alive'
    <3>1. Up /\ ~Closing /\ Turning = {} /\ mStreamingNow = {}
      BY <2>1 DEF StreamStartFirst, Serves, Up, Closing, Turning
    <3>2. mThread = "none"
      BY <3>1 DEF TInv, Turns
    <3> QED
      BY <2>1, <3>2 DEF StreamStartFirst, CreateThread
  <2> QED
    BY <2>1
    DEF Next, Request, Continue, Event, Ended, vars, cameraVars, Connect, Close, CloseLast,
        BufRequest, BufRequestFails, BufRelease, StreamStartJoin, StreamStop, StreamStartOn,
        StopPoll, StopJoin, StopOff, Destroy, EvtLoop, EvtPollStopped, EvtPollReady, EvtDequeue,
        EvtRequeue, EvtThrow, FrameBegin, FrameDeliver, FrameEnd, DriverCapture, Capture
<1> QED
  BY <1>1, <1>2, TInvHolds, PTL DEF Spec

-----------------------------------------------------------------------------
(* The buffer a frame comes from                                            *)

\* With streamAlloc() all or nothing, mBuffers holds the driver's buffers in their
\* order, and nothing at all while nobody has buffers.
Maps ==
    /\ mBuffersAllocated = {} => mBuffers = <<>>
    /\ \A j \in DOMAIN mBuffers : mBuffers[j] = j - 1

LEMMA MapsHolds ==
    ASSUME "alloc" \notin Faults
    PROVE  Spec => []Maps
<1>1. Init => Maps
  BY DEF Init, CameraInit, Maps
<1>2. TypeOK /\ Maps /\ [Next]_vars => Maps'
  <2> SUFFICES ASSUME TypeOK, Maps, [Next]_vars PROVE Maps'
    OBVIOUS
  <2>t. mBuffersAllocated \subseteq Doms
    BY DEF TypeOK
  <2> USE DEF Maps, bookVars, cameraVars
  <2>1. ASSUME NEW d \in Doms, BufRequest(d) PROVE Maps'
    <3>1. CASE mBuffersAllocated # {}
      BY <2>1, <3>1 DEF BufRequest
    <3>2. CASE mBuffersAllocated = {}
      <4>1. PICK m \in BufCounts : StreamAlloc(m)
        BY <2>1, <3>2 DEF BufRequest
      <4>2. m \in Nat
        BY CameraAssumption
      <4>3. mBuffers = <<>>
        BY <3>2
      <4> DEFINE none == [j \in 1..0 |-> Stale]
                 new == [j \in 1..m |-> j - 1]
      <4>4. none = <<>>
        OBVIOUS
      <4>5. new \in Seq(Int) /\ <<>> \o new = new
        BY <4>2
      <4>6. mBuffers' = new
        BY <4>1, <4>3, <4>4, <4>5 DEF StreamAlloc, Mapped
      <4>7. mBuffersAllocated' # {}
        BY <2>1 DEF BufRequest
      <4> QED
        BY <4>2, <4>6, <4>7
    <3> QED
      BY <3>1, <3>2
  <2>2. ASSUME NEW d \in Doms, BufRequestFails(d) PROVE Maps'
    BY <2>2 DEF BufRequestFails, RequestRefused, StreamAllocFails
  <2>3. ASSUME NEW d \in Doms, BufRelease(d) PROVE Maps'
    BY <2>3 DEF BufRelease, StreamRelease
  <2>4. ASSUME NEW d \in Doms, Destroy(d) PROVE Maps'
    BY <2>4 DEF Destroy, StreamRelease
  <2>5. CASE UNCHANGED <<mBuffers, mBuffersAllocated>>
    BY <2>5
  <2> QED
    BY <2>1, <2>2, <2>3, <2>4, <2>5
    DEF Next, Request, Continue, Event, Ended, vars, Connect, Close, CloseLast,
        StreamStartJoin, StreamStartFirst, CreateThread, StreamStop, StreamStartOn, StopPoll,
        StopJoin, StopOff, EvtLoop, EvtPollStopped, EvtPollReady, EvtDequeue, EvtRequeue,
        EvtThrow, handlerVars, FrameBegin, FrameDeliver, FrameEnd, DriverCapture, Capture
<1> QED
  BY <1>1, <1>2, TypeCorrect, PTL DEF Spec

\* bufferGetData() returns the memory of the buffer DQBUF returned
\* (Camera.cpp:286-289), as long as streamAlloc() does not fail half-way.
THEOREM DataIsTheBuffers ==
    ASSUME Returning = {}, "alloc" \notin Faults
    PROVE  Spec => []DataIsThatBuffer
<1>1. IInv /\ DataInRange /\ Maps => DataIsThatBuffer
  <2> SUFFICES ASSUME IInv, DataInRange, Maps, evtPc \in HoldingPcs
               PROVE  mBuffers[evtBuf + 1] = evtBuf
    BY DEF DataIsThatBuffer
  <2>1. evtBuf \in Nat /\ mBuffers \in Seq(Int) /\ evtBuf < Len(mBuffers)
    BY DEF IInv, TypeOK, CameraTypeOK, DataInRange
  <2> QED
    BY <2>1 DEF Maps
<1> QED
  BY <1>1, MapsHolds, IInvHolds, DataStaysInRange, PTL

\* Where bufRequest() concludes from its book that the camera has no buffers
\* (CameraHandler.cpp:398-399), the camera keeps no mapping: of the calls that may fail
\* only those of streamAlloc() make that conclusion wrong.
THEOREM NoneLeftMeansNone ==
    ASSUME "alloc" \notin Faults
    PROVE  Spec => []NoneMeansNone
<1>1. Maps => NoneMeansNone
  BY DEF Maps, NoneMeansNone
<1> QED
  BY <1>1, MapsHolds, PTL

-----------------------------------------------------------------------------
(* What a step may never do                                                 *)

\* A device that keeps streaming loses no buffer (Camera.cpp:257-305): each is with the
\* driver or with the event thread, whatever fails.
THEOREM BuffersAreConserved ==
    ASSUME Returning = {}
    PROVE  Spec => BuffersConserved
<1>1. IInv /\ [Next]_vars =>
          [streaming /\ streaming' /\ mThread = "running" =>
             Circulating \cup Held \subseteq Circulating' \cup Held']_vars
  <2> SUFFICES ASSUME IInv, [Next]_vars, streaming, streaming', mThread = "running"
               PROVE  Circulating \cup Held \subseteq Circulating' \cup Held'
    OBVIOUS
  <2>h. PICK n \in BufCounts \cup {0} : hwBuf \in [0..(n - 1) -> BufStates]
    BY DEF IInv, TypeOK, CameraTypeOK, BufStates
  <2>f. evtPc \in HoldingPcs => evtBuf \in DOMAIN hwBuf
    BY DEF IInv, Frame
  <2> USE DEF Circulating, Held, HoldingPcs, cameraVars, threadVars, driverVars, bookVars
  <2>1. ASSUME NEW d \in Doms, BufRequest(d) \/ BufRequestFails(d)
        PROVE  Circulating \cup Held \subseteq Circulating' \cup Held'
    BY <2>1 DEF BufRequest, BufRequestFails, StreamAlloc, StreamAllocFails, RequestRefused
  <2>2. ASSUME NEW d \in Doms, StreamStartOn(d) \/ StopOff(d)
        PROVE  Circulating \cup Held \subseteq Circulating' \cup Held'
    BY <2>2 DEF StreamStartOn, StreamOn, StopOff, StreamOff
  <2>3. ASSUME NEW d \in Doms, Destroy(d)
        PROVE  Circulating \cup Held \subseteq Circulating' \cup Held'
    BY <2>3 DEF Destroy
  <2>4. CASE EvtDequeue
    BY <2>4, <2>h DEF EvtDequeue, EvtAt, Done
  <2>5. CASE EvtRequeue
    BY <2>5, <2>h, <2>f DEF EvtRequeue, EvtAt
  <2>6. CASE Capture
    BY <2>6, <2>h DEF Capture
  <2>7. CASE EvtPollStopped \/ EvtPollReady \/ EvtThrow
    BY <2>7 DEF EvtPollStopped, EvtPollReady, EvtThrow, EvtAt
  <2>8. CASE FrameBegin \/ FrameEnd
    BY <2>8 DEF FrameBegin, FrameEnd, EvtAt
  <2>9. CASE UNCHANGED <<hwBuf, evtPc, evtBuf>>
    BY <2>9
  <2> QED
    BY <2>1, <2>2, <2>3, <2>4, <2>5, <2>6, <2>7, <2>8, <2>9
    DEF Next, Request, Continue, Event, Ended, vars, Connect, Close, CloseLast, BufRelease,
        StreamStartJoin, StreamStartFirst, CreateThread, StreamStop, StopPoll, StopJoin, Join,
        EvtLoop, FrameDeliver, DriverCapture
<1> QED
  BY <1>1, IInvHolds, PTL DEF Spec, BuffersConserved

\* What poll() announced is there to be fetched, unless a STREAMOFF took it back: then
\* the queue is empty.
Ready ==
    evtPc = "dequeue" =>
        mThread = "running" /\ (Done # {} \/ Circulating = {})

\* Without I/O errors the process ends only in the named windows (Camera.cpp:257-270,
\* 297-342): no other order of requests of any number of frontends ends it.
THEOREM EndsInWindows ==
    ASSUME Returning = {}, "io" \notin Faults
    PROVE  Spec => EndsOnlyInWindows
<1>1. Init => Ready
  BY DEF Init, CameraInit, Ready
<1>2. IInv /\ Ready /\ [Next]_vars => Ready'
  <2> SUFFICES ASSUME IInv, Ready, [Next]_vars PROVE Ready'
    OBVIOUS
  <2>h. PICK n \in BufCounts \cup {0} : hwBuf \in [0..(n - 1) -> BufStates]
    BY DEF IInv, TypeOK, CameraTypeOK, BufStates
  <2>t. IInv => Thread
    BY DEF IInv
  <2> USE DEF Ready, Circulating, Done, cameraVars, threadVars, driverVars, bookVars
  <2>1. ASSUME NEW d \in Doms, BufRequest(d) PROVE Ready'
    BY <2>1, <2>t DEF BufRequest, Thread
  <2>2. ASSUME NEW d \in Doms, BufRequestFails(d) PROVE Ready'
    BY <2>2, <2>t DEF BufRequestFails, Thread
  <2>3. ASSUME NEW d \in Doms, StreamStartOn(d) PROVE Ready'
    BY <2>3 DEF StreamStartOn, StreamOn
  <2>4. ASSUME NEW d \in Doms, StopOff(d) PROVE Ready'
    BY <2>4 DEF StopOff, StreamOff
  <2>5. ASSUME NEW d \in Doms, Destroy(d) PROVE Ready'
    BY <2>5, <2>t DEF Destroy, Thread, IInv, Lifecycle
  <2>6. ASSUME NEW d \in Doms, StopJoin(d) PROVE Ready'
    BY <2>6 DEF StopJoin, Join
  <2>7. ASSUME NEW d \in Doms, StreamStartFirst(d) PROVE Ready'
    BY <2>7 DEF StreamStartFirst, CreateThread
  <2>8. CASE EvtPollStopped \/ EvtPollReady \/ EvtDequeue \/ EvtRequeue
    BY <2>8 DEF EvtPollStopped, EvtPollReady, EvtDequeue, EvtRequeue, EvtAt
  <2>9. CASE FrameBegin \/ FrameEnd
    BY <2>9 DEF FrameBegin, FrameEnd
  <2>10. CASE Capture
    BY <2>10, <2>h DEF Capture
  <2>11. CASE UNCHANGED <<mThread, evtPc, hwBuf, streaming>>
    BY <2>11
  <2> QED
    BY <2>1, <2>2, <2>3, <2>4, <2>5, <2>6, <2>7, <2>8, <2>9, <2>10, <2>11
    DEF Next, Request, Continue, Event, Ended, vars, Connect, Close, CloseLast, BufRelease,
        StreamStartJoin, StreamStop, StopPoll, EvtLoop, EvtThrow, FrameDeliver, DriverCapture
<1>3. IInv /\ TInv /\ Ready /\ [Next]_vars =>
          [backend' # backend =>
             \/ backend' = "terminated" /\ Stopping
             \/ backend' = "sigterm" /\ (~streaming \/ Circulating = {})]_vars
  <2> SUFFICES ASSUME IInv, TInv, Ready, [Next]_vars, backend' # backend
               PROVE  \/ backend' = "terminated" /\ Stopping
                      \/ backend' = "sigterm" /\ (~streaming \/ Circulating = {})
    OBVIOUS
  <2>1. ASSUME NEW d \in Doms, StreamStartFirst(d)
        PROVE  backend' = "terminated" /\ Stopping
    <3>1. backend' = "terminated" /\ mThread # "none" /\ mStreamingNow = {}
      BY <2>1 DEF StreamStartFirst, CreateThread
    <3>2. Up /\ ~Closing
      BY <2>1 DEF StreamStartFirst, Serves, Up, TInv, Lifecycle, Closing, Connected
    <3>3. PICK e \in Turning : TRUE
      BY <3>1, <3>2 DEF TInv, Turns
    <3>4. pc[e] # "on"
      BY <2>1, <3>3 DEF StreamStartFirst, Serves, TInv, Listeners, Turning
    <3> QED
      BY <3>1, <3>3, <3>4 DEF Turning, Stopping
  <2>2. CASE EvtThrow
    BY <2>2 DEF EvtThrow, EvtAt, CanThrow, Ready
  <2> QED
    BY <2>1, <2>2
    DEF Next, Request, Continue, Event, Ended, vars, cameraVars, Connect, Close, CloseLast,
        BufRequest, BufRequestFails, BufRelease, StreamStartJoin, StreamStop, StreamStartOn,
        StopPoll, StopJoin, StopOff, Destroy, EvtLoop, EvtPollStopped, EvtPollReady,
        EvtDequeue, EvtRequeue, FrameBegin, FrameDeliver, FrameEnd, DriverCapture, Capture
<1> QED
  BY <1>1, <1>2, <1>3, IInvHolds, TInvHolds, PTL DEF Spec, EndsOnlyInWindows
-----------------------------------------------------------------------------
(* The handler implements the frame relay                                   *)

\* The map of listeners holds exactly the connected frontends.
Registered == mListeners = Listening

LEMMA RegisteredHolds == Spec => []Registered
<1>1. Init => Registered
  BY DEF Init, Registered, Listening, Connected
<1>2. TInv /\ Registered /\ [Next]_vars => Registered'
  <2> SUFFICES ASSUME TInv, Registered, [Next]_vars PROVE Registered'
    OBVIOUS
  <2>t. conn \in [Doms -> ConnStates] /\ pc \in [Doms -> Pcs] /\ mListeners \subseteq Doms
    BY DEF TInv, TypeOK
  <2>l. /\ \A d \in Doms : pc[d] = "on" => conn[d] = "ready"
        /\ \A d \in Doms : pc[d] = "release" => conn[d] = "closing"
        /\ \A d, e \in Doms : conn[d] = "closing" => conn[e] \notin Connected
    BY DEF TInv, Lifecycle
  <2> USE DEF Registered, Listening, Connected, ConnStates, Serves, bookVars
  <2>1. ASSUME NEW d \in Doms, Connect(d) PROVE Registered'
    BY <2>t, <2>1 DEF Connect
  <2>2. ASSUME NEW d \in Doms, Close(d) PROVE Registered'
    BY <2>t, <2>2 DEF Close
  <2>3. ASSUME NEW d \in Doms, CloseLast(d) PROVE Registered'
    BY <2>t, <2>3 DEF CloseLast
  <2>4. ASSUME NEW d \in Doms, BufRequest(d) \/ BufRelease(d) PROVE Registered'
    BY <2>t, <2>4 DEF BufRequest, BufRelease
  <2>5. ASSUME NEW d \in Doms, StreamStartJoin(d) \/ StreamStop(d) PROVE Registered'
    BY <2>t, <2>5 DEF StreamStartJoin, StreamStop
  <2>6. ASSUME NEW d \in Doms, StreamStartOn(d) PROVE Registered'
    BY <2>t, <2>l, <2>6 DEF StreamStartOn
  <2>7. ASSUME NEW d \in Doms, Destroy(d) PROVE Registered'
    BY <2>t, <2>l, <2>7 DEF Destroy
  <2>8. CASE UNCHANGED <<mListeners, conn>>
    BY <2>8
  <2> QED
    BY <2>1, <2>2, <2>3, <2>4, <2>5, <2>6, <2>7, <2>8
    DEF Next, Request, Continue, Event, Ended, vars, BufRequestFails, StreamStartFirst,
        StopPoll, StopJoin, StopOff, EvtLoop, handlerVars, FrameBegin, FrameDeliver, FrameEnd,
        DriverCapture
<1> QED
  BY <1>1, <1>2, TInvHolds, PTL DEF Spec

\* What the mapping to FrameRelay is made of, where the variables under it stand still.
LEMMA SameRelay ==
    /\ conn' = conn => Listening' = Listening
    /\ UNCHANGED evtPc => Phase' = Phase
    /\ UNCHANGED <<evtPc, evtBuf>> => Held' = Held
    /\ UNCHANGED hwBuf => Circulating' = Circulating
BY DEF Listening, Phase, Held, Circulating

\* While the event thread does not run, no frame is in hand.
LEMMA NoFrameInHand ==
    ASSUME TypeOK, Frame, mThread # "running"
    PROVE  Phase = "none"
BY DEF TypeOK, CameraTypeOK, Frame, HoldingPcs, EvtPcs, Phase

\* Every step of the handler is a step of the relay, or none.
LEMMA RelayStep ==
    ASSUME IInv, TInv, Registered, [Next]_vars
    PROVE  [Relay!Next]_(Relay!relayVars)
<1> DEFINE Bufs == UNION {0..(n - 1) : n \in BufCounts}
           Step == [Relay!Next]_(Relay!relayVars)
<1>t. conn \in [Doms -> ConnStates] /\ pc \in [Doms -> Pcs] /\ todo \subseteq Doms
  BY DEF TInv, TypeOK
<1>h. PICK n \in BufCounts \cup {0} : hwBuf \in [0..(n - 1) -> BufStates]
  BY DEF TInv, TypeOK, CameraTypeOK, BufStates
<1>b. BufCounts \subseteq Nat \ {0}
  BY CameraAssumption
<1>s. ASSUME UNCHANGED <<conn, todo, evtPc, evtBuf, hwBuf>> PROVE Step
  BY <1>s, SameRelay DEF Relay!relayVars
<1>1. ASSUME NEW d \in Doms, Connect(d) PROVE Step
  <2>1. Listening' = Listening \cup {d} /\ d \notin Listening
    BY <1>1, <1>t DEF Connect, Listening, Connected
  <2>2. Relay!Arrive(d)
    BY <1>1, <2>1, SameRelay DEF Connect, cameraVars, Relay!Arrive
  <2> QED
    BY <2>2 DEF Relay!Next
<1>2. ASSUME NEW d \in Doms, Close(d) \/ CloseLast(d) PROVE Step
  <2>1. Listening' = Listening \ {d} /\ d \in Listening
    BY <1>2, <1>t DEF Close, CloseLast, Serves, Listening, Connected
  <2>2. todo = {}
    BY <1>2 DEF Close, CloseLast, Serves, TInv, Listeners
  <2>3. Relay!Leave(d)
    BY <1>2, <2>1, <2>2, SameRelay DEF Close, CloseLast, cameraVars, Relay!Leave
  <2> QED
    BY <2>3 DEF Relay!Next
<1>3. ASSUME NEW d \in Doms, BufRequest(d) PROVE Step
  <2>1. Listening' = Listening
    BY <1>3, <1>t DEF BufRequest, Serves, Listening, Connected
  <2>2. CASE mBuffersAllocated # {}
    BY <1>3, <2>1, <2>2, SameRelay DEF BufRequest, threadVars, Relay!relayVars
  <2>3. CASE mBuffersAllocated = {}
    <3>1. Phase = "none"
      BY <2>3, NoFrameInHand DEF IInv, Thread
    <3>2. PICK m \in BufCounts : StreamAlloc(m)
      BY <1>3, <2>3 DEF BufRequest
    <3>3. Circulating' \subseteq 0..(m - 1)
      BY <3>2 DEF StreamAlloc, Circulating
    <3>4. Relay!Renew
      BY <1>3, <2>1, <3>1, <3>3, SameRelay DEF BufRequest, threadVars, Relay!Renew
    <3> QED
      BY <3>4 DEF Relay!Next
  <2> QED
    BY <2>2, <2>3
<1>4. ASSUME NEW d \in Doms, BufRequestFails(d) PROVE Step
  <2>1. CASE RequestRefused
    BY <1>4, <2>1, <1>s DEF BufRequestFails, RequestRefused, threadVars
  <2>2. ASSUME NEW m \in BufCounts, NEW k \in 0..(m - 1), StreamAllocFails(m, k) PROVE Step
    <3>1. Phase = "none"
      BY <1>4, NoFrameInHand DEF BufRequestFails, IInv, Thread
    <3>2. Circulating' \subseteq 0..(m - 1)
      BY <2>2 DEF StreamAllocFails, Circulating
    <3>3. Relay!Renew
      BY <1>4, <3>1, <3>2, SameRelay DEF BufRequestFails, threadVars, Relay!Renew
    <3> QED
      BY <3>3 DEF Relay!Next
  <2> QED
    BY <1>4, <2>1, <2>2 DEF BufRequestFails
<1>5. ASSUME NEW d \in Doms, BufRelease(d) \/ StreamStartJoin(d) \/ StreamStop(d) PROVE Step
  <2>1. Listening' = Listening
    BY <1>5, <1>t DEF BufRelease, StreamStartJoin, StreamStop, Serves, Listening, Connected
  <2> QED
    BY <1>5, <2>1, SameRelay
    DEF BufRelease, StreamStartJoin, StreamStop, threadVars, driverVars, cameraVars, Relay!relayVars
<1>6. ASSUME NEW d \in Doms, StreamStartOn(d) PROVE Step
  <2>1. conn[d] = "ready"
    BY <1>6 DEF StreamStartOn, TInv, Lifecycle
  <2>2. Listening' = Listening
    BY <1>6, <1>t, <2>1 DEF StreamStartOn, Listening, Connected
  <2> QED
    BY <1>6, <2>2, SameRelay DEF StreamStartOn, StreamOn, threadVars, Relay!relayVars
<1>7. ASSUME NEW d \in Doms, StreamStartFirst(d) \/ StopPoll(d) \/ StopJoin(d) PROVE Step
  BY <1>7, <1>s
  DEF StreamStartFirst, CreateThread, StopPoll, StopJoin, Join, threadVars, driverVars
<1>8. ASSUME NEW d \in Doms, StopOff(d) PROVE Step
  <2>1. CASE UNCHANGED driverVars
    BY <1>8, <2>1, <1>s DEF StopOff, threadVars, driverVars
  <2>2. CASE hwBuf' = [i \in DOMAIN hwBuf |-> "dequeued"]
    <3>1. Relay!Withdraw
      BY <1>8, <2>2, SameRelay DEF StopOff, threadVars, Circulating, Relay!Withdraw
    <3> QED
      BY <3>1 DEF Relay!Next
  <2> QED
    BY <1>8, <2>1, <2>2 DEF StopOff, StreamOff
<1>9. ASSUME NEW d \in Doms, Destroy(d) PROVE Step
  <2>1. Listening' = {} /\ Listening = {}
    BY <1>9, <1>t DEF Destroy, Listening, Connected, TInv, Lifecycle
  <2>2. Circulating' = {}
    BY <1>9 DEF Destroy, Circulating
  <2>3. Relay!Withdraw
    BY <1>9, <2>1, <2>2, SameRelay DEF Destroy, Relay!Withdraw
  <2> QED
    BY <2>3 DEF Relay!Next
<1>10. CASE EvtLoop
  <2> USE DEF handlerVars, EvtAt, driverVars, threadVars
  <2>1. CASE EvtPollStopped \/ EvtThrow
    BY <1>10, <2>1, <1>s DEF EvtLoop, EvtPollStopped, EvtThrow
  <2>2. CASE EvtPollReady
    <3>1. Phase' = Phase /\ Held' = Held
      BY <2>2 DEF EvtPollReady, Phase, Held, HoldingPcs
    <3> QED
      BY <1>10, <2>2, <3>1, SameRelay DEF EvtLoop, EvtPollReady, Relay!relayVars
  <2>3. CASE EvtDequeue
    <3>1. evtBuf' \in Done /\ hwBuf' = [hwBuf EXCEPT ![evtBuf'] = "dequeued"]
      BY <2>3 DEF EvtDequeue
    <3>2. evtBuf' \in Bufs
      BY <1>h, <1>b, <3>1 DEF Done
    <3>3. evtBuf' \in Circulating /\ Circulating' = Circulating \ {evtBuf'}
      BY <1>h, <3>1 DEF Done, Circulating
    <3>4. Phase = "none" /\ Phase' = "taken" /\ Held' = {evtBuf'}
      BY <2>3 DEF EvtDequeue, Phase, Held, HoldingPcs
    <3>5. Relay!Take(evtBuf')
      BY <1>10, <3>3, <3>4, SameRelay DEF EvtLoop, Relay!Take
    <3> QED
      BY <3>2, <3>5 DEF Relay!Next
  <2>4. CASE EvtRequeue
    <3>1. evtBuf \in DOMAIN hwBuf
      BY <2>4 DEF EvtRequeue, IInv, Frame, HoldingPcs
    <3>2. Circulating' = Circulating \cup {evtBuf}
      BY <1>h, <2>4, <3>1 DEF EvtRequeue, Circulating
    <3>3. Phase = "given" /\ Phase' = "none" /\ Held = {evtBuf} /\ Held' = {}
      BY <2>4 DEF EvtRequeue, Phase, Held, HoldingPcs
    <3>4. Relay!Return
      BY <1>10, <3>2, <3>3, SameRelay DEF EvtLoop, Relay!Return
    <3> QED
      BY <3>4 DEF Relay!Next
  <2> QED
    BY <1>10, <2>1, <2>2, <2>3, <2>4 DEF EvtLoop
<1>11. CASE FrameBegin
  <2>1. Phase = "taken" /\ Phase' = "giving" /\ Held' = Held
    BY <1>11 DEF FrameBegin, EvtAt, Phase, Held, HoldingPcs
  <2>2. todo' = Listening
    BY <1>11 DEF FrameBegin, Registered
  <2>3. Relay!Begin
    BY <1>11, <2>1, <2>2, SameRelay DEF FrameBegin, driverVars, Relay!Begin
  <2> QED
    BY <2>3 DEF Relay!Next
<1>12. ASSUME NEW d \in Doms, FrameDeliver(d) PROVE Step
  <2>1. Phase = "giving"
    BY <1>12 DEF FrameDeliver, EvtAt, Phase
  <2>2. Relay!Give(d)
    BY <1>12, <2>1, SameRelay DEF FrameDeliver, cameraVars, Relay!Give
  <2> QED
    BY <2>2 DEF Relay!Next
<1>13. CASE FrameEnd
  <2>1. Phase = "giving" /\ Phase' = "given" /\ Held' = Held
    BY <1>13 DEF FrameEnd, EvtAt, Phase, Held, HoldingPcs
  <2>2. Relay!End
    BY <1>13, <2>1, SameRelay DEF FrameEnd, driverVars, Relay!End
  <2> QED
    BY <2>2 DEF Relay!Next
<1>14. CASE DriverCapture
  <2>1. Circulating' = Circulating
    BY <1>14, <1>h DEF DriverCapture, Capture, Circulating
  <2> QED
    BY <1>14, <2>1, SameRelay DEF DriverCapture, Capture, threadVars, handlerVars, Relay!relayVars
<1>15. CASE UNCHANGED vars
  BY <1>15, <1>s DEF vars, cameraVars
<1>16. ASSUME NEW d \in Doms, Request(d) \/ Continue(d) PROVE Step
  BY <1>1, <1>2, <1>3, <1>4, <1>5, <1>6, <1>7, <1>8, <1>9, <1>16 DEF Request, Continue
<1>17. CASE Event
  BY <1>10, <1>11, <1>12, <1>13, <1>17 DEF Event
<1> QED
  BY <1>14, <1>15, <1>16, <1>17 DEF Next, Ended

\* For every number of frontends and buffers and whatever calls fail, the handler is a
\* frame relay: each frame reaches once every frontend that is connected when mLock is
\* taken for it, a frontend disappears only when no call to it is pending, and only then
\* does the buffer go back to the driver (CameraHandler.cpp:112-128, 346-377).
THEOREM ImplementsRelay ==
    ASSUME Returning = {}
    PROVE  Spec => RelaysFrames
<1>1. Init => Relay!Init
  BY DEF Init, CameraInit, Relay!Init, Listening, Connected, Phase, Held, HoldingPcs, Circulating
<1>2. IInv /\ TInv /\ Registered /\ [Next]_vars => [Relay!Next]_(Relay!relayVars)
  BY RelayStep
<1> QED
  BY <1>1, <1>2, IInvHolds, TInvHolds, RegisteredHolds, PTL DEF Spec, RelaysFrames, Relay!Spec

-----------------------------------------------------------------------------
(* The handler keeps the port of every listener                             *)

LEMMA PortStep ==
    ASSUME TInv, Registered, [Next]_vars, NEW d \in Doms
    PROVE  [Port(d)!Next]_(Port(d)!portVars)
<1> DEFINE Step == [Port(d)!Next]_(Port(d)!portVars)
<1>t. conn \in [Doms -> ConnStates] /\ pc \in [Doms -> Pcs] /\ todo \subseteq Doms
  BY DEF TInv, TypeOK
<1>s. ASSUME UNCHANGED <<Listening, todo>> PROVE Step
  BY <1>s DEF Port!portVars
<1>1. ASSUME NEW e \in Doms, Connect(e) PROVE Step
  <2>1. Listening' = Listening \cup {e} /\ e \notin Listening /\ todo' = todo
    BY <1>1, <1>t DEF Connect, Listening, Connected
  <2> QED
    BY <2>1 DEF Port!Next, Port!Arrive, Port!portVars
<1>2. ASSUME NEW e \in Doms, Close(e) \/ CloseLast(e) PROVE Step
  <2>1. Listening' = Listening \ {e} /\ e \in Listening
    BY <1>2, <1>t DEF Close, CloseLast, Serves, Listening, Connected
  <2>2. todo = {} /\ todo' = todo
    BY <1>2 DEF Close, CloseLast, Serves, TInv, Listeners
  <2> QED
    BY <2>1, <2>2 DEF Port!Next, Port!Leave, Port!portVars
<1>3. CASE FrameBegin
  <2>1. todo' = Listening /\ Listening' = Listening /\ todo = {}
    BY <1>3, SameRelay DEF FrameBegin, bookVars, Registered, TInv, Listeners
  <2> QED
    BY <2>1 DEF Port!Next, Port!Call, Port!portVars
<1>4. ASSUME NEW e \in Doms, FrameDeliver(e) PROVE Step
  <2>1. todo' = todo \ {e} /\ Listening' = Listening
    BY <1>4, SameRelay DEF FrameDeliver
  <2> QED
    BY <2>1 DEF Port!Next, Port!Return, Port!portVars
<1>5. ASSUME NEW e \in Doms,
             BufRequest(e) \/ BufRelease(e) \/ StreamStartJoin(e) \/ StreamStop(e)
      PROVE  Step
  <2>1. Listening' = Listening /\ todo' = todo
    BY <1>5, <1>t
    DEF BufRequest, BufRelease, StreamStartJoin, StreamStop, Serves, Listening, Connected
  <2> QED
    BY <2>1, <1>s
<1>6. ASSUME NEW e \in Doms, StreamStartOn(e) PROVE Step
  <2>1. conn[e] = "ready"
    BY <1>6 DEF StreamStartOn, TInv, Lifecycle
  <2>2. Listening' = Listening /\ todo' = todo
    BY <1>6, <1>t, <2>1 DEF StreamStartOn, Listening, Connected
  <2> QED
    BY <2>2, <1>s
<1>7. ASSUME NEW e \in Doms, Destroy(e) PROVE Step
  <2>1. Listening' = {} /\ Listening = {} /\ todo' = todo
    BY <1>7, <1>t DEF Destroy, Listening, Connected, TInv, Lifecycle
  <2> QED
    BY <2>1, <1>s
<1>8. CASE UNCHANGED <<conn, todo>>
  BY <1>8, <1>s, SameRelay
<1> QED
  BY <1>1, <1>2, <1>3, <1>4, <1>5, <1>6, <1>7, <1>8
  DEF Next, Request, Continue, Event, Ended, vars, BufRequestFails, StreamStartFirst, StopPoll,
      StopJoin, StopOff, EvtLoop, handlerVars, FrameEnd, DriverCapture

\* Whatever fails, and even if frontends return, each listener is called only while it is
\* registered, and gone only when it is not being called: what CommandHandler relies on
\* (CameraHandler.cpp:109-121, 366-381).
THEOREM KeepsAllPorts == Spec => KeepsPorts
<1> DEFINE Ports == [\A d \in Doms : [Port(d)!Next]_(Port(d)!portVars)]_<<Listening, todo>>
<1>1. Init => \A d \in Doms : Port(d)!Init
  BY DEF Init, Listening, Connected, Port!Init
<1>2. TInv /\ Registered /\ [Next]_vars => Ports
  BY PortStep
<1> QED
  BY <1>1, <1>2, TInvHolds, RegisteredHolds, PTL DEF Spec, KeepsPorts
=============================================================================

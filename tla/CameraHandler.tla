---------------------------- MODULE CameraHandler ----------------------------
(***************************************************************************)
(* One CameraHandler (src/CameraHandler.cpp) with the Camera it drives:     *)
(* which frontends listen, hold buffers and stream, and how the requests of *)
(* several frontends become calls on one device.                            *)
(*                                                                         *)
(* Threads.  Each frontend domain d has a thread that serves its control    *)
(* ring, one request at a time, and that also creates and destroys its      *)
(* CommandHandler; pc[d] says where that thread is.  The camera's event     *)
(* thread calls onFrameDoneCallback().  All meet at mLock.  A method that   *)
(* keeps mLock throughout and makes no call another thread or the driver    *)
(* can observe half-way is one action; streamStart() and streamStop() are   *)
(* cut where they can.                                                      *)
(*                                                                         *)
(* Frontends (external) follow the protocol of a V4L2 driver: a domain      *)
(* streams only with buffers requested, starts and stops alternately, and   *)
(* gives its last buffer back only when it does not stream.  They may close *)
(* at any moment between two requests, streaming or not.                    *)
(*                                                                         *)
(* A handler without hardware (mCamera is null) leaves every variable of    *)
(* this module alone, so it is not a separate case here.                    *)
(***************************************************************************)
EXTENDS Camera

CONSTANTS
    Doms,        \* the frontend domains
    Returning    \* those that come back to this handler after closing mid-stream

ASSUME DomsAssumption == Returning \subseteq Doms

VARIABLES
    mLock,              \* "free", "control" (a control thread), "event"
    mListeners,         \* keys of the map of listeners
    todo,               \* listeners the current frame still has to reach
    mBuffersAllocated,  \* keys of the map; the values are never read
    mStreamingNow,      \* keys of the map; the values are always true
    conn,               \* each frontend's connection to this handler
    pc                  \* where each frontend's thread is

bookVars == <<mListeners, mBuffersAllocated, mStreamingNow>>
vars == <<cameraVars, mLock, mListeners, todo, mBuffersAllocated, mStreamingNow,
          conn, pc>>

\* "closed": no CommandHandler.  Connected, as the frontend sees itself: "open"
\* (no buffers), "ready" (buffers requested), "streaming".  "closing": its thread
\* dropped the last reference and runs ~CameraHandler.  "gone": closed while it
\* was streaming, and does not come back.
Connected == {"open", "ready", "streaming"}
ConnStates == Connected \cup {"closed", "closing", "gone"}

\* "on": streamStart() between the creation of the thread and STREAMON.
\* "stop", "join", "off": streamStop() about to call PollFd::stop(), to join,
\* to issue STREAMOFF.  "release": ~CameraHandler after streamStop().
Pcs == {"idle", "on", "stop", "join", "off", "release"}

TypeOK ==
    /\ CameraTypeOK
    /\ mLock \in {"free", "control", "event"}
    /\ mListeners \subseteq Doms
    /\ todo \subseteq Doms
    /\ mBuffersAllocated \subseteq Doms
    /\ mStreamingNow \subseteq Doms
    /\ conn \in [Doms -> ConnStates]
    /\ pc \in [Doms -> Pcs]

Init ==
    /\ CameraInit
    /\ mLock = "free"
    /\ mListeners = {}
    /\ todo = {}
    /\ mBuffersAllocated = {}
    /\ mStreamingNow = {}
    /\ conn = [d \in Doms |-> "closed"]
    /\ pc = [d \in Doms |-> "idle"]

-----------------------------------------------------------------------------
(* Frontends come and go                                                    *)

\* d's thread takes its next request while nobody holds mLock.
Serves(d, states) ==
    backend = "up" /\ conn[d] \in states /\ pc[d] = "idle" /\ mLock = "free"

\* Mutant: the map of listeners is keyed by something all frontends share.
ConnectSharedKey(d) ==
    /\ backend = "up"
    /\ conn[d] = "closed"
    /\ mLock = "free"
    /\ \A e \in Doms : conn[e] # "closing"
    /\ mListeners' = IF mListeners = {} THEN {d} ELSE mListeners
    /\ conn' = [conn EXCEPT ![d] = "open"]
    /\ UNCHANGED <<cameraVars, mLock, todo, mBuffersAllocated, mStreamingNow, pc>>

\* CommandHandler::init() registers the listeners.  The last clause leaves out
\* a new handler for a device whose old handler is still being destroyed.
Connect(d) ==
    /\ backend = "up"
    /\ conn[d] = "closed"
    /\ mLock = "free"
    /\ \A e \in Doms : conn[e] # "closing"
    /\ mListeners' = mListeners \cup {d}
    /\ conn' = [conn EXCEPT ![d] = "open"]
    /\ UNCHANGED <<cameraVars, mLock, todo, mBuffersAllocated, mStreamingNow, pc>>

\* Mutant: listenerReset() does not take mLock.
CloseUnlocked(d) ==
    /\ backend = "up" /\ conn[d] \in Connected /\ pc[d] = "idle"
    /\ \E e \in Doms \ {d} : conn[e] \in Connected
    /\ mListeners' = mListeners \ {d}
    /\ conn' = [conn EXCEPT ![d] =
                   IF @ = "streaming" /\ d \notin Returning THEN "gone" ELSE "closed"]
    /\ UNCHANGED <<cameraVars, mLock, todo, mBuffersAllocated, mStreamingNow, pc>>

\* ~CommandHandler while other frontends keep the handler alive: the listener
\* goes, the entries in mBuffersAllocated and mStreamingNow stay.
Close(d) ==
    /\ Serves(d, Connected)
    /\ \E e \in Doms \ {d} : conn[e] \in Connected
    /\ mListeners' = mListeners \ {d}
    /\ conn' = [conn EXCEPT ![d] =
                   IF @ = "streaming" /\ d \notin Returning THEN "gone" ELSE "closed"]
    /\ UNCHANGED <<cameraVars, mLock, todo, mBuffersAllocated, mStreamingNow, pc>>

\* ~CommandHandler of the last frontend: ~CameraHandler begins in this thread,
\* with release() and Camera::streamStop(), and without mLock.
CloseLast(d) ==
    /\ Serves(d, Connected)
    /\ \A e \in Doms \ {d} : conn[e] \notin Connected
    /\ mListeners' = mListeners \ {d}
    /\ conn' = [conn EXCEPT ![d] = "closing"]
    /\ pc' = [pc EXCEPT ![d] = "stop"]
    /\ UNCHANGED <<cameraVars, mLock, todo, mBuffersAllocated, mStreamingNow>>

\* The rest of ~CameraHandler: streamRelease(), then ~Camera, whose second
\* streamStop() meets no thread and whose release() closes the device.  What a
\* later getCameraHandler() finds is a new handler with a new Camera.
Destroy(d) ==
    /\ backend = "up"
    /\ pc[d] = "release"
    /\ mThread' = "none"
    /\ stopReq' = 0
    /\ streaming' = FALSE
    /\ hwBuf' = [i \in 0..-1 |-> "dequeued"]
    /\ StreamRelease
    /\ mBuffersAllocated' = {}
    /\ mStreamingNow' = {}
    /\ conn' = [e \in Doms |-> "closed"]
    /\ pc' = [pc EXCEPT ![d] = "idle"]
    /\ UNCHANGED <<backend, evtPc, evtBuf, mLock, mListeners, todo>>

-----------------------------------------------------------------------------
(* Buffers                                                                  *)

\* bufRequest() that succeeds.  The number granted to the frontend, at most
\* what the device has, goes into the answer and is never read back.
BufRequest(d) ==
    /\ Serves(d, {"open", "ready"})
    /\ \/ mBuffersAllocated # {} /\ UNCHANGED <<hwBuf, mBuffers>>
       \/ mBuffersAllocated = {} /\ \E n \in BufCounts : StreamAlloc(n)
    /\ mBuffersAllocated' = mBuffersAllocated \cup {d}
    /\ conn' = [conn EXCEPT ![d] = "ready"]
    /\ UNCHANGED <<backend, threadVars, stopReq, streaming, mLock, mListeners, todo,
                   mStreamingNow, pc>>

\* bufRequest() that ends in the exception of streamAlloc(): the frontend gets
\* an error and the books do not change.
BufRequestFails(d) ==
    /\ Serves(d, {"open", "ready"})
    /\ mBuffersAllocated = {}
    /\ \/ RequestRefused
       \/ \E n \in BufCounts : \E k \in 0..(n - 1) : StreamAllocFails(n, k)
    /\ UNCHANGED <<backend, threadVars, stopReq, streaming, mLock, bookVars, todo,
                   conn, pc>>

\* Mutant: the buffers are released as soon as anybody gives up.
BufReleaseAny(d) ==
    /\ Serves(d, {"ready"})
    /\ mBuffersAllocated' = mBuffersAllocated \ {d}
    /\ conn' = [conn EXCEPT ![d] = "open"]
    /\ StreamRelease
    /\ UNCHANGED <<backend, threadVars, stopReq, driverVars, mLock, mListeners, todo,
                   mStreamingNow, pc>>

\* bufRelease(), which d's CommandHandler calls for its last buffer.
BufRelease(d) ==
    /\ Serves(d, {"ready"})
    /\ mBuffersAllocated' = mBuffersAllocated \ {d}
    /\ conn' = [conn EXCEPT ![d] = "open"]
    /\ \/ mBuffersAllocated' = {} /\ StreamRelease
       \/ mBuffersAllocated' # {} /\ UNCHANGED mBuffers
    /\ UNCHANGED <<backend, threadVars, stopReq, driverVars, mLock, mListeners, todo,
                   mStreamingNow, pc>>

-----------------------------------------------------------------------------
(* Streaming                                                                *)

\* streamStart() when somebody streams already: only the books change.
StreamStartJoin(d) ==
    /\ Serves(d, {"ready"})
    /\ mStreamingNow # {}
    /\ mStreamingNow' = mStreamingNow \cup {d}
    /\ conn' = [conn EXCEPT ![d] = "streaming"]
    /\ UNCHANGED <<cameraVars, mLock, mListeners, todo, mBuffersAllocated, pc>>

\* Mutant: every STREAM_START goes to the device.
StreamStartEach(d) ==
    /\ Serves(d, {"ready"})
    /\ CreateThread
    /\ mLock' = "control"
    /\ pc' = [pc EXCEPT ![d] = "on"]
    /\ UNCHANGED <<stopReq, driverVars, mBuffers, bookVars, todo, conn>>

\* streamStart() of the first one: Camera::streamStart() up to STREAMON, under
\* mLock.
StreamStartFirst(d) ==
    /\ Serves(d, {"ready"})
    /\ mStreamingNow = {}
    /\ CreateThread
    /\ mLock' = "control"
    /\ pc' = [pc EXCEPT ![d] = "on"]
    /\ UNCHANGED <<stopReq, driverVars, mBuffers, bookVars, todo, conn>>

\* The rest of it: STREAMON, the books, and mLock is released.
StreamStartOn(d) ==
    /\ backend = "up"
    /\ pc[d] = "on"
    /\ StreamOn
    /\ mStreamingNow' = mStreamingNow \cup {d}
    /\ mLock' = "free"
    /\ pc' = [pc EXCEPT ![d] = "idle"]
    /\ conn' = [conn EXCEPT ![d] = "streaming"]
    /\ UNCHANGED <<backend, threadVars, stopReq, mBuffers, mListeners, todo,
                   mBuffersAllocated>>

\* Mutant: streamStop() keeps mLock while it joins the event thread.
StreamStopLocked(d) ==
    /\ Serves(d, {"streaming"})
    /\ mStreamingNow' = mStreamingNow \ {d}
    /\ conn' = [conn EXCEPT ![d] = "ready"]
    /\ pc' = [pc EXCEPT ![d] = IF mStreamingNow' = {} THEN "stop" ELSE "idle"]
    /\ mLock' = IF mStreamingNow' = {} THEN "control" ELSE "free"
    /\ UNCHANGED <<cameraVars, mListeners, todo, mBuffersAllocated>>

\* Mutant: the device is stopped for whoever stops, not for the last one.
StreamStopAny(d) ==
    /\ Serves(d, {"streaming"})
    /\ mStreamingNow' = mStreamingNow \ {d}
    /\ conn' = [conn EXCEPT ![d] = "ready"]
    /\ pc' = [pc EXCEPT ![d] = "stop"]
    /\ UNCHANGED <<cameraVars, mLock, mListeners, todo, mBuffersAllocated>>

\* streamStop() under mLock.  The last one to stop releases mLock and goes on
\* to Camera::streamStop().
StreamStop(d) ==
    /\ Serves(d, {"streaming"})
    /\ mStreamingNow' = mStreamingNow \ {d}
    /\ conn' = [conn EXCEPT ![d] = "ready"]
    /\ pc' = [pc EXCEPT ![d] = IF mStreamingNow' = {} THEN "stop" ELSE "idle"]
    /\ UNCHANGED <<cameraVars, mLock, mListeners, todo, mBuffersAllocated>>

\* Camera::streamStop(), from streamStop() or from ~CameraHandler, in three
\* steps none of which holds mLock.
StopPoll(d) ==
    /\ backend = "up"
    /\ pc[d] = "stop"
    /\ PollStop
    /\ pc' = [pc EXCEPT ![d] = "join"]
    /\ UNCHANGED <<backend, threadVars, driverVars, mBuffers, mLock, bookVars, todo, conn>>

StopJoin(d) ==
    /\ backend = "up"
    /\ pc[d] = "join"
    /\ Join
    /\ pc' = [pc EXCEPT ![d] = "off"]
    /\ UNCHANGED <<backend, stopReq, driverVars, mBuffers, mLock, bookVars, todo, conn>>

StopOff(d) ==
    /\ backend = "up"
    /\ pc[d] = "off"
    /\ StreamOff
    /\ pc' = [pc EXCEPT ![d] = IF conn[d] = "closing" THEN "release" ELSE "idle"]
    /\ UNCHANGED <<backend, threadVars, stopReq, mBuffers, mLock, bookVars, todo, conn>>

-----------------------------------------------------------------------------
(* The frame callback, in the event thread                                  *)

\* Mutant: the frame is for those booked as streaming only.
FrameBeginStreaming ==
    /\ EvtAt("callback")
    /\ mLock = "free"
    /\ mLock' = "event"
    /\ todo' = mListeners \cap mStreamingNow
    /\ evtPc' = "deliver"
    /\ UNCHANGED <<backend, mThread, evtBuf, stopReq, driverVars, mBuffers, bookVars, conn, pc>>

\* onFrameDoneCallback() takes mLock and reads mBuffers[index].
FrameBegin ==
    /\ EvtAt("callback")
    /\ mLock = "free"
    /\ mLock' = "event"
    /\ todo' = mListeners
    /\ evtPc' = "deliver"
    /\ UNCHANGED <<backend, mThread, evtBuf, stopReq, driverVars, mBuffers, bookVars, conn, pc>>

\* It calls one listener, which copies the frame out of the mapping.  Every
\* listener is called, whether it is in mStreamingNow or not.
FrameDeliver(d) ==
    /\ EvtAt("deliver")
    /\ d \in todo
    /\ todo' = todo \ {d}
    /\ UNCHANGED <<cameraVars, mLock, bookVars, conn, pc>>

FrameEnd ==
    /\ EvtAt("deliver")
    /\ todo = {}
    /\ mLock' = "free"
    /\ evtPc' = "requeue"
    /\ UNCHANGED <<backend, mThread, evtBuf, stopReq, driverVars, mBuffers, bookVars, todo, conn, pc>>

handlerVars == <<mLock, bookVars, todo, conn, pc>>

EvtLoop ==
    /\ EvtPollStopped \/ EvtPollReady \/ EvtDequeue \/ EvtRequeue \/ EvtThrow
    /\ UNCHANGED handlerVars

DriverCapture == Capture /\ UNCHANGED handlerVars

\* The process is ending: nothing of it is followed any further.
Ended == backend # "up" /\ UNCHANGED vars

-----------------------------------------------------------------------------
Request(d) ==
    \/ Connect(d) \/ Close(d) \/ CloseLast(d)
    \/ BufRequest(d) \/ BufRequestFails(d) \/ BufRelease(d)
    \/ StreamStartJoin(d) \/ StreamStartFirst(d) \/ StreamStop(d)

\* What a control thread does once a request is under way.
Continue(d) ==
    StreamStartOn(d) \/ StopPoll(d) \/ StopJoin(d) \/ StopOff(d) \/ Destroy(d)

Event == EvtLoop \/ FrameBegin \/ (\E d \in Doms : FrameDeliver(d)) \/ FrameEnd

Next ==
    \/ \E d \in Doms : Request(d)
    \/ \E d \in Doms : Continue(d)
    \/ Event
    \/ DriverCapture
    \/ Ended

Spec == Init /\ [][Next]_vars

\* The kernel runs every thread that can run, hands a mutex that is free to a
\* thread that waits for it, and the sensor goes on producing frames.
\* Frontends are under no obligation to send anything.
Fairness ==
    /\ \A d \in Doms : WF_vars(Continue(d))
    /\ WF_vars(Event)
    /\ WF_vars(DriverCapture)

FairSpec == Spec /\ Fairness

-----------------------------------------------------------------------------
(* Safety                                                                   *)

Up == backend = "up"

\* The event thread reads mBuffers[index] (Camera.cpp:288, unchecked) only at
\* indices the vector has, whatever the other frontends release or stop
\* meanwhile and whatever calls fail.
DataInRange == evtPc \in HoldingPcs => evtBuf < Len(mBuffers)

\* The mapping it copies from is the buffer DQBUF returned, not an older one.
DataIsThatBuffer == DataInRange /\ (evtPc \in HoldingPcs => mBuffers[evtBuf + 1] = evtBuf)

\* While a frame is copied out, the driver does not write into its buffer.
NoTornFrame ==
    evtPc \in HoldingPcs => evtBuf \in DOMAIN hwBuf /\ hwBuf[evtBuf] = "dequeued"

\* A frame in delivery reaches only CommandHandlers that still exist
\* (the callbacks hold a bare this).
NoDeadListener == \A d \in todo : conn[d] \in Connected

\* As long as a frontend streams and the handler is not being destroyed, the
\* event thread exists; once none does and nobody is busy stopping, no thread is
\* left, no stop byte waits in the pipe for the next thread, and the device is off.
Quiescent == Up /\ \A d \in Doms : pc[d] = "idle"
ThreadFollowsBook ==
    /\ Up /\ mStreamingNow # {} /\ (\A d \in Doms : conn[d] # "closing") =>
          mThread = "running"
    /\ Quiescent /\ mStreamingNow = {} =>
          mThread = "none" /\ stopReq = 0 /\ ~streaming

\* The std::thread is joined by one thread at a time: two joins are undefined.
OneJoiner == Up => Cardinality({d \in Doms : pc[d] \in {"stop", "join"}}) <= 1

\* Nobody waits for ever.  What holds mLock waits for nothing: a control thread
\* has only STREAMON left to issue, the event thread is in the middle of a
\* delivery.  And a thread that joins the event thread does so without mLock,
\* which the callback needs, and after the byte that ends it.
NoCircularWait ==
    Up =>
        /\ mLock = "control" => \E d \in Doms : pc[d] = "on"
        /\ mLock = "event" => mThread = "running" /\ evtPc = "deliver"
        /\ \A d \in Doms : pc[d] = "join" => mThread # "running" \/ stopReq > 0

\* A device that keeps streaming loses no buffer: each one is with the driver or
\* in the hands of the event thread, which gives it back.
Held == IF evtPc \in HoldingPcs THEN {evtBuf} ELSE {}
BuffersConserved ==
    [][streaming /\ streaming' /\ mThread = "running" =>
          Circulating \cup Held \subseteq Circulating' \cup Held']_vars

\* The process ends itself only in three windows: a start that found the last
\* stop still at work, an event thread that polls before STREAMON or after the
\* STREAMOFF of a stop that was overtaken, and a restart on a queue that the last
\* STREAMOFF emptied.  The first shows as a stop in progress, the others as a device
\* that does not stream or has no buffer to fill; otherwise no order of requests ends it.
Stopping == \E d \in Doms : pc[d] \in {"stop", "join", "off"}
EndsOnlyInWindows ==
    [][backend' # backend =>
          \/ backend' = "terminated" /\ Stopping
          \/ backend' = "sigterm" /\ (~streaming \/ Circulating = {})]_vars

(* Liveness                                                                 *)

\* A stop, and the destruction of the handler, always finishes: the event thread
\* can reach its end although its callback needs mLock.
StopCompletes ==
    \A d \in Doms : pc[d] = "stop" ~> (pc[d] = "idle" \/ ~Up)

\* A frontend that streams, on a device that streams and has buffers to
\* fill, gets the next frame, unless it stops first.
FrameArrives ==
    \A d \in Doms :
        (conn[d] = "streaming" /\ streaming /\ Circulating # {})
            ~> ((evtPc = "deliver" /\ d \in todo) \/ conn[d] # "streaming" \/ ~Up)

-----------------------------------------------------------------------------
(* What the handler promises its listeners                                  *)

\* A listener is there as long as its frontend is connected: the callback holds
\* the CommandHandler's bare this.
Listening == {d \in Doms : conn[d] \in Connected}

Phase ==
    CASE evtPc \in {"poll", "dequeue"} -> "none"
      [] evtPc = "callback" -> "taken"
      [] evtPc = "deliver" -> "giving"
      [] evtPc = "requeue" -> "given"

Relay == INSTANCE FrameRelay WITH
    Listeners <- Doms,
    Buffers <- UNION {0..(n - 1) : n \in BufCounts},
    here <- Listening,
    owed <- todo,
    phase <- Phase,
    held <- Held,
    owned <- Circulating

\* However requests, disconnections and the event thread interleave, a frame goes
\* once to every connected frontend, and to nobody else, before its buffer is the
\* driver's again.
RelaysFrames == Relay!Spec

\* Towards each frontend the handler is the port its CommandHandler relies on.
Port(d) == INSTANCE ListenerPort WITH there <- d \in Listening, called <- d \in todo

KeepsPorts ==
    /\ \A d \in Doms : Port(d)!Init
    /\ [][\A d \in Doms : [Port(d)!Next]_(Port(d)!portVars)]_<<Listening, todo>>

-----------------------------------------------------------------------------
(* Stated by the source, and not so                                         *)

\* CameraHandler.hpp:82-84: the books "help to make a decision if a requst from
\* a frontend needs to directly go to HW camera device or needs to be emulated".
\* So when they say that a frontend streams, the device does.
HardwareFollowsBook == Quiescent /\ mStreamingNow # {} => streaming

\* Likewise, when they say that buffers are allocated and streaming, the device
\* has buffers it can fill.
QueueFollowsBook ==
    Quiescent /\ mStreamingNow # {} => Circulating \cup Held # {}

\* CameraHandler.cpp:398-399: "If no buffers are allocated yet in the HW device
\* (backend buffers) then request buffers now."  So where the handler takes that
\* branch, the camera holds none.
NoneMeansNone == Quiescent /\ mBuffersAllocated = {} => mBuffers = <<>>
=============================================================================

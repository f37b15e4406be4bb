------------------------------- MODULE Camera -------------------------------
(***************************************************************************)
(* The streaming half of class Camera (src/Camera.cpp): the V4L2 capture    *)
(* queue of one device, the mapped buffers the class keeps, and its event   *)
(* thread.  The class has no lock of its own and several threads call it;   *)
(* this module therefore gives its methods as operators, cut where another  *)
(* thread or the driver can act in between, and CameraHandler, the only     *)
(* caller, composes them with the threads that make the calls.              *)
(*                                                                         *)
(* The capture queue is the kernel's (videobuf2), external to this          *)
(* repository, and is modelled from the ioctls the class issues:            *)
(*   - a buffer is "queued" (the driver may fill it), "done" (filled, not   *)
(*     yet fetched) or "dequeued" (it belongs to this process);             *)
(*   - STREAMOFF returns every buffer to "dequeued", streaming or not;      *)
(*   - poll() reports an error on a queue that does not stream, and may     *)
(*     report one when nothing was queued since the last STREAMOFF;         *)
(*   - DQBUF on a non-blocking descriptor fails when no buffer is "done";   *)
(*   - REQBUFS is refused while the queue streams.                          *)
(***************************************************************************)
EXTENDS Integers, Sequences, FiniteSets

CONSTANTS
    BufCounts,   \* the numbers of buffers VIDIOC_REQBUFS may grant
    Faults       \* which calls may fail: "alloc", "on", "off", "io"

ASSUME CameraAssumption ==
    /\ BufCounts \subseteq Nat \ {0}
    /\ Faults \subseteq {"alloc", "on", "off", "io"}

VARIABLES
    backend,     \* the process: "up", "sigterm" or "terminated" (std::terminate)
    mThread,     \* the std::thread: "none" (not joinable), "running", "finished"
    evtPc,       \* where eventThread() is
    evtBuf,      \* the index DQBUF gave the event thread
    stopReq,     \* PollFd: bytes written by stop() and not yet read by poll()
    streaming,   \* driver: STREAMON is in force
    hwBuf,       \* driver: the state of each buffer it has allocated
    mBuffers     \* the vector of mappings: whose memory each entry is

threadVars == <<mThread, evtPc, evtBuf>>
driverVars == <<streaming, hwBuf>>
cameraVars == <<backend, mThread, evtPc, evtBuf, stopReq, streaming, hwBuf, mBuffers>>

\* A mapping of a buffer that a later REQBUFS has freed in the driver.
Stale == -1

EvtPcs == {"poll", "dequeue", "callback", "deliver", "requeue"}

\* The event thread holds the buffer it dequeued and has not queued it again.
HoldingPcs == {"callback", "deliver", "requeue"}

CameraTypeOK ==
    /\ backend \in {"up", "sigterm", "terminated"}
    /\ mThread \in {"none", "running", "finished"}
    /\ evtPc \in EvtPcs
    /\ evtBuf \in Nat
    /\ stopReq \in Nat
    /\ streaming \in BOOLEAN
    /\ \E n \in BufCounts \cup {0} : hwBuf \in [0..(n - 1) -> {"queued", "done", "dequeued"}]
    /\ mBuffers \in Seq(Int)

CameraInit ==
    /\ backend = "up"
    /\ mThread = "none"
    /\ evtPc = "poll"
    /\ evtBuf = 0
    /\ stopReq = 0
    /\ streaming = FALSE
    /\ hwBuf = [i \in 0..-1 |-> "dequeued"]
    /\ mBuffers = <<>>

Done == {i \in DOMAIN hwBuf : hwBuf[i] = "done"}

\* The buffers the driver or the event thread still has to hand on; a buffer
\* outside this set will never carry a frame again until the next REQBUFS.
Circulating == {i \in DOMAIN hwBuf : hwBuf[i] # "dequeued"}

-----------------------------------------------------------------------------
(* Buffers                                                                  *)

\* mBuffers once k buffers of a new REQBUFS were appended.  Entries an earlier,
\* failed streamAlloc() left there stay in front and are stale from here on.
Mapped(k) == [j \in 1..Len(mBuffers) |-> Stale] \o [j \in 1..k |-> j - 1]

\* streamAlloc() that succeeds: REQBUFS grants n, and each buffer is queried,
\* mapped, queued and appended to mBuffers.
StreamAlloc(n) ==
    /\ ~streaming
    /\ hwBuf' = [i \in 0..(n - 1) |-> "queued"]
    /\ mBuffers' = Mapped(n)

\* streamAlloc() that throws at buffer k, from QUERYBUF, mmap or QBUF: the
\* buffers before k stay queued and mapped.
StreamAllocFails(n, k) ==
    /\ "alloc" \in Faults
    /\ ~streaming
    /\ hwBuf' = [i \in 0..(n - 1) |-> IF i < k THEN "queued" ELSE "dequeued"]
    /\ mBuffers' = Mapped(k)

\* REQBUFS itself is refused: nothing changes and streamAlloc() throws.
RequestRefused ==
    /\ streaming \/ "alloc" \in Faults
    /\ UNCHANGED <<hwBuf, mBuffers>>

\* Mutant: the mappings are removed but the vector keeps its entries.
StreamReleaseNoClear == mBuffers' = [j \in 1..Len(mBuffers) |-> Stale]

\* streamRelease(): munmap and clear.  There is no REQBUFS(0): the driver keeps
\* its buffers.
StreamRelease == mBuffers' = <<>>

-----------------------------------------------------------------------------
(* Starting and stopping                                                    *)

\* streamStart() up to STREAMON: the event thread is created first.
\* Assigning a std::thread over one that is still joinable is std::terminate.
CreateThread ==
    /\ UNCHANGED <<evtPc, evtBuf>>
    /\ \/ mThread = "none" /\ mThread' = "running" /\ UNCHANGED backend
       \/ mThread # "none" /\ backend' = "terminated" /\ UNCHANGED mThread

\* STREAMON; a failure is logged and nothing else happens.
StreamOn ==
    /\ UNCHANGED hwBuf
    /\ \/ streaming' = TRUE
       \/ "on" \in Faults /\ UNCHANGED streaming

\* PollFd::stop(): a byte in the pipe that poll() watches, kept until it is read.
PollStop == stopReq' = stopReq + 1

\* if (mThread.joinable()) mThread.join()
Join ==
    /\ mThread # "running"
    /\ mThread' = "none"
    /\ UNCHANGED <<evtPc, evtBuf>>

\* STREAMOFF, which gives every buffer back; a failure is logged only.
StreamOff ==
    \/ streaming' = FALSE /\ hwBuf' = [i \in DOMAIN hwBuf |-> "dequeued"]
    \/ "off" \in Faults /\ UNCHANGED driverVars

-----------------------------------------------------------------------------
(* The event thread                                                         *)

EvtAt(pc) == backend = "up" /\ mThread = "running" /\ evtPc = pc

\* poll() finds the stop byte, before it looks at the device: the loop ends.
EvtPollStopped ==
    /\ EvtAt("poll")
    /\ stopReq > 0
    /\ stopReq' = stopReq - 1
    /\ mThread' = "finished"
    /\ UNCHANGED <<backend, evtPc, evtBuf, driverVars, mBuffers>>

EvtPollReady ==
    /\ EvtAt("poll")
    /\ stopReq = 0
    /\ streaming
    /\ Done # {}
    /\ evtPc' = "dequeue"
    /\ UNCHANGED <<backend, mThread, evtBuf, stopReq, driverVars, mBuffers>>

\* bufferDequeue()
EvtDequeue ==
    /\ EvtAt("dequeue")
    /\ streaming
    /\ \E i \in Done : evtBuf' = i /\ hwBuf' = [hwBuf EXCEPT ![i] = "dequeued"]
    /\ evtPc' = "callback"
    /\ UNCHANGED <<backend, mThread, stopReq, streaming, mBuffers>>

\* Mutant: the loop forgets to give the buffer back.
EvtRequeueForgotten ==
    /\ EvtAt("requeue")
    /\ evtPc' = "poll"
    /\ evtBuf' = 0
    /\ UNCHANGED <<backend, mThread, stopReq, driverVars, mBuffers>>

\* bufferQueue(buf.index)
EvtRequeue ==
    /\ EvtAt("requeue")
    /\ hwBuf' = [hwBuf EXCEPT ![evtBuf] = "queued"]
    /\ evtPc' = "poll"
    /\ evtBuf' = 0
    /\ UNCHANGED <<backend, mThread, stopReq, streaming, mBuffers>>

\* The calls of the loop that can throw, and when: poll() on a queue that does
\* not stream or that has nothing queued, DQBUF with nothing to fetch, and any
\* of them (QBUF too) on an I/O error.
CanThrow ==
    \/ evtPc = "poll" /\ stopReq = 0 /\ (~streaming \/ Circulating = {})
    \/ evtPc = "dequeue" /\ (~streaming \/ Done = {})
    \/ evtPc \in {"poll", "dequeue", "requeue"} /\ "io" \in Faults

\* The handler of the loop: kill(getpid(), SIGTERM).
EvtThrow ==
    /\ EvtAt(evtPc)
    /\ CanThrow
    /\ backend' = "sigterm"
    /\ UNCHANGED <<threadVars, stopReq, driverVars, mBuffers>>

\* The driver fills a queued buffer.
Capture ==
    /\ backend = "up"
    /\ streaming
    /\ \E i \in DOMAIN hwBuf :
          hwBuf[i] = "queued" /\ hwBuf' = [hwBuf EXCEPT ![i] = "done"]
    /\ UNCHANGED <<backend, threadVars, stopReq, streaming, mBuffers>>
=============================================================================

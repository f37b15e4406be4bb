--------------------------- MODULE CommandHandler ---------------------------
(***************************************************************************)
(* One frontend's CommandHandler (src/CommandHandler.cpp) from construction *)
(* to destruction: its buffers, the queue of those it lent to the backend,  *)
(* and the events it is sent.                                               *)
(*                                                                         *)
(* Three threads act on it.  The frontend's control thread serves requests, *)
(* one at a time.  The camera's event thread calls onFrameDoneCallback()    *)
(* for every frame, whether this frontend streams or not.  The control      *)
(* thread of any other frontend calls onCtrlChangeCallback().  Both         *)
(* callbacks come with CameraHandler::mLock held (handlerLock here); mLock  *)
(* is taken by bufQueue(), bufDequeue() and the frame callback only, so     *)
(* bufCreate(), bufDestroy() and streamStart() change mBuffers and          *)
(* mSequence unprotected.  Those and the frame callback are cut into steps; *)
(* bufQueue() and bufDequeue() are one action each.                         *)
(*                                                                         *)
(* The frontend (external) requests buffers before it creates any, lends    *)
(* only buffers it created and has, and destroys none that is on loan.  It  *)
(* may close at any moment between two requests, with buffers on loan.      *)
(***************************************************************************)
EXTENDS Integers, Sequences

CONSTANTS
    Indices,     \* buffer indices
    SeqMod,      \* mSequence is uint32_t: 2^32
    IdMod,       \* the id field of an event is 16 bits wide: 2^16
    MaxEvents    \* bound: events sent in a behaviour

ASSUME CommandAssumption == SeqMod \in Nat \ {0} /\ IdMod \in Nat \ {0} /\ MaxEvents \in Nat

VARIABLES
    life,            \* "new", "listening", "leaving", "gone"
    mBuffers,        \* keys of the map
    null,            \* those of them whose pointer is null
    mQueuedBuffers,  \* the list
    mSequence,
    mEventId,
    mLock,           \* "free" or "event"
    handlerLock,     \* CameraHandler::mLock: "free", "event" or "peer"
    booked,          \* this domain is in CameraHandler::mBuffersAllocated
    ctl,             \* the request the control thread is in the middle of
    cb,              \* the event thread in onFrameDoneCallback()
    peerId,          \* the id a control event under way has read
    ids,             \* the ids of the events put on the ring, in order
    frames           \* buffer and number of the frame events among them

vars == <<life, mBuffers, null, mQueuedBuffers, mSequence, mEventId, mLock, handlerLock, booked,
          ctl, cb, peerId, ids, frames>>

\* s without its n-th element.
Without(s, n) == SubSeq(s, 1, n - 1) \o SubSeq(s, n + 1, Len(s))

Queued == {mQueuedBuffers[k] : k \in DOMAIN mQueuedBuffers}

Idle == [op |-> "idle"]
Ops == {Idle, [op |-> "start"], [op |-> "release"]}
           \cup [op : {"create", "destroy"}, index : Indices]

Away == [pc |-> "away"]
CbStates ==
    {Away} \cup [pc : {"number"}, index : Indices]
           \cup [pc : {"count", "copy", "send"}, index : Indices, seq : 0..(SeqMod - 1),
                 id : 0..(IdMod - 1)]

FrameEvents == [index : Indices, seq : 0..(SeqMod - 1)]

TypeOK ==
    /\ life \in {"new", "listening", "leaving", "gone"}
    /\ mBuffers \subseteq Indices
    /\ null \subseteq mBuffers
    /\ mQueuedBuffers \in Seq(Indices)
    /\ mSequence \in 0..(SeqMod - 1)
    /\ mEventId \in 0..(IdMod - 1)
    /\ mLock \in {"free", "event"}
    /\ handlerLock \in {"free", "event", "peer"}
    /\ booked \in BOOLEAN
    /\ ctl \in Ops
    /\ cb \in CbStates
    /\ peerId \in 0..(IdMod - 1)
    /\ ids \in Seq(0..(IdMod - 1))
    /\ frames \in Seq(FrameEvents)

\* The constructor sets mEventId and leaves mSequence as it finds it.
Init ==
    /\ life = "new"
    /\ mBuffers = {} /\ null = {}
    /\ mQueuedBuffers = <<>>
    /\ mSequence \in 0..(SeqMod - 1)
    /\ mEventId = 0
    /\ mLock = "free"
    /\ handlerLock = "free"
    /\ booked = FALSE
    /\ ctl = Idle
    /\ cb = Away
    /\ peerId = 0
    /\ ids = <<>>
    /\ frames = <<>>

\* The buffers the frontend knows it has.
Created == mBuffers \ null

bufVars == <<life, mBuffers, null>>
ringVars == <<ids, frames>>
cbVars == <<cb, peerId, ringVars>>
lockVars == <<mLock, handlerLock>>
countVars == <<mSequence, mEventId>>

-----------------------------------------------------------------------------
(* Construction and destruction                                             *)

\* init() ends with listenerSet().
Listen ==
    /\ life = "new"
    /\ handlerLock = "free"
    /\ life' = "listening"
    /\ UNCHANGED <<mBuffers, null, mQueuedBuffers, countVars, lockVars, booked, ctl, cbVars>>

\* Mutant: the listener is erased without CameraHandler::mLock.
UnlistenUnlocked ==
    /\ life = "listening" /\ ctl = Idle
    /\ life' = "leaving"
    /\ UNCHANGED <<mBuffers, null, mQueuedBuffers, countVars, lockVars, booked, ctl, cbVars>>

\* The destructor calls release(), and so listenerReset().
Unlisten ==
    /\ life = "listening" /\ ctl = Idle
    /\ handlerLock = "free"
    /\ life' = "leaving"
    /\ UNCHANGED <<mBuffers, null, mQueuedBuffers, countVars, lockVars, booked, ctl, cbVars>>

\* The members are destroyed; CameraHandler is not told of the buffers that go.
Destroy ==
    /\ life = "leaving"
    /\ life' = "gone"
    /\ mBuffers' = {} /\ null' = {}
    /\ mQueuedBuffers' = <<>>
    /\ UNCHANGED <<countVars, lockVars, booked, ctl, cbVars>>

Gone == life = "gone" /\ UNCHANGED vars

-----------------------------------------------------------------------------
(* Requests of the frontend                                                 *)

\* processCommand() serves a request when the one before is answered.
Serves == life = "listening" /\ ctl = Idle

\* The handler returned or threw, and processCommand() has its status.
Answer == ctl' = Idle

\* bufRequest(): CameraHandler books the domain.
BufRequest ==
    /\ Serves
    /\ handlerLock = "free"
    /\ booked' = TRUE
    /\ UNCHANGED <<bufVars, mQueuedBuffers, countVars, lockVars, ctl, cbVars>>

\* bufCreate() asks CameraHandler for the image size and maps the frontend's
\* pages; then it starts to write the map of buffers.  (A frontend that creates a buffer
\* it has would replace the entry; frontends do not.)
BufCreate(i) ==
    /\ Serves
    /\ booked
    /\ i \notin Created
    /\ handlerLock = "free"
    /\ ctl' = [op |-> "create", index |-> i]
    /\ UNCHANGED <<bufVars, mQueuedBuffers, countVars, lockVars, booked, cbVars>>

BufCreated ==
    /\ ctl.op = "create"
    /\ mBuffers' = mBuffers \cup {ctl.index}
    /\ null' = null \ {ctl.index}
    /\ Answer
    /\ UNCHANGED <<life, mQueuedBuffers, countVars, lockVars, booked, cbVars>>

\* The image size or the mapping of the pages throws.  operator[] may have made the
\* entry by then: C++11 leaves the order to the compiler.
BufCreateFails ==
    /\ ctl.op = "create"
    /\ \/ mBuffers' = mBuffers \cup {ctl.index} /\ null' = null \cup {ctl.index}
       \/ UNCHANGED <<mBuffers, null>>
    /\ Answer
    /\ UNCHANGED <<life, mQueuedBuffers, countVars, lockVars, booked, cbVars>>

\* bufDestroy() starts to write the map.
BufDestroy(i) ==
    /\ Serves
    /\ i \in Created \ Queued
    /\ ctl' = [op |-> "destroy", index |-> i]
    /\ UNCHANGED <<bufVars, mQueuedBuffers, countVars, lockVars, booked, cbVars>>

\* Mutant: CameraHandler is told at every buffer, not at the last.
BufDestroyedTellAlways ==
    /\ ctl.op = "destroy"
    /\ mBuffers' = mBuffers \ {ctl.index} /\ null' = null \ {ctl.index}
    /\ ctl' = [op |-> "release"]
    /\ UNCHANGED <<life, mQueuedBuffers, countVars, lockVars, booked, cbVars>>

\* The entry is gone; if it was the last, one without a buffer included, CameraHandler
\* is to be told.
BufDestroyed ==
    /\ ctl.op = "destroy"
    /\ mBuffers' = mBuffers \ {ctl.index} /\ null' = null \ {ctl.index}
    /\ IF mBuffers' = {} THEN ctl' = [op |-> "release"] ELSE Answer
    /\ UNCHANGED <<life, mQueuedBuffers, countVars, lockVars, booked, cbVars>>

BufRelease ==
    /\ ctl.op = "release"
    /\ handlerLock = "free"
    /\ booked' = FALSE
    /\ Answer
    /\ UNCHANGED <<bufVars, mQueuedBuffers, countVars, lockVars, cbVars>>

\* Mutant: push_front for push_back.
BufQueueFront(i) ==
    /\ Serves
    /\ mLock = "free"
    /\ i \in Created \ Queued
    /\ mQueuedBuffers' = <<i>> \o mQueuedBuffers
    /\ UNCHANGED <<bufVars, countVars, lockVars, booked, ctl, cbVars>>

BufQueue(i) ==
    /\ Serves
    /\ mLock = "free"
    /\ i \in Created \ Queued
    /\ mQueuedBuffers' = Append(mQueuedBuffers, i)
    /\ UNCHANGED <<bufVars, countVars, lockVars, booked, ctl, cbVars>>

\* Mutant: bufDequeue() without mLock.
BufDequeueUnlocked(i) ==
    /\ Serves
    /\ \E n \in DOMAIN mQueuedBuffers :
          /\ mQueuedBuffers[n] = i
          /\ mQueuedBuffers' = Without(mQueuedBuffers, n)
    /\ UNCHANGED <<bufVars, countVars, lockVars, booked, ctl, cbVars>>

\* std::list::remove(); a buffer on loan is in the list once.
BufDequeue(i) ==
    /\ Serves
    /\ mLock = "free"
    /\ \E n \in DOMAIN mQueuedBuffers :
          /\ mQueuedBuffers[n] = i
          /\ mQueuedBuffers' = Without(mQueuedBuffers, n)
    /\ UNCHANGED <<bufVars, countVars, lockVars, booked, ctl, cbVars>>

\* streamStart(): the counter is reset before CameraHandler is entered.
StreamStart ==
    /\ Serves
    /\ booked
    /\ mSequence' = 0
    /\ ctl' = [op |-> "start"]
    /\ UNCHANGED <<bufVars, mQueuedBuffers, mEventId, lockVars, booked, cbVars>>

StreamStarted ==
    /\ ctl.op = "start"
    /\ handlerLock = "free"
    /\ Answer
    /\ UNCHANGED <<bufVars, mQueuedBuffers, countVars, lockVars, booked, cbVars>>

-----------------------------------------------------------------------------
(* The frame callback                                                       *)

UnderWay == (IF cb = Away THEN 0 ELSE 1) + (IF handlerLock = "peer" THEN 1 ELSE 0)
Room == Len(ids) + UnderWay < MaxEvents

\* Mutant: a frame is counted although nothing is queued to take it.
FrameBeginCountsAll ==
    /\ life = "listening"
    /\ cb = Away
    /\ handlerLock = "free"
    /\ Room
    /\ IF mQueuedBuffers = <<>>
         THEN /\ mSequence' = (mSequence + 1) % SeqMod
              /\ UNCHANGED <<cb, lockVars>>
         ELSE /\ cb' = [pc |-> "number", index |-> Head(mQueuedBuffers)]
              /\ mLock' = "event"
              /\ handlerLock' = "event"
              /\ UNCHANGED mSequence
    /\ UNCHANGED <<bufVars, mQueuedBuffers, mEventId, booked, ctl, peerId, ringVars>>

\* Both locks are taken and the first queued buffer is chosen; it stays in the
\* list.  With nothing queued the callback changes nothing, a stuttering step.
FrameBegin ==
    /\ life = "listening"
    /\ cb = Away
    /\ handlerLock = "free"
    /\ Room
    /\ mQueuedBuffers # <<>>
    /\ cb' = [pc |-> "number", index |-> Head(mQueuedBuffers)]
    /\ mLock' = "event"
    /\ handlerLock' = "event"
    /\ UNCHANGED <<bufVars, mQueuedBuffers, countVars, booked, ctl, peerId, ringVars>>

\* mSequence++ and mEventId++: the first is a read and, in the next action, a
\* write, because streamStart() may write in between; the second is protected
\* by handlerLock.
FrameNumber ==
    /\ cb.pc = "number"
    /\ cb' = [pc |-> "count", index |-> cb.index, seq |-> mSequence, id |-> mEventId]
    /\ mEventId' = (mEventId + 1) % IdMod
    /\ UNCHANGED <<bufVars, mQueuedBuffers, mSequence, lockVars, booked, ctl, peerId, ringVars>>

\* Mutant: the counter does not wrap.
FrameCountNoWrap ==
    /\ cb.pc = "count"
    /\ mSequence' = cb.seq + 1
    /\ cb' = [cb EXCEPT !.pc = "copy"]
    /\ UNCHANGED <<bufVars, mQueuedBuffers, mEventId, lockVars, booked, ctl, peerId, ringVars>>

FrameCount ==
    /\ cb.pc = "count"
    /\ mSequence' = (cb.seq + 1) % SeqMod
    /\ cb' = [cb EXCEPT !.pc = "copy"]
    /\ UNCHANGED <<bufVars, mQueuedBuffers, mEventId, lockVars, booked, ctl, peerId, ringVars>>

\* mBuffers[index]->copyBuffer(): a null dereference if the entry is not there.
FrameCopy ==
    /\ cb.pc = "copy"
    /\ cb.index \in Created
    /\ cb' = [cb EXCEPT !.pc = "send"]
    /\ UNCHANGED <<bufVars, mQueuedBuffers, countVars, lockVars, booked, ctl, peerId, ringVars>>

\* The event goes onto the ring, and both locks are released.
FrameSend ==
    /\ cb.pc = "send"
    /\ ids' = Append(ids, cb.id)
    /\ frames' = Append(frames, [index |-> cb.index, seq |-> cb.seq])
    /\ cb' = Away
    /\ mLock' = "free"
    /\ handlerLock' = "free"
    /\ UNCHANGED <<bufVars, mQueuedBuffers, countVars, booked, ctl, peerId>>

-----------------------------------------------------------------------------
(* The control callback, in another frontend's control thread               *)

\* Mutant: ctrlSet() calls its listeners after it released the handler's lock.
CtrlBeginUnlocked ==
    /\ life = "listening"
    /\ handlerLock # "peer"
    /\ Room
    /\ peerId' = mEventId
    /\ handlerLock' = "peer"
    /\ UNCHANGED <<bufVars, mQueuedBuffers, countVars, mLock, booked, ctl, cb, ringVars>>

\* event.id = mEventId++ begins with a read.  A control this frontend was not
\* assigned is skipped, which changes nothing.
CtrlBegin ==
    /\ life = "listening"
    /\ handlerLock = "free"
    /\ Room
    /\ peerId' = mEventId
    /\ handlerLock' = "peer"
    /\ UNCHANGED <<bufVars, mQueuedBuffers, countVars, mLock, booked, ctl, cb, ringVars>>

CtrlSend ==
    /\ handlerLock = "peer"
    /\ mEventId' = (peerId + 1) % IdMod
    /\ ids' = Append(ids, peerId)
    /\ handlerLock' = "free"
    /\ peerId' = 0
    /\ UNCHANGED <<bufVars, mQueuedBuffers, mSequence, mLock, booked, ctl, cb, frames>>

-----------------------------------------------------------------------------
Control ==
    \/ Listen \/ Unlisten \/ Destroy
    \/ BufRequest \/ BufCreated \/ BufCreateFails \/ BufDestroyed \/ BufRelease \/ StreamStart \/ StreamStarted
    \/ \E i \in Indices :
          BufCreate(i) \/ BufDestroy(i) \/ BufQueue(i) \/ BufDequeue(i)

FrameCallback == FrameBegin \/ FrameNumber \/ FrameCount \/ FrameCopy \/ FrameSend

CtrlCallback == CtrlBegin \/ CtrlSend

Next == Control \/ FrameCallback \/ CtrlCallback \/ Gone

Spec == Init /\ [][Next]_vars

-----------------------------------------------------------------------------
(* Properties                                                               *)

\* The buffer a frame is being copied into exists, and its entry is neither being
\* written nor left empty by a creation that failed, although mBuffers has no lock: the loan keeps the frontend from
\* destroying it, and mLock keeps the loan until the copy is done.
FrameIntoLiveBuffer ==
    cb.pc \in {"number", "count", "copy"} =>
        /\ cb.index \in Created
        /\ ctl.op \in {"create", "destroy"} => ctl.index # cb.index

\* CameraHandler's listeners hold a bare this: neither the event thread nor another
\* frontend's control thread is in a callback when the destructor goes on.
CallbacksFindHandler == cb # Away \/ handlerLock = "peer" => life = "listening"

\* Frame and control events come from different threads, and yet every event
\* of the ring carries the id after that of the one before it.
EventIdsConsecutive ==
    \A k \in 1..(Len(ids) - 1) : ids[k + 1] = (ids[k] + 1) % IdMod

\* The sequence numbers of a frontend's frames have no gaps: each is one more
\* than the last, or starts again at 0, although streamStart() resets the
\* counter under no lock.
SequenceHasNoGaps ==
    \A k \in 1..(Len(frames) - 1) : frames[k + 1].seq \in {0, (frames[k].seq + 1) % SeqMod}

\* As long as the frontend has a buffer, CameraHandler counts it among those
\* that need the camera's buffers.
BookedWhileCreated == mBuffers # {} => booked

\* The detailed handler keeps the promise of BufferLoan.
Loan == INSTANCE BufferLoan WITH
    lent <- mQueuedBuffers,
    filled <- IF cb.pc = "send" THEN {cb.index} ELSE {},
    reports <- [k \in 1..Len(frames) |-> frames[k].index]

LoanSpec == Loan!Spec

\* The camera handler it is written against is the one CameraHandler shows: both
\* callbacks come while it listens, one at a time, and it is gone from the listeners only
\* when none is in progress.
Port == INSTANCE ListenerPort WITH
    there <- life = "listening",
    called <- cb # Away \/ handlerLock = "peer"

PortSpec == Port!Spec
=============================================================================

------------------------- MODULE CommandHandlerProofs -------------------------
(***************************************************************************)
(* Theorems about CommandHandler, for any buffers, any widths of the        *)
(* counters and any number of events.                                       *)
(***************************************************************************)
EXTENDS CommandHandler, SequenceTheorems, TLAPS

Seqs == 0..(SeqMod - 1)
Ids == 0..(IdMod - 1)

\* Counters stay within their width.
LEMMA Wraps ==
    /\ \A n \in Seqs : (n + 1) % SeqMod \in Seqs
    /\ \A n \in Ids : (n + 1) % IdMod \in Ids
    /\ 0 \in Seqs /\ 0 \in Ids
BY CommandAssumption DEF Seqs, Ids

\* Taking an element out of a sequence adds none.
LEMMA WithoutShrinks ==
    ASSUME NEW S, NEW s \in Seq(S), NEW n \in DOMAIN s
    PROVE  /\ Without(s, n) \in Seq(S)
           /\ Len(Without(s, n)) = Len(s) - 1
           /\ \A k \in 1..(Len(s) - 1) : Without(s, n)[k] = IF k < n THEN s[k] ELSE s[k + 1]
<1> DEFINE a == SubSeq(s, 1, n - 1)
           b == SubSeq(s, n + 1, Len(s))
<1>1. n \in 1..Len(s) /\ Len(s) \in Nat
  OBVIOUS
<1>2. /\ a \in Seq(S) /\ Len(a) = n - 1
      /\ \A k \in 1..(n - 1) : a[k] = s[k]
  BY <1>1
<1>3. /\ b \in Seq(S) /\ Len(b) = Len(s) - n
      /\ \A k \in 1..(Len(s) - n) : b[k] = s[n + k]
  BY <1>1
<1> HIDE DEF a, b
<1>4. /\ a \o b \in Seq(S) /\ Len(a \o b) = Len(s) - 1
      /\ \A k \in 1..(Len(s) - 1) :
            (a \o b)[k] = IF k <= n - 1 THEN a[k] ELSE b[k - (n - 1)]
  BY <1>1, <1>2, <1>3, SMTT(30)
<1>5. ASSUME NEW k \in 1..(Len(s) - 1)
      PROVE  (a \o b)[k] = IF k < n THEN s[k] ELSE s[k + 1]
  <2>1. CASE k < n
    BY <2>1, <1>1, <1>2, <1>4
  <2>2. CASE ~(k < n)
    <3>1. k - (n - 1) \in 1..(Len(s) - n) /\ n + (k - (n - 1)) = k + 1
      BY <2>2, <1>1
    <3>2. (a \o b)[k] = b[k - (n - 1)]
      BY <2>2, <1>1, <1>4
    <3>3. b[k - (n - 1)] = s[n + (k - (n - 1))]
      BY <3>1, <1>3
    <3> QED
      BY <3>1, <3>2, <3>3, <2>2
  <2> QED
    BY <2>1, <2>2
<1> QED
  BY <1>4, <1>5 DEF Without, a, b

-----------------------------------------------------------------------------
(* Types                                                                    *)

LEMMA InitTypes == Init => TypeOK
<1> SUFFICES ASSUME Init PROVE TypeOK
  OBVIOUS
<1>1. ctl \in Ops /\ cb \in CbStates
  BY DEF Init, Ops, CbStates
<1>2. mSequence \in Seqs /\ mEventId \in Ids /\ peerId \in Ids
  BY Wraps DEF Init, Seqs
<1>3. mQueuedBuffers \in Seq(Indices) /\ ids \in Seq(Ids) /\ frames \in Seq(FrameEvents)
  BY DEF Init
<1> QED
  BY <1>1, <1>2, <1>3 DEF Init, TypeOK, Seqs, Ids

LEMMA TypeStep == TypeOK /\ [Next]_vars => TypeOK'
<1> SUFFICES ASSUME TypeOK, [Next]_vars PROVE TypeOK'
  OBVIOUS
<1> USE DEF TypeOK, countVars, lockVars, cbVars, ringVars, bufVars, Serves, Answer, Created
<1>0. CASE Listen \/ Unlisten \/ Destroy
  <2>1. CASE Listen \/ Unlisten
    BY <2>1 DEF Listen, Unlisten
  <2>2. CASE Destroy
    <3>1. mQueuedBuffers' \in Seq(Indices) /\ mBuffers' \subseteq Indices /\ null' \subseteq mBuffers'
      BY <2>2 DEF Destroy
    <3> QED
      BY <2>2, <3>1 DEF Destroy
  <2> QED
    BY <1>0, <2>1, <2>2
<1>1. CASE BufRequest
  BY <1>1 DEF BufRequest
<1>2. CASE BufCreated \/ BufCreateFails \/ BufDestroyed
  <2>1. CASE BufCreated
    <3>1. ctl.index \in Indices
      BY <2>1 DEF BufCreated, Ops, Idle
    <3> QED
      BY <2>1, <3>1 DEF BufCreated, Ops
  <2>2. CASE BufDestroyed
    BY <2>2 DEF BufDestroyed, Ops
  <2>3. CASE BufCreateFails
    <3>1. ctl.index \in Indices
      BY <2>3 DEF BufCreateFails, Ops, Idle
    <3> QED
      BY <2>3, <3>1 DEF BufCreateFails, Ops
  <2> QED
    BY <1>2, <2>1, <2>2, <2>3
<1>3. CASE BufRelease
  BY <1>3 DEF BufRelease, Ops
<1>4. CASE StreamStart \/ StreamStarted
  BY <1>4, Wraps DEF StreamStart, StreamStarted, Ops, Seqs
<1>5. ASSUME NEW i \in Indices, BufCreate(i) \/ BufDestroy(i) PROVE TypeOK'
  BY <1>5 DEF BufCreate, BufDestroy, Ops
<1>6. ASSUME NEW i \in Indices, BufQueue(i) PROVE TypeOK'
  BY <1>6 DEF BufQueue
<1>7. ASSUME NEW i \in Indices, BufDequeue(i) PROVE TypeOK'
  <2>1. mQueuedBuffers' \in Seq(Indices)
    BY <1>7, WithoutShrinks DEF BufDequeue
  <2> QED
    BY <1>7, <2>1 DEF BufDequeue
<1>8. CASE FrameBegin
  <2>1. Head(mQueuedBuffers) \in Indices
    BY <1>8 DEF FrameBegin
  <2> QED
    BY <1>8, <2>1 DEF FrameBegin, CbStates
<1>9. CASE FrameNumber
  <2>1. cb.index \in Indices
    BY <1>9 DEF FrameNumber, CbStates, Away
  <2> QED
    BY <1>9, <2>1, Wraps DEF FrameNumber, CbStates, Seqs, Ids
<1>10. CASE FrameCount
  <2>1. cb.index \in Indices /\ cb.seq \in Seqs /\ cb.id \in Ids
    BY <1>10 DEF FrameCount, CbStates, Away, Seqs, Ids
  <2>2. cb' = [pc |-> "copy", index |-> cb.index, seq |-> cb.seq, id |-> cb.id]
    BY <1>10 DEF FrameCount, CbStates, Away
  <2> QED
    BY <1>10, <2>1, <2>2, Wraps DEF FrameCount, CbStates, Seqs, Ids
<1>11. CASE FrameCopy
  <2>1. cb.index \in Indices /\ cb.seq \in Seqs /\ cb.id \in Ids
    BY <1>11 DEF FrameCopy, CbStates, Away, Seqs, Ids
  <2>2. cb' = [pc |-> "send", index |-> cb.index, seq |-> cb.seq, id |-> cb.id]
    BY <1>11 DEF FrameCopy, CbStates, Away
  <2> QED
    BY <1>11, <2>1, <2>2 DEF FrameCopy, CbStates, Seqs, Ids
<1>12. CASE FrameSend
  <2>1. cb.index \in Indices /\ cb.seq \in Seqs /\ cb.id \in Ids
    BY <1>12 DEF FrameSend, CbStates, Away, Seqs, Ids
  <2> QED
    BY <1>12, <2>1 DEF FrameSend, CbStates, Seqs, Ids, FrameEvents
<1>13. CASE CtrlBegin
  BY <1>13 DEF CtrlBegin
<1>14. CASE CtrlSend
  <2>1. mEventId' \in Ids /\ peerId' \in Ids
    BY <1>14, Wraps DEF CtrlSend, Ids
  <2>2. ids' \in Seq(Ids)
    BY <1>14 DEF CtrlSend, Ids
  <2> QED
    BY <1>14, <2>1, <2>2 DEF CtrlSend, Ids
<1>15. CASE UNCHANGED vars \/ Gone
  BY <1>15 DEF vars, Gone
<1> QED
  BY <1>0, <1>1, <1>2, <1>3, <1>4, <1>5, <1>6, <1>7, <1>8, <1>9, <1>10, <1>11, <1>12, <1>13,
     <1>14, <1>15 DEF Next, Control, FrameCallback, CtrlCallback

\* Every variable has its type in every reachable state; the counters wrap.
THEOREM TypeCorrect == Spec => []TypeOK
BY InitTypes, TypeStep, PTL DEF Spec

-----------------------------------------------------------------------------
(* The loan                                                                 *)

\* What is on loan exists, and the frontend's request under way leaves it alone.
Loans ==
    /\ Queued \subseteq Created
    /\ ctl.op = "destroy" => ctl.index \notin Queued
    /\ ctl.op = "create" => ctl.index \notin Created

\* While the event thread is in the callback it holds mLock, and its buffer is
\* the first on loan.
Callback ==
    cb # Away => /\ life = "listening"
                 /\ mLock = "event"
                 /\ handlerLock = "event"
                 /\ mQueuedBuffers # <<>>
                 /\ cb.index = Head(mQueuedBuffers)

\* So is another frontend's control thread, which holds the handler's lock.
PeerCallback == handlerLock = "peer" => life = "listening"

LoanInv == TypeOK /\ Loans /\ Callback /\ PeerCallback

LEMMA QueuedAppends ==
    ASSUME NEW S, NEW s \in Seq(S), NEW i
    PROVE  {Append(s, i)[k] : k \in DOMAIN Append(s, i)} \subseteq {s[k] : k \in DOMAIN s} \cup {i}
OBVIOUS

LEMMA WithoutKeeps ==
    ASSUME NEW S, NEW s \in Seq(S), NEW n \in DOMAIN s
    PROVE  {Without(s, n)[k] : k \in DOMAIN Without(s, n)} \subseteq {s[k] : k \in DOMAIN s}
<1>1. /\ Len(s) \in Nat /\ DOMAIN s = 1..Len(s) /\ n \in 1..Len(s)
      /\ DOMAIN Without(s, n) = 1..(Len(s) - 1)
  BY WithoutShrinks
<1>2. ASSUME NEW k \in 1..(Len(s) - 1)
      PROVE  \E m \in 1..Len(s) : Without(s, n)[k] = s[m]
  <2>1. Without(s, n)[k] = IF k < n THEN s[k] ELSE s[k + 1]
    BY WithoutShrinks
  <2>2. k \in 1..Len(s) /\ k + 1 \in 1..Len(s)
    BY <1>1
  <2> QED
    BY <2>1, <2>2
<1> QED
  BY <1>1, <1>2

LEMMA HeadQueued ==
    ASSUME TypeOK, mQueuedBuffers # <<>>
    PROVE  Head(mQueuedBuffers) \in Queued
BY DEF TypeOK, Queued

LEMMA LoanStep == LoanInv /\ [Next]_vars => Loans' /\ Callback' /\ PeerCallback'
<1> SUFFICES ASSUME LoanInv, [Next]_vars PROVE Loans' /\ Callback' /\ PeerCallback'
  OBVIOUS
<1> USE DEF LoanInv, Loans, Callback, PeerCallback, countVars, lockVars, cbVars, ringVars,
            bufVars, Serves, Answer, Created
<1>0. CASE Listen \/ Unlisten \/ Destroy
  BY <1>0 DEF Listen, Unlisten, Destroy, Queued
<1>1. CASE BufRequest
  BY <1>1 DEF BufRequest, Queued
<1>2. CASE BufCreated \/ BufCreateFails
  BY <1>2 DEF BufCreated, BufCreateFails, Queued, Idle
<1>3. CASE BufDestroyed
  BY <1>3 DEF BufDestroyed, Queued, Idle
<1>4. CASE BufRelease
  BY <1>4 DEF BufRelease, Queued, Idle
<1>5. CASE StreamStart \/ StreamStarted
  BY <1>5 DEF StreamStart, StreamStarted, Queued, Idle
<1>6. ASSUME NEW i \in Indices, BufCreate(i) \/ BufDestroy(i) PROVE Loans' /\ Callback' /\ PeerCallback'
  BY <1>6 DEF BufCreate, BufDestroy, Queued
<1>7. ASSUME NEW i \in Indices, BufQueue(i) PROVE Loans' /\ Callback' /\ PeerCallback'
  <2>1. Queued' \subseteq Queued \cup {i}
    BY <1>7, QueuedAppends DEF BufQueue, Queued, TypeOK
  <2>2. cb = Away
    BY <1>7 DEF BufQueue
  <2> QED
    BY <1>7, <2>1, <2>2 DEF BufQueue, Idle
<1>8. ASSUME NEW i \in Indices, BufDequeue(i) PROVE Loans' /\ Callback' /\ PeerCallback'
  <2>1. Queued' \subseteq Queued
    BY <1>8, WithoutKeeps DEF BufDequeue, Queued, TypeOK
  <2>2. cb = Away
    BY <1>8 DEF BufDequeue
  <2> QED
    BY <1>8, <2>1, <2>2 DEF BufDequeue, Idle
<1>9. CASE FrameBegin
  BY <1>9 DEF FrameBegin, Queued
<1>10. CASE FrameNumber
  BY <1>10 DEF FrameNumber, Queued, Away
<1>11. CASE FrameCount \/ FrameCopy
  <2>1. cb # Away /\ cb'.index = cb.index
    BY <1>11 DEF FrameCount, FrameCopy, TypeOK, CbStates, Away
  <2> QED
    BY <1>11, <2>1 DEF FrameCount, FrameCopy, Queued
<1>12. CASE FrameSend
  BY <1>12 DEF FrameSend, Queued
<1>13. CASE CtrlBegin \/ CtrlSend
  BY <1>13 DEF CtrlBegin, CtrlSend, Queued
<1>14. CASE UNCHANGED vars \/ Gone
  BY <1>14 DEF vars, Gone, Queued
<1> QED
  BY <1>0, <1>1, <1>2, <1>3, <1>4, <1>5, <1>6, <1>7, <1>8, <1>9, <1>10, <1>11, <1>12, <1>13,
     <1>14 DEF Next, Control, FrameCallback, CtrlCallback

\* A frame goes into a buffer that exists and whose entry nobody writes, for any
\* number of buffers.
THEOREM FramesIntoLiveBuffers == Spec => []FrameIntoLiveBuffer
<1>1. Init => LoanInv
  BY InitTypes DEF Init, LoanInv, Loans, Callback, PeerCallback, Queued, Idle, Created
<1>2. LoanInv /\ [Next]_vars => LoanInv'
  BY TypeStep, LoanStep DEF LoanInv
<1>3. LoanInv => FrameIntoLiveBuffer
  BY HeadQueued DEF LoanInv, Loans, Callback, FrameIntoLiveBuffer, Away
<1> QED
  BY <1>1, <1>2, <1>3, PTL DEF Spec

\* Neither callback is in the handler when its destructor goes on: listenerReset()
\* waits for the lock both hold.
THEOREM CallbacksAreAlive == Spec => []CallbacksFindHandler
<1>1. Init => LoanInv
  BY InitTypes DEF Init, LoanInv, Loans, Callback, PeerCallback, Queued, Idle, Created
<1>2. LoanInv /\ [Next]_vars => LoanInv'
  BY TypeStep, LoanStep DEF LoanInv
<1>3. LoanInv => CallbacksFindHandler
  BY DEF LoanInv, Callback, PeerCallback, CallbacksFindHandler
<1> QED
  BY <1>1, <1>2, <1>3, PTL DEF Spec

-----------------------------------------------------------------------------
(* The book                                                                 *)

\* A buffer is created only under a booking, and given up only after the last.
BookInv ==
    /\ BookedWhileCreated
    /\ ctl.op = "create" => booked
    /\ ctl.op = "release" => mBuffers = {}

LEMMA BookStep == BookInv /\ [Next]_vars => BookInv'
<1> SUFFICES ASSUME BookInv, [Next]_vars PROVE BookInv'
  OBVIOUS
<1> USE DEF BookInv, BookedWhileCreated, Idle, countVars, lockVars, cbVars, ringVars, bufVars,
        Serves, Answer
<1>0. CASE Listen \/ Unlisten \/ Destroy
  BY <1>0 DEF Listen, Unlisten, Destroy
<1>1. CASE BufRequest \/ BufCreated \/ BufCreateFails \/ BufDestroyed \/ BufRelease
  BY <1>1 DEF BufRequest, BufCreated, BufCreateFails, BufDestroyed, BufRelease
<1>2. CASE StreamStart \/ StreamStarted
  BY <1>2 DEF StreamStart, StreamStarted
<1>3. ASSUME NEW i \in Indices, BufCreate(i) \/ BufDestroy(i) \/ BufQueue(i) \/ BufDequeue(i)
      PROVE  BookInv'
  BY <1>3 DEF BufCreate, BufDestroy, BufQueue, BufDequeue
<1>4. CASE FrameCallback
  BY <1>4 DEF FrameCallback, FrameBegin, FrameNumber, FrameCount, FrameCopy, FrameSend
<1>5. CASE CtrlCallback
  BY <1>5 DEF CtrlCallback, CtrlBegin, CtrlSend
<1>6. CASE UNCHANGED vars \/ Gone
  BY <1>6 DEF vars, Gone
<1> QED
  BY <1>0, <1>1, <1>2, <1>3, <1>4, <1>5, <1>6 DEF Next, Control

\* CameraHandler counts a frontend that has buffers, although bufDestroy() takes
\* the buffer out in one step and tells CameraHandler in another.
THEOREM BookedAsLongAsNeeded == Spec => []BookedWhileCreated
<1>1. Init => BookInv
  BY DEF Init, BookInv, BookedWhileCreated, Idle
<1>2. BookInv => BookedWhileCreated
  BY DEF BookInv
<1> QED
  BY <1>1, <1>2, BookStep, PTL DEF Spec

-----------------------------------------------------------------------------
(* Numbers                                                                  *)

\* The frame callback has read its numbers.
Numbered == cb.pc \in {"count", "copy", "send"}

\* Only one thread is between the read of mEventId and the event on the ring:
\* whoever holds the handler's lock.
IdInv ==
    /\ EventIdsConsecutive
    /\ cb # Away => handlerLock = "event"
    /\ handlerLock = "peer" => peerId = mEventId
    /\ Numbered => mEventId = (cb.id + 1) % IdMod
    /\ ids # <<>> => (IF Numbered THEN cb.id ELSE mEventId) = (ids[Len(ids)] + 1) % IdMod

\* An event with the next number keeps the ring consecutive.
LEMMA NextIdFollows ==
    ASSUME TypeOK, EventIdsConsecutive, NEW n \in Ids, ids' = Append(ids, n),
           ids # <<>> => n = (ids[Len(ids)] + 1) % IdMod
    PROVE  EventIdsConsecutive' /\ ids' # <<>> /\ ids'[Len(ids')] = n
<1>1. /\ Len(ids) \in Nat /\ Len(ids') = Len(ids) + 1 /\ ids' # <<>>
      /\ ids'[Len(ids) + 1] = n
      /\ \A k \in 1..Len(ids) : ids'[k] = ids[k]
  BY DEF TypeOK
<1>2. ASSUME NEW k \in 1..Len(ids) PROVE ids'[k + 1] = (ids'[k] + 1) % IdMod
  <2>1. CASE k = Len(ids)
    <3>1. ids # <<>>
      BY <1>1, <2>1
    <3> QED
      BY <1>1, <2>1, <3>1
  <2>2. CASE k # Len(ids)
    <3>1. k \in 1..(Len(ids) - 1) /\ k + 1 \in 1..Len(ids)
      BY <1>1, <2>2
    <3> QED
      BY <1>1, <3>1 DEF EventIdsConsecutive
  <2> QED
    BY <2>1, <2>2
<1> QED
  BY <1>1, <1>2 DEF EventIdsConsecutive

LEMMA IdStep == TypeOK /\ IdInv /\ [Next]_vars => IdInv'
<1> SUFFICES ASSUME TypeOK, IdInv, [Next]_vars PROVE IdInv'
  OBVIOUS
<1> USE DEF IdInv, Numbered, countVars, lockVars, cbVars, ringVars, bufVars, Serves, Answer
<1>1. CASE Control
  <2>1. UNCHANGED <<mEventId, handlerLock, cbVars>>
    BY <1>1 DEF Control, Listen, Unlisten, Destroy, BufRequest, BufCreated, BufCreateFails,
                BufDestroyed, BufRelease, StreamStart,
                StreamStarted, BufCreate, BufDestroy, BufQueue, BufDequeue
  <2> QED
    BY <2>1 DEF EventIdsConsecutive
<1>2. CASE FrameBegin
  BY <1>2 DEF FrameBegin, EventIdsConsecutive, Away
<1>3. CASE FrameNumber
  BY <1>3 DEF FrameNumber, EventIdsConsecutive, Away
<1>4. CASE FrameCount \/ FrameCopy
  <2>1. Numbered /\ Numbered' /\ cb'.id = cb.id /\ cb # Away
    BY <1>4 DEF FrameCount, FrameCopy, TypeOK, CbStates, Away
  <2> QED
    BY <1>4, <2>1 DEF FrameCount, FrameCopy, EventIdsConsecutive
<1>5. CASE FrameSend
  <2>1. cb.id \in Ids
    BY <1>5 DEF FrameSend, TypeOK, CbStates, Away, Ids
  <2>2. EventIdsConsecutive' /\ ids' # <<>> /\ ids'[Len(ids')] = cb.id
    BY <1>5, <2>1, NextIdFollows DEF FrameSend
  <2> QED
    BY <1>5, <2>2 DEF FrameSend, Away
<1>6. CASE CtrlBegin
  BY <1>6 DEF CtrlBegin, EventIdsConsecutive
<1>7. CASE CtrlSend
  <2>1. cb = Away /\ peerId \in Ids
    BY <1>7 DEF CtrlSend, TypeOK, Ids
  <2>2. EventIdsConsecutive' /\ ids' # <<>> /\ ids'[Len(ids')] = peerId
    BY <1>7, <2>1, NextIdFollows DEF CtrlSend, Away
  <2> QED
    BY <1>7, <2>1, <2>2 DEF CtrlSend, Away
<1>8. CASE UNCHANGED vars \/ Gone
  BY <1>8 DEF vars, Gone, EventIdsConsecutive
<1> QED
  BY <1>1, <1>2, <1>3, <1>4, <1>5, <1>6, <1>7, <1>8 DEF Next, FrameCallback, CtrlCallback

\* The ids of a frontend's events have no gap and no repetition, whichever
\* thread sends them and whatever the width of the field.
THEOREM EventIdsInOrder == Spec => []EventIdsConsecutive
<1>1. Init => TypeOK /\ IdInv
  BY InitTypes DEF Init, IdInv, EventIdsConsecutive, Numbered, Away
<1>2. TypeOK /\ IdInv /\ [Next]_vars => (TypeOK /\ IdInv)'
  BY TypeStep, IdStep
<1>3. TypeOK /\ IdInv => EventIdsConsecutive
  BY DEF IdInv
<1> QED
  BY <1>1, <1>2, <1>3, PTL DEF Spec

\* The number a frame may have after those sent.
NextSeqs == {0, (frames[Len(frames)].seq + 1) % SeqMod}

\* The number of the frame under way, or else the counter, may come next; once
\* the counter is written back it is the frame's number plus one, or was reset.
SeqInv ==
    /\ SequenceHasNoGaps
    /\ frames # <<>> => (IF Numbered THEN cb.seq ELSE mSequence) \in NextSeqs
    /\ cb.pc \in {"copy", "send"} => mSequence \in {0, (cb.seq + 1) % SeqMod}

\* A frame whose number may come next leaves no gap.
LEMMA NextSeqFollows ==
    ASSUME TypeOK, SequenceHasNoGaps, NEW e \in FrameEvents, frames' = Append(frames, e),
           frames # <<>> => e.seq \in NextSeqs
    PROVE  SequenceHasNoGaps' /\ frames' # <<>> /\ frames'[Len(frames')] = e
<1>1. /\ Len(frames) \in Nat /\ Len(frames') = Len(frames) + 1 /\ frames' # <<>>
      /\ frames'[Len(frames) + 1] = e
      /\ \A k \in 1..Len(frames) : frames'[k] = frames[k]
  BY DEF TypeOK
<1>2. ASSUME NEW k \in 1..Len(frames)
      PROVE  frames'[k + 1].seq \in {0, (frames'[k].seq + 1) % SeqMod}
  <2>1. CASE k = Len(frames)
    <3>1. frames # <<>>
      BY <1>1, <2>1
    <3> QED
      BY <1>1, <2>1, <3>1 DEF NextSeqs
  <2>2. CASE k # Len(frames)
    <3>1. k \in 1..(Len(frames) - 1) /\ k + 1 \in 1..Len(frames)
      BY <1>1, <2>2
    <3> QED
      BY <1>1, <3>1 DEF SequenceHasNoGaps
  <2> QED
    BY <2>1, <2>2
<1> QED
  BY <1>1, <1>2 DEF SequenceHasNoGaps

LEMMA SeqStep == TypeOK /\ SeqInv /\ [Next]_vars => SeqInv'
<1> SUFFICES ASSUME TypeOK, SeqInv, [Next]_vars PROVE SeqInv'
  OBVIOUS
<1> USE DEF SeqInv, Numbered, countVars, lockVars, cbVars, ringVars, bufVars, Serves, Answer
<1>1. CASE StreamStart
  BY <1>1 DEF StreamStart, SequenceHasNoGaps, NextSeqs
<1>2. CASE Control /\ ~StreamStart
  <2>1. UNCHANGED <<mSequence, cbVars>>
    BY <1>2 DEF Control, Listen, Unlisten, Destroy, BufRequest, BufCreated, BufCreateFails,
                BufDestroyed, BufRelease, StreamStarted,
                BufCreate, BufDestroy, BufQueue, BufDequeue
  <2> QED
    BY <2>1 DEF SequenceHasNoGaps, NextSeqs
<1>3. CASE FrameBegin
  BY <1>3 DEF FrameBegin, SequenceHasNoGaps, NextSeqs, Away
<1>4. CASE FrameNumber
  BY <1>4 DEF FrameNumber, SequenceHasNoGaps, NextSeqs, Away
<1>5. CASE FrameCount \/ FrameCopy
  <2>1. Numbered /\ Numbered' /\ cb'.seq = cb.seq /\ UNCHANGED frames
    BY <1>5 DEF FrameCount, FrameCopy, TypeOK, CbStates, Away
  <2>2. mSequence' \in {0, (cb.seq + 1) % SeqMod}
    BY <1>5 DEF FrameCount, FrameCopy
  <2> QED
    BY <2>1, <2>2 DEF SequenceHasNoGaps, NextSeqs
<1>6. CASE FrameSend
  <2> DEFINE e == [index |-> cb.index, seq |-> cb.seq]
  <2>1. e \in FrameEvents
    BY <1>6 DEF FrameSend, TypeOK, CbStates, Away, FrameEvents
  <2>2. SequenceHasNoGaps' /\ frames' # <<>> /\ frames'[Len(frames')] = e
    BY <1>6, <2>1, NextSeqFollows DEF FrameSend
  <2> QED
    BY <1>6, <2>2 DEF FrameSend, Away, NextSeqs
<1>7. CASE CtrlCallback
  BY <1>7 DEF CtrlCallback, CtrlBegin, CtrlSend, SequenceHasNoGaps, NextSeqs
<1>8. CASE UNCHANGED vars \/ Gone
  BY <1>8 DEF vars, Gone, SequenceHasNoGaps, NextSeqs
<1> QED
  BY <1>1, <1>2, <1>3, <1>4, <1>5, <1>6, <1>7, <1>8 DEF Next, FrameCallback

\* Sequence numbers have no gaps although streamStart() resets the counter under
\* no lock, for any width of the counter.
THEOREM FramesInSequence == Spec => []SequenceHasNoGaps
<1>1. Init => TypeOK /\ SeqInv
  BY InitTypes DEF Init, SeqInv, SequenceHasNoGaps, Numbered, Away
<1>2. TypeOK /\ SeqInv /\ [Next]_vars => (TypeOK /\ SeqInv)'
  BY TypeStep, SeqStep
<1>3. TypeOK /\ SeqInv => SequenceHasNoGaps
  BY DEF SeqInv
<1> QED
  BY <1>1, <1>2, <1>3, PTL DEF Spec

-----------------------------------------------------------------------------
(* The refinement                                                           *)

\* The buffers of a sequence of frame events.
Indexed(s) == [k \in 1..Len(s) |-> s[k].index]

LEMMA IndexedIsSeq ==
    ASSUME NEW s \in Seq(FrameEvents)
    PROVE  Indexed(s) \in Seq(Indices) /\ Len(Indexed(s)) = Len(s)
<1>1. Len(s) \in Nat /\ \A k \in 1..Len(s) : s[k].index \in Indices
  <2>1. Len(s) \in Nat
    OBVIOUS
  <2>2. ASSUME NEW k \in 1..Len(s) PROVE s[k].index \in Indices
    <3>1. s[k] \in FrameEvents
      BY ElementOfSeq
    <3> QED
      BY <3>1 DEF FrameEvents
  <2> QED
    BY <2>1, <2>2
<1>2. Indexed(s) \in [1..Len(s) -> Indices]
  BY <1>1 DEF Indexed
<1>3. Indexed(s) \in Seq(Indices)
  BY <1>1, <1>2
<1>4. DOMAIN Indexed(s) = 1..Len(s)
  BY DEF Indexed
<1> QED
  BY <1>1, <1>3, <1>4, LenProperties

LEMMA ReportsGrow ==
    ASSUME NEW s \in Seq(FrameEvents), NEW e \in FrameEvents
    PROVE  Indexed(Append(s, e)) = Append(Indexed(s), e.index)
<1> DEFINE t == Append(s, e)
           u == Append(Indexed(s), e.index)
<1>1. /\ Len(s) \in Nat /\ t \in Seq(FrameEvents) /\ Len(t) = Len(s) + 1
      /\ t[Len(s) + 1] = e
      /\ \A k \in 1..Len(s) : t[k] = s[k]
  OBVIOUS
<1>2. /\ u \in Seq(Indices) /\ Len(u) = Len(s) + 1
      /\ u[Len(s) + 1] = e.index
      /\ \A k \in 1..Len(s) : u[k] = Indexed(s)[k]
  <2>1. Indexed(s) \in Seq(Indices) /\ Len(Indexed(s)) = Len(s) /\ e.index \in Indices
    BY IndexedIsSeq DEF FrameEvents
  <2> QED
    BY <1>1, <2>1, AppendProperties
<1> HIDE DEF t, u
<1>3. Indexed(t) \in Seq(Indices) /\ Len(Indexed(t)) = Len(s) + 1
  BY <1>1, IndexedIsSeq
<1>4. ASSUME NEW k \in 1..(Len(s) + 1) PROVE Indexed(t)[k] = u[k]
  <2>1. Indexed(t)[k] = t[k].index
    BY <1>1 DEF Indexed
  <2>2. CASE k = Len(s) + 1
    BY <1>1, <1>2, <2>1, <2>2
  <2>3. CASE k \in 1..Len(s)
    BY <1>1, <1>2, <2>1, <2>3 DEF Indexed
  <2> QED
    BY <1>1, <2>2, <2>3
<1>5. Indexed(t) = u
  BY <1>1, <1>2, <1>3, <1>4, SeqEqual
<1> QED
  BY <1>5 DEF t, u

LEMMA LoanStepImplemented ==
    LoanInv /\ [Next]_vars => [Loan!Next]_(Loan!loanVars)
<1> SUFFICES ASSUME LoanInv, [Next]_vars PROVE [Loan!Next]_(Loan!loanVars)
  OBVIOUS
<1> USE DEF Loan!loanVars, countVars, lockVars, cbVars, ringVars, bufVars, Serves, Answer
<1>1. ASSUME NEW i \in Indices, BufQueue(i) PROVE Loan!Lend(i)
  BY <1>1 DEF BufQueue, Loan!Lend, Loan!OnLoan, Queued
<1>2. ASSUME NEW i \in Indices, BufDequeue(i) PROVE Loan!TakeBack(i)
  <2>1. cb.pc # "send"
    BY <1>2 DEF BufDequeue, LoanInv, Callback, Away
  <2> QED
    BY <1>2, <2>1 DEF BufDequeue, Loan!TakeBack, Without
<1>3. CASE FrameCopy
  <2>1. cb # Away /\ cb'.pc = "send" /\ cb'.index = cb.index
    BY <1>3 DEF FrameCopy, LoanInv, TypeOK, CbStates, Away
  <2> QED
    BY <1>3, <2>1 DEF FrameCopy, Loan!Fill, Loan!Next, LoanInv, Callback
<1>4. CASE FrameSend
  <2> DEFINE e == [index |-> cb.index, seq |-> cb.seq]
  <2>1. e \in FrameEvents
    BY <1>4 DEF FrameSend, LoanInv, TypeOK, CbStates, Away, FrameEvents
  <2>2. frames \in Seq(FrameEvents) /\ frames' = Append(frames, e)
    BY <1>4 DEF FrameSend, LoanInv, TypeOK
  <2>3. Indexed(frames)' = Append(Indexed(frames), cb.index)
    BY <2>1, <2>2, ReportsGrow
  <2> QED
    BY <1>4, <2>3 DEF FrameSend, Loan!Report, Loan!Next, Indexed, Away
<1>0. CASE Destroy
  <2>1. cb = Away
    BY <1>0 DEF Destroy, LoanInv, Callback
  <2> QED
    BY <1>0, <2>1 DEF Destroy, Loan!Close, Loan!Next, Away
<1>5. CASE \/ Listen \/ Unlisten \/ BufRequest \/ BufCreated \/ BufCreateFails
           \/ BufDestroyed \/ BufRelease \/ StreamStart
           \/ StreamStarted \/ (\E i \in Indices : BufCreate(i) \/ BufDestroy(i))
  BY <1>5 DEF Listen, Unlisten, BufRequest, BufCreated, BufCreateFails, BufDestroyed,
              BufRelease, StreamStart, StreamStarted, BufCreate, BufDestroy
<1>6. CASE FrameBegin
  BY <1>6 DEF FrameBegin, Away
<1>7. CASE FrameNumber
  BY <1>7 DEF FrameNumber
<1>8. CASE FrameCount
  <2>1. cb.pc # "send" /\ cb'.pc # "send"
    BY <1>8 DEF FrameCount, LoanInv, TypeOK, CbStates, Away
  <2> QED
    BY <1>8, <2>1 DEF FrameCount
<1>9. CASE CtrlCallback
  BY <1>9 DEF CtrlCallback, CtrlBegin, CtrlSend
<1>10. CASE UNCHANGED vars \/ Gone
  BY <1>10 DEF vars, Gone
<1> QED
  BY <1>0, <1>1, <1>2, <1>3, <1>4, <1>5, <1>6, <1>7, <1>8, <1>9, <1>10
     DEF Next, Control, FrameCallback, Loan!Next

\* CommandHandler keeps the promise about the frontend's buffers, with any
\* number of buffers: the first on loan is filled, and each filling is reported
\* before the buffer can be taken back.
THEOREM LoanImplemented == Spec => LoanSpec
<1>1. Init => LoanInv
  BY InitTypes DEF Init, LoanInv, Loans, Callback, PeerCallback, Queued, Idle, Created
<1>2. LoanInv /\ [Next]_vars => LoanInv'
  BY TypeStep, LoanStep DEF LoanInv
<1>3. Init => Loan!Init
  BY DEF Init, Loan!Init, Away
<1> QED
  BY <1>1, <1>2, <1>3, LoanStepImplemented, PTL DEF Spec, LoanSpec, Loan!Spec

LEMMA PortStep == LoanInv /\ [Next]_vars => [Port!Next]_(Port!portVars)
<1> SUFFICES ASSUME LoanInv, [Next]_vars PROVE [Port!Next]_(Port!portVars)
  OBVIOUS
<1> USE DEF Port!portVars, countVars, lockVars, cbVars, ringVars, bufVars, Serves, Answer,
            LoanInv, Callback, PeerCallback
<1>1. CASE Listen
  BY <1>1 DEF Listen, Port!Next, Port!Arrive
<1>2. CASE Unlisten
  BY <1>2 DEF Unlisten, Port!Next, Port!Leave
<1>3. CASE FrameBegin \/ CtrlBegin
  BY <1>3 DEF FrameBegin, CtrlBegin, Port!Next, Port!Call, Away
<1>4. CASE FrameNumber \/ FrameCount \/ FrameCopy
  <2>1. cb # Away /\ cb' # Away
    BY <1>4 DEF FrameNumber, FrameCount, FrameCopy, TypeOK, CbStates, Away
  <2> QED
    BY <1>4, <2>1 DEF FrameNumber, FrameCount, FrameCopy
<1>5. CASE FrameSend
  <2>1. cb # Away /\ cb' = Away
    BY <1>5 DEF FrameSend, Away
  <2> QED
    BY <1>5, <2>1 DEF FrameSend, Port!Next, Port!Return
<1>6. CASE CtrlSend
  BY <1>6 DEF CtrlSend, Port!Next, Port!Return
<1>7. CASE Destroy
  BY <1>7 DEF Destroy
<1>8. CASE UNCHANGED <<life, cb, handlerLock>>
  BY <1>8
<1> QED
  BY <1>1, <1>2, <1>3, <1>4, <1>5, <1>6, <1>7, <1>8
  DEF Next, Control, FrameCallback, CtrlCallback, Gone, vars, BufRequest, BufCreate, BufCreated,
      BufCreateFails, BufDestroy, BufDestroyed, BufRelease, BufQueue, BufDequeue, StreamStart,
      StreamStarted

\* CommandHandler is written against the port CameraHandler shows each of its listeners,
\* as CameraHandlerProofs proves of the frame callback: neither module assumes of the
\* other what that one does not keep (CommandHandler.cpp:109-125).
THEOREM PortImplemented == Spec => PortSpec
<1>1. Init => LoanInv
  BY InitTypes DEF Init, LoanInv, Loans, Callback, PeerCallback, Queued, Idle, Created
<1>2. LoanInv /\ [Next]_vars => LoanInv'
  BY TypeStep, LoanStep DEF LoanInv
<1>3. Init => Port!Init
  BY DEF Init, Port!Init, Away
<1> QED
  BY <1>1, <1>2, <1>3, PortStep, PTL DEF Spec, PortSpec, Port!Spec
=============================================================================

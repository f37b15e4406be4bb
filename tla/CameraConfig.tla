---------------------------- MODULE CameraConfig ----------------------------
(***************************************************************************)
(* The capture format and the frame rate of one camera, which all its       *)
(* frontends share: the configuration requests of CameraHandler and what    *)
(* they make Camera ask of the device.  Each request runs under mLock from  *)
(* beginning to end, so each is one action, but for BUF_CREATE, which reads  *)
(* the image size under mLock and builds a FrontendBuffer for it afterwards. *)
(*                                                                         *)
(* The device (external) changes a format it does not support to one it     *)
(* does, may reset its frame rate with it, and refuses S_FMT while it has   *)
(* buffers.                                                                 *)
(* It has them from the first REQBUFS on: streamRelease() unmaps them and   *)
(* does not give them back.                                                 *)
(*                                                                         *)
(* Without hardware every request answers zeroes and changes nothing.       *)
(***************************************************************************)
EXTENDS FrontendBuffer, FiniteSets

CONSTANTS
    Formats,         \* formats the device supports
    Requests,        \* formats a frontend may ask for
    Adjust,          \* what the device makes of a request
    ImageSize,       \* the size of an image of a format
    Rates,           \* frame rates
    HandlerCounts    \* how many CameraHandlers the process may have

ASSUME ConfigAssumption ==
    /\ Adjust \in [Requests -> Formats]
    /\ ImageSize \in [Formats -> Nat]
    /\ HandlerCounts \subseteq Nat \ {0}

VARIABLES
    dom_cnt,            \* the number of CameraHandlers alive, this one included
    fmt,                \* the device's format
    rate,               \* the device's frame rate
    mFormatSet,
    mFramerateSet,
    mBuffersAllocated,  \* frontends that requested buffers
    hwBusy,             \* the device has buffers
    told,               \* the format each frontend's last CONFIG_SET was answered
    layout              \* the image size each frontend was told by BUF_GET_LAYOUT, and
                        \* whether it had been told a format before

\* No answer yet.
None == "none"

vars == <<dom_cnt, fmt, rate, mFormatSet, mFramerateSet, mBuffersAllocated, hwBusy,
          told, layout, bufferVars>>
rateVars == <<rate, mFramerateSet>>
bufVars == <<mBuffersAllocated, hwBusy, layout, bufferVars>>

Untold == [size |-> 0, agreed |-> FALSE]

TypeOK ==
    /\ dom_cnt \in HandlerCounts
    /\ fmt \in Formats
    /\ rate \in Rates
    /\ mFormatSet \in BOOLEAN
    /\ mFramerateSet \in BOOLEAN
    /\ mBuffersAllocated \subseteq Doms
    /\ hwBusy \in BOOLEAN
    /\ told \in [Doms -> Formats \cup {None}]
    /\ layout \in [Doms -> [size : Nat, agreed : BOOLEAN]]
    /\ BuffersTypeOK

Init ==
    /\ dom_cnt \in HandlerCounts
    /\ fmt \in Formats
    /\ rate \in Rates
    /\ mFormatSet = FALSE
    /\ mFramerateSet = FALSE
    /\ mBuffersAllocated = {}
    /\ hwBusy = FALSE
    /\ told = [d \in Doms |-> None]
    /\ layout = [d \in Doms |-> Untold]
    /\ BuffersInit

\* A frontend's command thread serves one request at a time.
Serves(d) == stage[d] # "walking"

\* Handlers of other cameras are created and destroyed: the constructor and the
\* destructor count, for the whole process.
OtherHandlers ==
    /\ dom_cnt' \in HandlerCounts
    /\ UNCHANGED <<fmt, rateVars, mFormatSet, bufVars, told>>

-----------------------------------------------------------------------------
(* Format                                                                   *)

\* formatSet(): S_FMT, which may reset the device's frame rate.
FormatSet(f) == ~hwBusy /\ fmt' = Adjust[f] /\ rate' \in Rates

\* Mutant: the latch is forgotten.
ConfigSetNoLatch(d, f) ==
    /\ Serves(d)
    /\ ~mFormatSet
    /\ FormatSet(f)
    /\ told' = [told EXCEPT ![d] = fmt']
    /\ UNCHANGED <<dom_cnt, mFramerateSet, mFormatSet, bufVars>>

\* configSet() that goes to the device, and is answered with what it made of it.
ConfigSet(d, f) ==
    /\ Serves(d)
    /\ ~mFormatSet
    /\ FormatSet(f)
    /\ told' = [told EXCEPT ![d] = fmt']
    /\ mFormatSet' = (dom_cnt > 1)
    /\ UNCHANGED <<dom_cnt, mFramerateSet, bufVars>>

\* The device took the format and configToXen() throws (the device does not tell,
\* or the colour space has no name in Xen): the frontend gets an error, and nothing
\* remembers that the format was set.
ConfigSetUntold(d, f) ==
    /\ Serves(d)
    /\ ~mFormatSet
    /\ FormatSet(f)
    /\ UNCHANGED <<dom_cnt, mFramerateSet, mFormatSet, told, bufVars>>

\* configSet() after the format was set: the current format is the answer.
\* S_FMT refused, or an answer that fails here, is an error that changes nothing;
\* CONFIG_GET and CONFIG_VALIDATE change nothing either.
ConfigSetEmulated(d) ==
    /\ Serves(d)
    /\ mFormatSet
    /\ told' = [told EXCEPT ![d] = fmt]
    /\ UNCHANGED <<dom_cnt, fmt, rateVars, mFormatSet, bufVars>>

-----------------------------------------------------------------------------
(* Frame rate                                                               *)

\* frameRateSet() that goes to the device; every later one succeeds silently and
\* changes nothing.
FrameRateSet(d, r) ==
    /\ Serves(d)
    /\ ~mFramerateSet
    /\ rate' = r
    /\ mFramerateSet' = TRUE
    /\ UNCHANGED <<dom_cnt, fmt, mFormatSet, told, bufVars>>

-----------------------------------------------------------------------------
(* Buffers, as far as the format depends on them                            *)

\* bufGetLayout(): the frontend is told the size of an image.
BufGetLayout(d) ==
    /\ Serves(d)
    /\ layout' = [layout EXCEPT ![d] = [size |-> ImageSize[fmt], agreed |-> told[d] # None]]
    /\ UNCHANGED <<dom_cnt, fmt, rateVars, mFormatSet, told, mBuffersAllocated, hwBusy,
                   bufferVars>>

\* bufRequest(): the first frontend makes the device allocate.
BufRequest(d) ==
    /\ Serves(d)
    /\ d \notin mBuffersAllocated
    /\ mBuffersAllocated' = mBuffersAllocated \cup {d}
    /\ hwBusy' = TRUE
    /\ UNCHANGED <<dom_cnt, fmt, rateVars, mFormatSet, told, layout, bufferVars>>

\* CommandHandler::bufCreate(): bufGetImageSize() reads, under mLock, the image size
\* of the format the device has now, and the constructor of the buffer begins.  The
\* frontend granted pages for an image as large as it was told.
BufCreate(d, o) ==
    /\ d \in mBuffersAllocated
    /\ layout[d] # Untold
    /\ InitBuffer(d, ImageSize[fmt], o, Grefs(layout[d].size + o), layout[d].agreed)
    /\ UNCHANGED <<dom_cnt, fmt, rateVars, mFormatSet, told, mBuffersAllocated, hwBusy,
                   layout>>

\* The rest of the constructor, without mLock.
BuildBuffer(d) ==
    /\ WalkPage(d) \/ MapRefs(d) \/ InitThrows(d)
    /\ UNCHANGED <<dom_cnt, fmt, rateVars, mFormatSet, told, mBuffersAllocated, hwBusy,
                   layout>>

\* Mutant: the device's buffers are given back when any frontend is done.
BufReleaseFrees(d) ==
    /\ d \in mBuffersAllocated
    /\ mBuffersAllocated' = mBuffersAllocated \ {d}
    /\ ReleaseBuffer(d)
    /\ hwBusy' = FALSE
    /\ UNCHANGED <<dom_cnt, fmt, rateVars, mFormatSet, told, layout>>

\* CommandHandler::bufDestroy() of the last buffer, and bufRelease(), which
\* leaves the device its buffers.
BufRelease(d) ==
    /\ d \in mBuffersAllocated
    /\ mBuffersAllocated' = mBuffersAllocated \ {d}
    /\ ReleaseBuffer(d)
    /\ UNCHANGED <<dom_cnt, fmt, rateVars, mFormatSet, told, layout, hwBusy>>

-----------------------------------------------------------------------------
Next ==
    \/ OtherHandlers
    \/ \E d \in Doms, f \in Requests : ConfigSet(d, f) \/ ConfigSetUntold(d, f)
    \/ \E d \in Doms : ConfigSetEmulated(d) \/ BufGetLayout(d) \/ BufRequest(d)
    \/ \E d \in Doms, o \in Offsets : BufCreate(d, o)
    \/ \E d \in Doms : BuildBuffer(d) \/ BufRelease(d)
    \/ \E d \in Doms, r \in Rates : FrameRateSet(d, r)

Spec == Init /\ [][Next]_vars

-----------------------------------------------------------------------------
\* CameraHandler.hpp:94-99: to avoid that "frontend-1 sets format first and then
\* frontend-2 changes it to something different and there is no way to notify
\* frontend-1", "we only accept the very first set format and then emulate it to
\* the rest".  So whoever set a format and was answered has that format.
FormatAgreement == \A d \in Doms : told[d] # None => told[d] = fmt

\* The camera and its handler keep that promise as SharedFormat puts it: the format
\* the latch protects is the one all are told, the first and the last.
Shared == INSTANCE SharedFormat WITH
    Frontends <- Doms,
    accepted <- IF mFormatSet THEN fmt ELSE None

SharesFormat == Shared!Spec

\* The image size that bufCreate() reads under mLock is used after mLock is released,
\* while other frontends set formats: it stays the size of the frames, for as long as
\* the buffer it was read for exists (CommandHandler.cpp:215-219).
ImageSizeStays == \A d \in Doms : stage[d] # "none" => buf[d].size = ImageSize[fmt]

\* copyBuffer() copies a frame unchecked behind the offset (FrontendBuffer.cpp:95-100).
\* The pages of a frontend that negotiated its format hold it, whoever configured the
\* camera meanwhile.
FramesFit ==
    \A d \in Doms :
        stage[d] = "mapped" /\ buf[d].agreed =>
            buf[d].offset + ImageSize[fmt] <= 4096 * buf[d].refs

\* A frontend that reckoned with another size, because it asked for the layout before
\* any format was set, is refused its buffer when the pages it granted do not hold a
\* frame: the walk wants more references than it filled in.  It is not when those it
\* granted fill their last directory page: the walk ends there (FrontendBuffer.cpp:69)
\* and nothing compares what was collected with what was wanted.
ShortIsNoticed ==
    \A d \in Doms :
        stage[d] = "mapped" /\ buf[d].granted % 1023 # 0 =>
            /\ buf[d].offset + ImageSize[fmt] <= 4096 * buf[d].refs
            /\ buf[d].refs <= buf[d].granted

\* The walk of the directory collects exactly the references such a frontend granted
\* (FrontendBuffer.cpp:69-90): one too few and a frame does not fit, one too many and
\* the buffer of a frontend that did everything right is not mapped.
GrantsAreTaken ==
    \A d \in Doms :
        /\ stage[d] = "mapped" /\ buf[d].agreed => buf[d].refs = buf[d].granted
        /\ stage[d] = "walking" /\ buf[d].agreed /\ ~MorePages(d) =>
               buf[d].refs = buf[d].granted
=============================================================================

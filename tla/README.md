# Verification of the para-virtualized camera backend

The program (`src/`) shares V4L2 cameras of the driver domain among Xen guests ("frontends").
These TLA+ modules model its concurrent core, TLC checks them on small instances, and TLAPS
proves almost every safety property for every instance.

## 1. The system

| Component | State | Operations | Meets |
|---|---|---|---|
| `main` | return status | block and wait for SIGINT/SIGTERM, start and stop the backend | Backend |
| `Backend`, `CameraFrontendHandler` | the frontends, each with a reference to its camera handler | `onNewFrontend`, `onBind`, `onStateClosed` | CameraManager, CommandHandler |
| `CameraManager` | unique-id -> weak pointer to a CameraHandler | `getCameraHandler` | CameraHandler |
| `CommandHandler` (one per frontend) | its life, `mBuffers`, `mQueuedBuffers`, `mSequence`, `mEventId`, `mControls` | 15 requests, frame callback, control callback | its CameraHandler, the event ring |
| `CameraHandler` (one per camera) | `mListeners`, `mBuffersAllocated`, `mStreamingNow`, `mFormatSet`, `mFramerateSet`; process-wide `dom_cnt` | one method per request, frame callback | Camera, every CommandHandler |
| `Camera` | file, `mThread`, `mPollFd`, `mBuffers`, enumerated formats and controls | stream, buffer, format, rate and control calls | the V4L2 driver; callback into CameraHandler |
| `V4L2ToXen` | constant tables | conversions | used by CameraHandler and CommandHandler |
| `FrontendBuffer` | mapped pages of one frontend buffer | walk the frontend's page directory, map, `copyBuffer` | CommandHandler |
| `MediaController` | the media device, whose links and formats are the driver's | set up a pipeline, reset it | CameraHandler's constructor and destructor, libmediactl |
| `Config` | four settings read once | read a file | CameraHandler's constructor |

Threads: one per frontend, which serves its control ring one request at a time and also binds and
closes it; one event thread per streaming camera. Locks: `CameraManager::mLock`,
`CameraHandler::mLock`, `CommandHandler::mLock`, taken in this order. `Camera` has none.

What is hard about it, component by component (the list with lines is `hazards` in PROJECT.json):

- **CameraHandler with Camera.** `streamStop()` gives `mLock` up before it stops the camera, because
  the event thread it joins needs that lock; so a start can overtake a stop. The event thread exists
  before STREAMON. Buffers are unmapped on the strength of a book, not of what the thread does.
  Correct means: books, thread, driver and mappings agree; a frame is read whole, from a mapping that
  exists, for listeners that exist; stops end, and frames arrive.
- **CommandHandler.** Three threads; `mBuffers`, `mSequence` and `mEventId` have no lock of their own.
  Correct means: frames go into buffers on loan, in order, numbered without gaps.
- **Configuration and controls.** Frontends share one format, one rate, one value per control.
  Correct means: what a frontend was told stays true, or it hears of the change; it never hears of a value the
  device refused.
- **FrontendBuffer.** Walks a list of pages the frontend filled, for a size read under a lock that is
  released by then. Correct means: the pages mapped hold the frames copied into them.
- **CameraManager, and how handlers live.** A constructor has a dozen steps, each of which may fail, and
  opens devices that others may have open; a destructor runs outside the lock, beside the constructor of
  the camera's next handler. Correct means: one handler per camera, none handed out that is dying; all of the
  hardware or none; nothing left behind; constructors end, and so does the process when it is told to.
- **V4L2ToXen.** Loops that end at a sentinel.

## 2. The modules

| Module | Models | Kind |
|---|---|---|
| `Camera` | Camera.cpp 205-382 and the V4L2 capture queue (external) | operators and event-thread actions |
| `CameraHandler` | CameraHandler.cpp: listeners, buffers, streaming, frame callback; EXTENDS `Camera` and composes the two | specification; implements `FrameRelay` and `ListenerPort` |
| `FrameRelay` | what CameraHandler.cpp 112-128 and 346-377 do with a frame, as seen by listeners and driver | abstract |
| `ListenerPort` | what a camera handler and one listener rely on of each other | abstract |
| `CameraHandlerProofs` | theorems about `CameraHandler`, its two refinements among them | proofs |
| `BufferLoan` | the comment CommandHandler.hpp:64-72, as a specification | abstract |
| `CommandHandler` | CommandHandler.cpp: buffers, queue, counters, callbacks | specification; implements `BufferLoan` and `ListenerPort` |
| `CommandHandlerProofs` | theorems about `CommandHandler`, the refinement among them | proofs |
| `FrontendBuffer` | FrontendBuffer.cpp: the walk of the page directory, mapping, failure | operators and actions |
| `SharedFormat` | the comment CameraHandler.hpp:94-99, as a specification | abstract |
| `CameraConfig` | configuration requests of CameraHandler.cpp with S_FMT and S_PARM, and what BUF_GET_LAYOUT and BUF_CREATE make of the format; EXTENDS `FrontendBuffer` | specification; implements `SharedFormat` |
| `CameraConfigProofs` | theorems about `CameraConfig` and `FrontendBuffer` | proofs |
| `CameraControls` | `ctrlEnum()`, `ctrlSet()`, listeners that come and go, and the frontends the comment of `ctrlSet()` describes | specification |
| `CameraControlsProofs` | theorems about `CameraControls` | proofs |
| `CameraManager` | CameraManager.cpp, Backend.cpp's bind and close, handlers as wholes | specification, abstract to `HandlerLife` |
| `CameraManagerProofs` | theorems about `CameraManager` | proofs |
| `HandlerLife` | the steps of CameraHandler's constructor and destructor: `parseUniqueId`, Config, MediaController, Camera's opening, `dom_cnt`; main.cpp's end; EXTENDS `CameraManager` | specification; implements `CameraManager` |
| `HandlerLifeProofs` | theorems about `HandlerLife`, the refinement among them | proofs |
| `V4L2ToXen` | V4L2ToXen.cpp's tables and loops | specification of the search, step by step |
| `V4L2ToXenProofs` | theorems about `V4L2ToXen` | proofs |
| `MC...` | names, symmetry and inputs for TLC | instances |

### Camera and CameraHandler

`hwBuf` and `streaming` are the driver; `mBuffers` is the vector of mappings, each entry saying whose
memory it maps (`Stale` if a later REQBUFS freed it); `stopReq` counts the bytes in PollFd's pipe;
`mThread`, `evtPc`, `evtBuf` are the event thread. `backend` becomes `"terminated"` where the code
assigns over a joinable `std::thread`, and `"sigterm"` where the event thread kills its process; what
happens after either is not followed (`Ended`).

`pc[d]` is where frontend d's thread is. Methods that hold `mLock` throughout, and make no call that
another thread or the driver sees half-way, are one action (`BufRequest`, `BufRelease`, `Connect`,
`Close`, `StreamStartJoin`). `streamStart()` of the first frontend is cut between the thread's creation
and STREAMON (`StreamStartFirst`, `StreamStartOn`), `streamStop()` of the last one into the part under
`mLock` and the three calls after it (`StreamStop`, `StopPoll`, `StopJoin`, `StopOff`), the frame callback
per listener (`FrameBegin`, `FrameDeliver`, `FrameEnd`). `~CameraHandler` shares the steps of the stop and
ends in `Destroy`. `Close` leaves the entries of `mBuffersAllocated` and `mStreamingNow`, as the code does.

Properties (each with the hazard it is for): `DataInRange` and `DataIsThatBuffer` for what the event thread
reads; `ThreadFollowsBook` and `OneJoiner` for starts and stops; `NoCircularWait`: whoever holds `mLock` waits
for nothing, and whoever joins the event thread does so without that lock and after the byte that ends the
loop; `BuffersConserved` for circulation; `EndsOnlyInWindows`: the backend ends itself in three windows that
the code has, and in no other; `StopCompletes` and `FrameArrives` for liveness.

Two refinements say what all this is for. `RelaysFrames`: the handler, with its threads, locks and ioctls,
is a `FrameRelay`: a frame is taken from the device, given once to every listener there when its turn comes, and
only then goes back; nobody leaves while a frame is owed to it. `here` is the set of connected frontends (and
not `mListeners`: that the two agree is part of the proof), `owed` is `todo`, `held` and `owned` are the buffer
in hand and those of the driver. `KeepsPorts`: towards each frontend it is a `ListenerPort`. `CommandHandler`
is written against the same port (`PortSpec`), with its own view of the handler's lock: so what either module
assumes of the other is what the other keeps. (The port of `CameraHandler` has the frame callback; the control
callback, of which `CommandHandler` is told by `"peer"`, is made under the same lock and is `CameraControls`'.)

The value stored in `mBuffersAllocated` is never read and `mStreamingNow`'s is always true, so both are
sets of domains. A CameraHandler without hardware (`!mCamera`) returns early everywhere: a stutter.

### CommandHandler

`life` is the object's: its constructor ends in `Listen`, its destructor begins with `Unlisten`, which waits for
the camera handler's lock, and only then do the members go (`Destroy`). `bufCreate()` writes
`mBuffers[index] = FrontendBufferPtr(new ...)`, and C++11 leaves open whether `operator[]` makes the entry before
the constructor throws; so `BufCreateFails` may leave an entry without a buffer, which `null` holds.

`bufCreate()`, `bufDestroy()` and `streamStart()` change fields without the lock and are two or three
actions; the frame callback is five (choose, read the counters, write `mSequence`, copy, send), with
`mSequence++` split because `streamStart()` may write in between. `handlerLock` is
`CameraHandler::mLock`, held by the event thread in the frame callback and by another frontend's thread
(`"peer"`) in the control callback. Refinement: `lent` is `mQueuedBuffers`, `filled` the buffer copied and
not yet reported, `reports` the buffers of the frame events sent. `ids` (of all events) and `frames` are history
variables: the ring as the frontend reads it. A buffer stays in the list after it was filled, until the
frontend takes it back, in the code and in `BufferLoan`.

### CameraConfig and FrontendBuffer

Configuration requests run under `mLock` from beginning to end and are one action each. `told[d]` is what
d's last CONFIG_SET was answered. The driver refuses S_FMT while it has buffers; as `streamRelease()` never
returns them, it has them from the first BUF_REQUEST until the handler goes.

A frontend's buffer takes several requests and many steps: `BufGetLayout` tells it the size of an image, by
which it fills a page directory; `BufCreate` reads the size the format has now and releases `mLock`; then
`WalkPage` maps one directory page after the other and `MapRefs` the pages found. Anything may fail
(`InitThrows`). Other frontends set formats between any two of these. `buf[d]` has the constructor's variables
and what the frontend granted. `agreed` says that the frontend had been told a format when it was told the
layout: for such frontends `GrantsAreTaken` and `FramesFit` are stated. One that was not may have sized
its buffer by a format that another replaced since. The walk then reaches for references it never filled in,
and mapping fails; only when its references fill whole directory pages (a multiple of 1023) does the walk end
early and the short buffer go unnoticed. Nothing in the source says what a frontend that does not configure may
expect, so this is a hazard with a note, not a finding. `ShortIsNoticed` delimits it: whatever the frontend
reckoned with, a buffer that is mapped and whose references do not fill whole directory pages holds a frame.

`SharesFormat`: with more than one handler in the process, format and latch implement `SharedFormat`, in which
the first format is accepted and everybody is told that one. `accepted` is the device's format once it is latched.

### HandlerLife

`CameraManager` has a handler under construction, alive or under destruction. `HandlerLife` says what it does
meanwhile: `step[h]` is where its thread is, from `parse` to `made` and from `stop` to `unvideo`, and each
action of `HandlerLife` is an action of `CameraManager` with its effect on hardware (`Enter`, `Join`, `Made`,
`Drop`, `EndCamera`) or leaves CameraManager's variables alone. `ManagerSpec` states it: every behaviour of
`LifeSpec` is one of CameraManager, so what holds there of sharing holds here.

The constructor's way: the unique id is parsed (`Parse`; only the text before the first comma counts, and
an id with a comma but no colon names a device that cannot exist); if it names a media device, the
configuration is read (`ReadConfig`) and the pipeline set up, link by link and format by format (`OpenMedia`,
`ResetLinks`, `SetUp`; `Undo`, which resets all links of the device, on any failure once it is open); the video device is opened, probed and asked for its controls
(`OpenVideo`, `Probe`, `EnumerateControls`); any failure ends in `Catch`, which resets what there is, in
the order of the code. `dom_cnt++` and `dom_cnt--` are a read and a write each (`Count`, `CountUp`, `Stop`,
`CountDown`), since a destructor holds no lock. The destructor's members go in the reverse order of their
declaration, the media controller (`EndMedia`) before the camera (`EndCamera`).

External: `pipeline` is what is set up in each media device and `queue` the file whose buffers a video device
has. `met` and `lost` are history: who had a media device open together with another, and whether an update of
`dom_cnt` was overwritten. They delimit two properties to what the code keeps: `PipelineStands` and `CountIsRight`.
`OneWay` and `EndsClean` are stated for proof: why constructors and destructors end, and what is left when the
process does.
`main` is the process: a signal that meets `sigwait()` makes it leave, one that comes before or after kills it.

### CameraControls, CameraManager, V4L2ToXen

In `CameraControls` the device starts with any value, and frontends come and go. One that comes is in
`mListeners` from `Bind` on; `CtrlEnum` tells it the control's default, found when the device was opened, and
not the value the device has; an event that reaches it before that finds no control (`Overlook`). So a frontend
that comes after a change holds the default (`known`) until the next change: a hazard, and nothing in the source
promises otherwise. `EveryoneIsTold` says what remains, for those the history variable `changed` holds, whose control
the device's value was changed under: each holds the device's value, or has it as the last event on its ring.
`RefusedIsUntold` is about requests the device refuses: whatever frontends hold or are told the device has had
(`had`), but for the default.

`CtrlSet(d, v, queues)` is `ctrlSet()` with d's queue already advanced; the same operator serves a user's
change and the echo of an event. `paced` says whether this behaviour's users wait for events to be handled.
`EchoesDieDown` says why an exchange of such users ends: each echo takes an event off a ring and causes none.

In `CameraManager` a weak pointer is expired when nobody holds its object. `Create` takes the manager's
lock until `Created`; `Close` by the last holder starts a destructor that holds no lock.

`V4L2ToXen` runs each loop entry by entry. A read behind the table is a nondeterministic choice: any word
of `Memory` as a result, or a fault.

## 3. Runs

| Run | Instance | Shows |
|---|---|---|
| `streaming` | 2 frontends, 1 or 2 buffers, no faults, FairSpec; 6 440 states | the properties of `CameraHandler`, `DataInRange` as a part of `DataIsThatBuffer`; that it implements `FrameRelay` and `ListenerPort` |
| `streaming_faults` | 2 frontends, 2 buffers, every ioctl may fail, at most 4 mappings; 11 387 states | `DataInRange` survives failures |
| `buffers` | 3 buffers, counters modulo 3, 4 events; 351 504 states | `CommandHandler` from construction to destruction, and that it implements `BufferLoan` and `ListenerPort` |
| `config` | 3 frontends, 2 formats and a request that becomes one of them, 2 offsets, 2 or 3 handlers in the process; 516 320 states | `SharedFormat` is implemented; the pages mapped for a buffer hold the frames of that format, or mapping fails but for full directory pages |
| `controls` | 2 frontends that come twice each, 3 values, 2 changes each, refusals, paced or not; 44 430 states | the last change reaches whoever had the control; refused values reach nobody; paced exchanges end, and why |
| `manager` | `HandlerLife`: 2 frontends, 3 ids (two of one device), 2 objects, every step may fail, LifeFairSpec; 407 045 states | sharing, hardware and books of handlers; constructors end and so does the process |
| `tables` | all V4L2 numbers of the kernel's header, Xen numbers -1..8; 716 states | searches stay in the table, conversions invert each other; the `*ToV4L2` functions of the tables are the class's interface, without a caller under src/ |
| `hardware_follows_book` | as `streaming` | *violated*: finding 1 |
| `queue_follows_book` | as `streaming` | *violated*: finding 2 |
| `config_race` | one handler in the process | *violated*: finding 3 |
| `controls_race` | one user, two changes in a row | *violated*: finding 4 |
| `tables_unsupported` | as `tables` | *violated*: finding 5 |

Findings (what a comment or a message of the source says, and the code does not do):

1. **A stop overtaken by a start switches the camera off** (CameraHandler.cpp:466). A stops last and
   releases `mLock`, joins the thread; B starts (thread, STREAMON, booked); A's STREAMOFF follows. B is
   booked, the device is off, and no later request switches it on.
2. **Stop and start without a new request leaves no buffer queued** (Camera.cpp:338). STREAMOFF takes the
   buffers back; only `streamAlloc()` queues them, and `bufRequest()` calls it only for an empty book.
3. **The format is not latched with one camera** (CameraHandler.cpp:205). `dom_cnt` counts handlers.
4. **Control changes can chase each other** (CameraHandler.cpp:349). Two changes in quick succession by
   one user are enough with one other frontend. With three frontends the events multiply, which is why
   the `controls` run has two.
5. **`toXen()` reads behind its table** (V4L2ToXen.cpp:193). V4L2's colour space JPEG, say, is in no table.

Bounds. Two frontends are enough for every pair of requests to meet, and the third actor of all hazards of
streaming is the event thread; the instance was also checked with three frontends (about 13 900 states up to
symmetry) without faults and without liveness. Two buffers let one be in delivery while the other is with the
driver; one buffer is the case where the queue runs empty. `MaxMappings` = 4 lets two allocations of two
buffers fail before one succeeds. In `CommandHandler` three buffers give the queue an order that two would
not, modulus 3 wraps both counters within `MaxEvents` = 4 events. `SetsPerUser` = 2 is the least with which
events cross. `HandlerCounts` = {2, 3} is the premise of `SharesFormat`: more than one camera in the
process all along. The two image sizes of `config` stand at the boundaries of the walk: the small image fills
exactly 1023 pages, the references of one directory page, so that an offset of 2 bytes needs a second one;
the large one ends one byte into its last page. In `manager` the ids are one with a media device, one that names
the same video device without it, and one with a media device and no video id, whose construction fails after the
pipeline is set up; two objects let a destructor meet the next constructor. `MaxDrift` = 0 lets no frontend bind
while a lost update is in `dom_cnt`, which would otherwise drift without end; a lost update itself happens.

Fairness (`FairSpec`). In `CameraHandler`: threads that can run do run and a free mutex is eventually handed
to a waiting thread, which is the scheduler's and pthread's part; and the sensor goes on filling queued buffers.
Nothing is assumed of frontends: `Request` has no fairness. In `CameraControls`: a frontend handles the events
on its ring (its kernel driver does); users are under no obligation. In `HandlerLife` (`LifeFairSpec`): the
thread that constructs or destroys a handler runs, `main()` runs, and once `main()` leaves libxenbe closes every
frontend, since `~Backend` stops them all; no frontend has to bind or to close, and no signal has to come.

Deadlock is checked except in `controls` (all users are done) and `tables` (a read behind the table may fault).

## 4. Proofs

Every invariant, every step property and every refinement of the passing runs is a theorem, for every value of
the constants that the named assumptions allow. Where a theorem needs a premise about faults, frontends or
`HandlerCounts`, the theorem states it; below it says why it is needed. Type correctness is a theorem of every
module and left to it, except in `buffers`, where the widths of the counters are at stake.

`CameraHandlerProofs`, for every `Doms`, `BufCounts`, `Faults`:

- `TypeCorrect`: `Spec => []TypeOK`.
- `ListenersAlive`: `Spec => []NoDeadListener`, nobody is called who is gone. By `Lifecycle` and `Listeners`: whoever
  is to be called is in `mListeners` while the event thread holds `mLock`, and leaves that map only under `mLock`.
- `KeepsAllPorts` (`KeepsPorts`), with no premise, from these and `Registered`: `mListeners` holds exactly the
  connected frontends.
- `ImplementsRelay` (`RelaysFrames`), assuming `Returning = {}`: every step of the handler, the event thread or the
  driver is a step of `FrameRelay` or none (`RelayStep`, one step per action). It takes `IInv` below: a request that
  renews the driver's buffers finds no frame in hand, because the book it found empty says so.
- `NobodyWaitsForEver` (`NoCircularWait`), with no premise, by `Waits`: a stop byte stays in the pipe until the
  thread that is being joined took it, since only one thread stops at a time (`TInv`).
- `OneJoinerAtATime` (`OneJoiner`), with no premise: a thread that stops or joins the camera emptied
  `mStreamingNow` when it began, and the next one to begin needs a start in between, which ends the
  process while the old thread is joinable (`TInv`).
- `DataStaysInRange` and `FramesAreWhole`: `DataInRange` and `NoTornFrame` (a frame that is being delivered is not
  the driver's), assuming `Returning = {}`.
- `BuffersAreConserved` (`BuffersConserved`), from the same invariant and the same assumption.
- `DataIsTheBuffers` (`DataIsThatBuffer`), which needs in addition that no allocation fails midway
  (`"alloc" \notin Faults`): the mappings are then in the driver's order (`Maps`). Without it TLC refutes it.
- `ThreadsFollowBooks` (`ThreadFollowsBook`), assuming that STREAMOFF does not fail (`"off" \notin Faults`).
- `EndsInWindows` (`EndsOnlyInWindows`), assuming `Returning = {}` and no I/O error on a queue that streams
  (`"io" \notin Faults`): then DQBUF and QBUF of the event thread succeed outside the windows (`Ready`).
- `NoneLeftMeansNone` (`NoneMeansNone`), assuming `"alloc" \notin Faults`: where `bufRequest()` concludes from its
  book that the camera has no buffers (CameraHandler.cpp:398-399), it keeps no mapping.
- `OneFrontendFollowsBook` and `OneFrontendNeverTerminates`: with one frontend the books tell whether the camera
  streams (provided STREAMON and STREAMOFF succeed), and no start meets a joinable thread. So finding 1, and the
  window of `EndsOnlyInWindows` that goes with it, take two frontends.

`DataInRange` and `NoTornFrame` are not inductive as they stand. Their invariant `IInv` is the conjunction of
`TypeOK` with

- `Lifecycle`: a control thread is busy only for a frontend that has buffers or that destroys the handler, and
  while somebody destroys the handler nobody else is connected;
- `Books`: `mStreamingNow` is part of `mBuffersAllocated`, frontends that are ready or stream are in the latter,
  and only frontends that stream, or were streaming when they closed, are in the former;
- `Thread`: while the event thread runs, `mBuffersAllocated` is not empty and somebody streams or is in the
  middle of a start or a stop; a destructor past its join has no thread;
- `Frame`: with buffers allocated every driver's index is below the length of `mBuffers`, and while the event
  thread holds a buffer, the thread is running and the driver has given that buffer away.

So an unmapping `bufRelease()`, which needs a book with nobody else in it, finds no thread that could read.
There is one lemma per part, one step per action; the temporal steps come last, by PTL. `Returning = {}` says
that a frontend that closed comes to the handler under a new domain id, which is what Xen gives a guest that
reboots. The assumption is needed: a frontend that closes while it streams leaves its entry in
`mStreamingNow`, and if it came back to the same handler with the same id, requested buffers, and gave them up,
the last `bufRelease()` would unmap under a running event thread. TLC refutes `DataInRange` with
`Returning = {a}`; the source promises nothing there, so it is a hazard and not a finding.

`CommandHandlerProofs`, for every `Indices`, `SeqMod`, `IdMod`, `MaxEvents`, hence also for 2^32 and 2^16:

- `TypeCorrect`, and `LoanImplemented`: `Spec => LoanSpec`, the refinement of `BufferLoan`;
- `FramesIntoLiveBuffers`: `FrameIntoLiveBuffer`. By `LoanInv`: what is on loan is in `mBuffers`, has a buffer, and
  is not the one a request creates or destroys (`Loans`), and during the callback `mLock` is held and the chosen
  buffer is the first in the list (`Callback`). The refinement uses the same invariant: `bufDequeue()` needs
  `mLock`, so no filled buffer is taken back before its report;
- `CallbacksAreAlive`: `CallbacksFindHandler`, also by `LoanInv`: both callbacks run under the camera handler's lock;
- `PortImplemented`: `Spec => PortSpec`, from the same invariant: the other half of `KeepsAllPorts`;
- `BookedAsLongAsNeeded`: `BookedWhileCreated`, with `BookInv` about requests half-way;
- `EventIdsInOrder`: `EventIdsConsecutive`. By `IdInv`: the callbacks exclude each other through the camera
  handler's lock, so the number read is still `mEventId` when it is written back;
- `FramesInSequence`: `SequenceHasNoGaps`. By `SeqInv`: the number under way, or else `mSequence`, is one more
  than the last one sent or 0, whether the reset of `streamStart()` is lost to the callback's write or not.

`CameraConfigProofs`, for every set of frontends, formats, sizes and offsets:

- `TypeCorrect`; `ImageSizeKept` (`ImageSizeStays`), whatever `dom_cnt` says: whoever builds or has a buffer has the driver's buffers allocated, and S_FMT is refused from then on (`Booked`);
- `FormatAgreed` (`FormatAgreement`), assuming that every member of `HandlerCounts` is more than 1: then the first
  CONFIG_SET latches the format and no later one reaches the device (`Latched`). Without the assumption it is finding 3;
- `FormatIsShared` (`SharesFormat`), the refinement of `SharedFormat`, from the same invariant and assumption;
- `GrantsAreCollected` (`GrantsAreTaken`) and `FramesAlwaysFit` (`FramesFit`), under the same assumption. By `Walked`:
  for a frontend that negotiated, what the walk has collected and what is left are together what was granted,
  and before the n-th directory page it has collected 1023 references from each page before it. No induction
  over the directory is needed, since each page is a step;
- `ShortGrantsAreNoticed` (`ShortIsNoticed`), with no assumption on `HandlerCounts` and for frontends that agreed on
  nothing: the walk ends either with the references wanted or at the end of a full directory page (`Ended`).

`CameraControlsProofs`, for any frontends and users, values and numbers of changes and bindings: `TypeCorrect`; `AllAreTold`
(`EveryoneIsTold`), which is inductive with the types and `Present` (whoever has the control is a listener);
`NoRefusedValueSpreads` (`RefusedIsUntold`); `EchoesCauseNone` (`EchoesDieDown`), by `OneValue`: with paced users all
events on their way carry the device's value. So the number of events falls with each echo, and as an echo can be taken whenever there
is an event, this is the safety half of `PacedSettles`.

`CameraManagerProofs`, for any frontends, cameras and handler objects: `HandlersAreShared`
(`OneHandlerPerCamera`), `HandlersAreAlive` (`NoDyingHandler`), `HandlersAreOwned` (`NoOrphan`). By `IInv`: a
thread that constructs or destroys an object holds no handler and shares that object with no other thread, and
only one constructs (`Makers`); whoever holds an object holds a live one that its camera's entry names
(`Holders`); every live object is held, and every other one has its thread (`Owned`).

`HandlerLifeProofs`, for any frontends, ids, devices, faults and `MaxDrift`: `ConstructionRefinesManager`
(`ManagerSpec`): each step is CameraManager's or a stutter, so that the three theorems above carry over, and
`IInv` with them. The rest is by `LInv`, whose parts are the types, `Fits` (each step belongs to a handler in
that state of life), `Hardware` (what is open at each step), `CountInv` (`dom_cnt` against the handlers counted, and
what a reader has read), `Pipelines` (a handler that met no other has in place what its steps have set up),
`LinksOwned` and `Queues` (nothing is linked or busy without an owner that has the device open):
`LifeTypes`, `CounterCounts`, `HardwareIsWhole`, `PipelinesStand`, `AllIsReturned`, `BusyIsHandover`.
`SharingSurvivesFailures` states CameraManager's three properties of `LifeSpec`. `ConstructionGoesOneWay` (`OneWay`):
each step of a constructor or destructor leads to a later place of its course, so that it has at most sixteen and four;
this is the safety half of `MakersFinish`. `EndIsClean` (`EndsClean`): when `main()` returned, nothing is open, requested
or linked, since every handler has been destroyed (`Over`) and leaves nothing (`NothingLeft`).

`V4L2ToXenProofs`, for any numbers a driver reports or a frontend sends and any `Memory`: `TypeCorrect`,
`SearchesStay` (`StaysInTable`), `DirectionsInvert` (`ConversionsInvert`). The invariant `LInv` says that a search has
passed no entry with its key and where its result comes from; the shape it needs of the tables is proved for each.

Only model-checked: the liveness properties `StopCompletes`, `FrameArrives`, `PacedSettles`, `MakersFinish` and
`Stoppable`, which are out of the prover's reach (fairness and ENABLED; what of their arguments is safety is proved: `NoCircularWait`,
`EchoesDieDown`, `OneWay`), and the properties the code violates, whose counterexamples are TLC's.

## 5. Not modelled

- The command line, the log file and the SIGSEGV handler of `main`; the texts of `Config`'s settings; libmediactl
  beyond whether its calls succeed, and the enumeration of formats, whose list only the log reads.
- What threads in the middle of a request do when the process is killed: nothing happens any more.
- libxenbe (rings, event channels, grant mapping, `PollFd`) and the kernel, except as the code uses them.
- Streaming across two handlers of one device. `HandlerLife` shows that the second is refused buffers until the
  first has closed the device (`BusyOnlyAtHandover`); `CameraHandler` has one handler at a time.
- Two frontend devices of one domain: the listeners and books are keyed by domain.
- Control values a driver rounds, and values wider than int.
- Frontends that break the protocol (create a buffer under an index in use, which replaces the entry in `mBuffers`,
  destroy a buffer on loan, stream without buffers, change a page directory that is being walked).
- The unlocked `std::unordered_map` of buffers as a data structure: entries are independent here.
- GET CTRL, which checks its argument and answers no value, and the requests that only read. That frontends to which a
  control is not assigned are refused it and not told of it (CommandHandler.cpp:325, 374): `Doms` of `CameraControls`
  are those to which it is assigned.
- `V4L2ToXen`'s two functions on flag bits, which are pure and test one bit after the other.

## 6. Plan

Done in this order: `CameraHandler` with `Camera`, its proofs, `CommandHandler` with `BufferLoan`,
`CameraConfig`, `CameraControls`, `CameraManager`, `V4L2ToXen`; the proofs for `CommandHandler`,
`CameraConfig` and `CameraManager`; `HandlerLife` with its refinement of `CameraManager`, the life of a
`CommandHandler`, `FrontendBuffer`; the proofs for `HandlerLife`, `CameraControls` and `V4L2ToXen`, and the
remaining invariants of `CameraHandler` and `CameraConfig`; the abstract `FrameRelay`, `ListenerPort` and `SharedFormat`
with their refinements, and the safety halves of the liveness properties.

What could follow: one event ring of finite size, and rounded values in `CameraControls`; frontends that come back
to a handler (`Returning`), once the source says what they may expect; theorems of the abstract modules themselves, and the
buffers of `CommandHandler` filled by the frames of `FrameRelay`.

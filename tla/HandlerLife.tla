----------------------------- MODULE HandlerLife -----------------------------
(***************************************************************************)
(* How a CameraHandler is constructed and destroyed, step by step, in the   *)
(* process that main() starts and ends.  CameraManager says who gets which  *)
(* handler; every action here is one of its actions with what it does to    *)
(* the hardware, or a step of a constructor or destructor it does not see.  *)
(*                                                                         *)
(* A constructor runs under the manager's lock: it parses the unique id,    *)
(* reads the configuration file, sets the media pipeline up, opens the      *)
(* device, and counts the handler; whatever fails ends in a handler without *)
(* hardware.  A destructor runs without that lock, and so beside the        *)
(* constructor of the camera's next handler: it uncounts the handler and    *)
(* destroys its members, the media controller first.                        *)
(*                                                                         *)
(* External: libmediactl and the media device, whose links all handlers     *)
(* that name it share; the V4L2 device, whose buffers belong to the file    *)
(* that requested them until it is closed; libxenbe, which has threads that *)
(* do not block the signals, and closes all frontends when main() ends.     *)
(***************************************************************************)
EXTENDS CameraManager, Integers, Sequences

CONSTANTS
    Videos, Medias,  \* the device nodes there are
    NoNode,          \* a name no device node has
    IdOf,            \* the text of each unique id, cut at its commas
    Faults,          \* what may fail: "config", "media", "links", "video"
    MaxDrift         \* bound: how wrong dom_cnt may be for frontends to go on binding

ASSUME LifeAssumption ==
    /\ None \notin Videos \cup Medias \cup {NoNode}
    /\ NoNode \notin Videos
    /\ IdOf \in [UniqueIds -> Seq([colon : BOOLEAN, video : Videos \cup {None, NoNode},
                                   media : Medias \cup {None}])]
    /\ MaxDrift \in Nat

Links == {"link1", "link2"}
Settings == Links \cup {"source_fmt", "sink_fmt"}

\* Where the constructor or destructor of a handler is; "idle" otherwise.
Opening == {"parse", "config", "media", "reset", "undo", "open", "probe", "controls",
            "failed", "count", "counted", "made"} \cup Settings
Dying == {"stop", "uncounted", "unmedia", "unvideo"}

VARIABLES
    step,              \* of each handler
    mMediaController,  \* the handlers that have one
    m_mediaDevice,     \* the handlers whose MediaController has the media device open
    pipeline,          \* driver: the settings each media device has
    mCamera,           \* the handlers that have one
    mFd,               \* the handlers whose Camera has the device open
    queue,             \* driver: whose buffers each video device has
    dom_cnt,           \* the static counter
    read,              \* the value a handler read to count itself
    main,              \* where main() is
    lost,              \* history: an update of dom_cnt was overwritten
    met                \* history: the handlers that shared a media device with another

managerVars == vars
mediaVars == <<mMediaController, m_mediaDevice, pipeline, met>>
cameraVars == <<mCamera, mFd, queue>>
countVars == <<dom_cnt, read, lost>>
lifeVars == <<managerVars, step, mediaVars, cameraVars, countVars, main>>

LifeTypeOK ==
    /\ TypeOK
    /\ step \in [Handlers -> Opening \cup Dying \cup {"idle"}]
    /\ mMediaController \subseteq Handlers /\ m_mediaDevice \subseteq Handlers
    /\ pipeline \in [Medias -> SUBSET Settings]
    /\ mCamera \subseteq Handlers /\ mFd \subseteq Handlers
    /\ queue \in [Videos -> Handlers \cup {None}]
    /\ dom_cnt \in Int
    /\ read \in [Handlers -> Int]
    /\ main \in {"starting", "waiting", "leaving", "ended", "killed"}
    /\ lost \in BOOLEAN
    /\ met \subseteq Handlers

LifeInit ==
    /\ Init
    /\ step = [h \in Handlers |-> "idle"]
    /\ mMediaController = {} /\ m_mediaDevice = {}
    /\ pipeline = [m \in Medias |-> {}]
    /\ mCamera = {} /\ mFd = {}
    /\ queue = [v \in Videos |-> None]
    /\ dom_cnt = 0
    /\ read = [h \in Handlers |-> 0]
    /\ main = "starting"
    /\ lost = FALSE
    /\ met = {}

At(h, s) == step[h] = s
Goto(h, s) == step' = [step EXCEPT ![h] = s]

-----------------------------------------------------------------------------
(* The unique id                                                            *)

\* parseUniqueId(): the first token, cut at its colon; without a colon it is the
\* whole text, commas and all, that names the video device.
parseUniqueId(id) ==
    IF id = <<>> THEN [video |-> None, media |-> None]
    ELSE IF Head(id).colon THEN [video |-> Head(id).video, media |-> Head(id).media]
    ELSE [video |-> IF Len(id) = 1 THEN Head(id).video ELSE NoNode, media |-> None]

Video(h) == parseUniqueId(IdOf[camera[h]]).video
Media(h) == parseUniqueId(IdOf[camera[h]]).media

\* init() when the pipeline is ready or not needed.
AfterMedia(h) == IF Video(h) # None THEN "open" ELSE "failed"

-----------------------------------------------------------------------------
(* The constructor                                                          *)

\* How many handlers are counted, and by how much dom_cnt is off.
Counted ==
    {h \in Handlers :
        \/ object[h] = "alive"
        \/ object[h] = "opening" /\ step[h] = "made"
        \/ object[h] = "dying" /\ step[h] \in {"stop", "uncounted"}}
Drift == dom_cnt - Cardinality(Counted)

\* getCameraHandler() finds no handler that lives, and enters the constructor.
Enter(d, u) ==
    /\ main \in {"starting", "waiting"}
    /\ Drift \in -MaxDrift..MaxDrift
    /\ Create(d, u)
    /\ Goto(mine'[d], "parse")
    /\ UNCHANGED <<mediaVars, cameraVars, countVars, main>>

Parse(h) ==
    /\ At(h, "parse")
    /\ Goto(h, IF Media(h) # None THEN "config" ELSE AfterMedia(h))
    /\ UNCHANGED <<managerVars, mediaVars, cameraVars, countVars, main>>

\* Config reads the file and the four settings of its section mediactl; each may be
\* missing.
ReadConfig(h) ==
    /\ At(h, "config")
    /\ \/ Goto(h, "media")
       \/ "config" \in Faults /\ Goto(h, "failed")
    /\ UNCHANGED <<managerVars, mediaVars, cameraVars, countVars, main>>

SameMedia(h) == {g \in m_mediaDevice \ {h} : Media(g) = Media(h)}

\* media_device_new(), which opens the media device or fails, and
\* media_device_enumerate(), whose failure leaves it to release().
OpenMedia(h) ==
    /\ At(h, "media")
    /\ \/ /\ m_mediaDevice' = m_mediaDevice \cup {h}
          /\ met' = met \cup SameMedia(h) \cup (IF SameMedia(h) = {} THEN {} ELSE {h})
          /\ \/ Goto(h, "reset")
             \/ "media" \in Faults /\ Goto(h, "undo")
       \/ "media" \in Faults /\ Goto(h, "failed") /\ UNCHANGED <<m_mediaDevice, met>>
    /\ UNCHANGED <<managerVars, mMediaController, pipeline, cameraVars, countVars, main>>

\* media_reset_links(), of the whole device.
ResetLinks(h) ==
    /\ At(h, "reset")
    /\ \/ pipeline' = [pipeline EXCEPT ![Media(h)] = @ \ Links] /\ Goto(h, "link1")
       \/ "links" \in Faults /\ Goto(h, "undo") /\ UNCHANGED pipeline
    /\ UNCHANGED <<managerVars, mMediaController, m_mediaDevice, met, cameraVars, countVars,
                   main>>

NextSetting == [link1 |-> "link2", link2 |-> "source_fmt", source_fmt |-> "sink_fmt"]

\* Mutant: a link or format that cannot be set is passed over.
SetUpGoesOn(h) ==
    /\ step[h] \in Settings
    /\ \/ pipeline' = [pipeline EXCEPT ![Media(h)] = @ \cup {step[h]}]
       \/ "links" \in Faults /\ UNCHANGED pipeline
    /\ IF At(h, "sink_fmt")
         THEN mMediaController' = mMediaController \cup {h} /\ Goto(h, AfterMedia(h))
         ELSE Goto(h, NextSetting[step[h]]) /\ UNCHANGED mMediaController
    /\ UNCHANGED <<managerVars, m_mediaDevice, met, cameraVars, countVars, main>>

\* The two links and the two formats, in turn; with the last one the
\* MediaController is constructed.
SetUp(h) ==
    /\ step[h] \in Settings
    /\ \/ /\ pipeline' = [pipeline EXCEPT ![Media(h)] = @ \cup {step[h]}]
          /\ IF At(h, "sink_fmt")
               THEN mMediaController' = mMediaController \cup {h} /\ Goto(h, AfterMedia(h))
               ELSE Goto(h, NextSetting[step[h]]) /\ UNCHANGED mMediaController
       \/ "links" \in Faults /\ Goto(h, "undo") /\ UNCHANGED <<pipeline, mMediaController>>
    /\ UNCHANGED <<managerVars, m_mediaDevice, met, cameraVars, countVars, main>>

\* Mutant: the device is closed with its links as they are.
MediaReleaseNoReset(h) ==
    /\ m_mediaDevice' = m_mediaDevice \ {h}
    /\ UNCHANGED pipeline

\* MediaController::release(): the links are reset again, the device is closed.
MediaRelease(h) ==
    /\ IF h \in m_mediaDevice
         THEN pipeline' = [pipeline EXCEPT ![Media(h)] = @ \ Links]
         ELSE UNCHANGED pipeline
    /\ m_mediaDevice' = m_mediaDevice \ {h}

\* MediaController's constructor catches, releases and throws again.
Undo(h) ==
    /\ At(h, "undo")
    /\ MediaRelease(h)
    /\ Goto(h, "failed")
    /\ UNCHANGED <<managerVars, mMediaController, met, cameraVars, countVars, main>>

\* Camera::open()
OpenVideo(h) ==
    /\ At(h, "open")
    /\ \/ Video(h) \in Videos /\ mFd' = mFd \cup {h} /\ Goto(h, "probe")
       \/ /\ Video(h) \notin Videos \/ "video" \in Faults
          /\ Goto(h, "failed")
          /\ UNCHANGED mFd
    /\ UNCHANGED <<managerVars, mediaVars, mCamera, queue, countVars, main>>

\* Camera's constructor catches, closes the device and throws again.
CameraThrows(h) ==
    /\ "video" \in Faults
    /\ mFd' = mFd \ {h}
    /\ Goto(h, "failed")
    /\ UNCHANGED mCamera

\* isCaptureDevice(): capabilities, resolution, field order.
Probe(h) ==
    /\ At(h, "probe")
    /\ \/ Goto(h, "controls") /\ UNCHANGED <<mFd, mCamera>>
       \/ CameraThrows(h)
    /\ UNCHANGED <<managerVars, mediaVars, queue, countVars, main>>

\* formatEnumerate() and controlEnumerate(), which may fail; the Camera is there.
EnumerateControls(h) ==
    /\ At(h, "controls")
    /\ \/ mCamera' = mCamera \cup {h} /\ Goto(h, "count") /\ UNCHANGED mFd
       \/ CameraThrows(h)
    /\ UNCHANGED <<managerVars, mediaVars, queue, countVars, main>>

\* Mutant: the media controller is kept.
CatchKeeps(h) ==
    /\ At(h, "failed")
    /\ mCamera' = mCamera \ {h}
    /\ Goto(h, "count")
    /\ UNCHANGED <<managerVars, mediaVars, mFd, queue, countVars, main>>

\* Mutant: construction is tried again until it succeeds.
CatchRetries(h) ==
    /\ At(h, "failed")
    /\ MediaRelease(h)
    /\ mMediaController' = mMediaController \ {h}
    /\ mCamera' = mCamera \ {h}
    /\ Goto(h, "parse")
    /\ UNCHANGED <<managerVars, met, mFd, queue, countVars, main>>

\* Mutant: a handler without hardware is not counted.
CatchUncounted(h) ==
    /\ At(h, "failed")
    /\ MediaRelease(h)
    /\ mMediaController' = mMediaController \ {h}
    /\ mCamera' = mCamera \ {h}
    /\ Goto(h, "made")
    /\ UNCHANGED <<managerVars, met, mFd, queue, countVars, main>>

\* Mutant: the constructor releases what it has and throws again.
CatchThrows(h) ==
    /\ At(h, "failed")
    /\ MediaRelease(h)
    /\ mMediaController' = mMediaController \ {h}
    /\ mCamera' = mCamera \ {h}
    /\ Goto(h, "idle")
    /\ object' = [object EXCEPT ![h] = "none"]
    /\ camera' = [camera EXCEPT ![h] = None]
    /\ mine' = [d \in Doms |-> IF mine[d] = h THEN None ELSE mine[d]]
    /\ mLock' = "free"
    /\ UNCHANGED <<mCameraHandlers, held, met, mFd, queue, countVars, main>>

\* CameraHandler's constructor catches: the handler goes on without hardware.
Catch(h) ==
    /\ At(h, "failed")
    /\ IF h \in mMediaController THEN MediaRelease(h) ELSE UNCHANGED <<pipeline, m_mediaDevice>>
    /\ mMediaController' = mMediaController \ {h}
    /\ mCamera' = mCamera \ {h}
    /\ Goto(h, "count")
    /\ UNCHANGED <<managerVars, met, mFd, queue, countVars, main>>

\* dom_cnt++ and dom_cnt-- read and write a plain int.
ReadCount(h, next) ==
    /\ read' = [read EXCEPT ![h] = dom_cnt]
    /\ Goto(h, next)
    /\ UNCHANGED <<managerVars, mediaVars, cameraVars, dom_cnt, lost, main>>

WriteCount(h, n, next) ==
    /\ dom_cnt' = n
    /\ lost' = (lost \/ dom_cnt # read[h])
    /\ read' = [read EXCEPT ![h] = 0]
    /\ Goto(h, next)
    /\ UNCHANGED <<managerVars, mediaVars, cameraVars, main>>

Count(h) == At(h, "count") /\ ReadCount(h, "counted")
CountUp(h) == At(h, "counted") /\ WriteCount(h, read[h] + 1, "made")

\* The handler goes into the map and to its frontend.
Made(d) ==
    /\ mine[d] # None
    /\ At(mine[d], "made")
    /\ Created(d)
    /\ Goto(mine[d], "idle")
    /\ UNCHANGED <<mediaVars, cameraVars, countVars, main>>

-----------------------------------------------------------------------------
(* The handler in use                                                       *)

\* getCameraHandler() finds one that lives.
Join(d, u) ==
    /\ main \in {"starting", "waiting"}
    /\ Share(d, u)
    /\ UNCHANGED <<step, mediaVars, cameraVars, countVars, main>>

\* VIDIOC_REQBUFS for d's BUF_REQUEST: refused, with no effect, while another file
\* has buffers.
BufRequest(d) ==
    /\ held[d] \in mCamera
    /\ queue[Video(held[d])] = None
    /\ queue' = [queue EXCEPT ![Video(held[d])] = held[d]]
    /\ UNCHANGED <<managerVars, step, mediaVars, mCamera, mFd, countVars, main>>

-----------------------------------------------------------------------------
(* The destructor                                                           *)

\* Mutant: a frontend's handlers hold each other, and the last reference stays.
DropCyclic(d) ==
    /\ \E e \in Doms \ {d} : held[e] = held[d]
    /\ Close(d)
    /\ UNCHANGED <<step, mediaVars, cameraVars, countVars, main>>

\* onStateClosed(), and the end of the frontend's rings.
Drop(d) ==
    /\ Close(d)
    /\ step' = IF object' = object THEN step ELSE [step EXCEPT ![held[d]] = "stop"]
    /\ UNCHANGED <<mediaVars, cameraVars, countVars, main>>

\* release() stops the stream and unmaps the buffers, which the driver keeps.
Stop(h) == At(h, "stop") /\ ReadCount(h, "uncounted")
CountDown(h) == At(h, "uncounted") /\ WriteCount(h, read[h] - 1, "unmedia")

\* ~MediaController
EndMedia(h) ==
    /\ At(h, "unmedia")
    /\ MediaRelease(h)
    /\ mMediaController' = mMediaController \ {h}
    /\ met' = met \ {h}
    /\ Goto(h, "unvideo")
    /\ UNCHANGED <<managerVars, cameraVars, countVars, main>>

\* Mutant: ~Camera leaves the device open.
EndCameraOpen(d) ==
    /\ mine[d] # None
    /\ At(mine[d], "unvideo")
    /\ Destroyed(d)
    /\ mCamera' = mCamera \ {mine[d]}
    /\ Goto(mine[d], "idle")
    /\ UNCHANGED <<mediaVars, mFd, queue, countVars, main>>

\* ~Camera: streamStop(), and release() closes the device, whose buffers go with the
\* file.
EndCamera(d) ==
    /\ mine[d] # None
    /\ At(mine[d], "unvideo")
    /\ Destroyed(d)
    /\ mCamera' = mCamera \ {mine[d]}
    /\ mFd' = mFd \ {mine[d]}
    /\ queue' = [v \in Videos |-> IF queue[v] = mine[d] THEN None ELSE queue[v]]
    /\ Goto(mine[d], "idle")
    /\ UNCHANGED <<mediaVars, countVars, main>>

-----------------------------------------------------------------------------
(* The process                                                              *)

\* waitSignals(), when backend.start() has started other threads: the signals are
\* blocked in main()'s thread only, and awaited.
Wait ==
    /\ main = "starting" /\ main' = "waiting"
    /\ UNCHANGED <<managerVars, step, mediaVars, cameraVars, countVars>>

\* SIGINT or SIGTERM, from outside or from eventThread(): sigwait() takes it; before and
\* after, a thread that does not block it lets it end the process.
Signal ==
    /\ main \notin {"ended", "killed"}
    /\ main' = IF main = "waiting" THEN "leaving" ELSE "killed"
    /\ UNCHANGED <<managerVars, step, mediaVars, cameraVars, countVars>>

\* ~Backend returns when no frontend is left, and so does main().
Leave ==
    /\ main = "leaving"
    /\ \A d \in Doms : Unbound(d)
    /\ main' = "ended"
    /\ UNCHANGED <<managerVars, step, mediaVars, cameraVars, countVars>>

-----------------------------------------------------------------------------
\* What the thread that constructs or destroys h does next.
Work(h) ==
    \/ Parse(h) \/ ReadConfig(h) \/ OpenMedia(h) \/ ResetLinks(h) \/ SetUp(h) \/ Undo(h)
    \/ OpenVideo(h) \/ Probe(h) \/ EnumerateControls(h) \/ Catch(h) \/ Count(h) \/ CountUp(h)
    \/ Stop(h) \/ CountDown(h) \/ EndMedia(h)

Bind(d) == \E u \in UniqueIds : Join(d, u) \/ Enter(d, u)

\* A process that was killed does nothing any more.
Alive == main # "killed"

LifeNext ==
    \/ /\ Alive
       /\ \/ \E d \in Doms : Bind(d) \/ BufRequest(d) \/ Drop(d) \/ Made(d) \/ EndCamera(d)
          \/ \E h \in Handlers : Work(h)
          \/ Wait \/ Signal \/ Leave
    \/ main \in {"ended", "killed"} /\ UNCHANGED lifeVars

LifeSpec == LifeInit /\ [][LifeNext]_lifeVars

\* Threads that can run do run, and once main() leaves libxenbe closes every frontend.
\* Nobody has to bind, and nobody has to send a signal.
Fairness ==
    /\ \A h \in Handlers : WF_lifeVars(Alive /\ Work(h))
    /\ \A d \in Doms :
          /\ WF_lifeVars(Alive /\ (Made(d) \/ EndCamera(d)))
          /\ WF_lifeVars(main = "leaving" /\ Drop(d))
    /\ WF_lifeVars(Wait \/ Leave)

LifeFairSpec == LifeSpec /\ Fairness

-----------------------------------------------------------------------------
(* Properties                                                               *)

\* CameraManager's behaviours are all there are: nothing a constructor does, and no way
\* it fails, shows in which frontend has which handler.
ManagerSpec == Spec

\* dom_cnt, on which the format's latch depends, is the number of handlers, those
\* without hardware included, until two updates of it overlap: a destructor takes no lock.
CountIsRight == ~lost => dom_cnt = Cardinality(Counted)

\* However construction failed, a handler that is given out has all of its hardware,
\* opened and owned, or none of it.
AllOrNothing ==
    \A h \in Handlers : object[h] = "alive" =>
        /\ h \in mFd <=> h \in mCamera
        /\ h \in m_mediaDevice <=> h \in mMediaController
        /\ h \in mMediaController <=> h \in mCamera /\ Media(h) # None

\* A handler with a media device keeps the pipeline it set up, every link and format,
\* unless another handler had that media device open at the same time: each resets all
\* links when it comes and when it goes.
PipelineStands ==
    \A h \in mMediaController :
        object[h] = "alive" /\ h \notin met => pipeline[Media(h)] = Settings

\* No device stays open, has buffers or a pipeline set up for a handler that is gone.
NothingLeft ==
    /\ \A h \in Handlers : object[h] = "none" =>
          /\ h \notin mFd \cup mCamera \cup m_mediaDevice \cup mMediaController
          /\ \A v \in Videos : queue[v] # h
    /\ \A m \in Medias : pipeline[m] \cap Links # {} =>
          \E h \in m_mediaDevice : Media(h) = m

\* The driver refuses a handler buffers only because of the handler before it, whose
\* destructor has not closed the device yet, or of one that names the same device by
\* another unique id.
BusyOnlyAtHandover ==
    \A h \in mCamera : object[h] = "alive" =>
        LET owner == queue[Video(h)]
        IN  \/ owner \in {None, h} \/ object[owner] = "dying"
            \/ object[owner] = "alive" /\ camera[owner] # camera[h]

\* Why constructors and destructors end: whatever fails, each step of one leads to a
\* later place of its course, so that none is taken twice, and the thread lets go of the
\* handler at the end of the course only.
Place == [parse |-> 1, config |-> 2, media |-> 3, reset |-> 4, link1 |-> 5, link2 |-> 6,
          source_fmt |-> 7, sink_fmt |-> 8, undo |-> 9, open |-> 10, probe |-> 11,
          controls |-> 12, failed |-> 13, count |-> 14, counted |-> 15, made |-> 16,
          stop |-> 17, uncounted |-> 18, unmedia |-> 19, unvideo |-> 20]
OneWay ==
    [][\A h \in Handlers : step[h] # "idle" /\ step'[h] # step[h] =>
          IF step'[h] = "idle" THEN step[h] \in {"made", "unvideo"}
          ELSE Place[step'[h]] > Place[step[h]]]_lifeVars

\* A process that ends the orderly way leaves no device open, no buffers requested and
\* no link set up, whatever its constructors and destructors were doing when the signal
\* came.
EndsClean ==
    main = "ended" =>
        /\ mFd = {} /\ m_mediaDevice = {}
        /\ \A v \in Videos : queue[v] = None
        /\ \A m \in Medias : pipeline[m] \cap Links = {}

\* Every constructor and destructor comes to an end, whatever fails.
MakersFinish == \A d \in Doms : mine[d] # None ~> (mine[d] = None \/ main = "killed")

\* When main() leaves, all handlers are destroyed and the process ends, unless another
\* signal kills it first.
Stoppable == main = "leaving" ~> main \in {"ended", "killed"}
=============================================================================

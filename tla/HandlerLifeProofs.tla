-------------------------- MODULE HandlerLifeProofs --------------------------
(***************************************************************************)
(* Theorems about HandlerLife, for any frontends, unique ids, handlers and  *)
(* devices, whatever fails.                                                 *)
(***************************************************************************)
EXTENDS HandlerLife, CameraManagerProofs

-----------------------------------------------------------------------------
(* The manager's behaviour                                                  *)

LEMMA Refines == [LifeNext]_lifeVars => [Next]_vars
<1> SUFFICES ASSUME [LifeNext]_lifeVars PROVE [Next]_vars
  OBVIOUS
<1>1. ASSUME NEW d \in Doms, Bind(d) \/ BufRequest(d) \/ Drop(d) \/ Made(d) \/ EndCamera(d)
      PROVE  [Next]_vars
  BY <1>1 DEF Bind, Join, Enter, BufRequest, Drop, Made, EndCamera, Next, managerVars, vars
<1>2. ASSUME NEW h \in Handlers, Work(h)
      PROVE  UNCHANGED managerVars
  BY <1>2 DEF Work, Parse, ReadConfig, OpenMedia, ResetLinks, SetUp, Undo, OpenVideo, Probe,
              EnumerateControls, Catch, Count, CountUp, Stop, CountDown, EndMedia, ReadCount,
              WriteCount
<1>3. CASE Wait \/ Signal \/ Leave \/ UNCHANGED lifeVars
  BY <1>3 DEF Wait, Signal, Leave, managerVars, lifeVars
<1> QED
  BY <1>1, <1>2, <1>3 DEF LifeNext, managerVars

\* No step of a constructor or destructor, and no failure of one, changes which
\* frontend has which handler in a way CameraManager does not: its theorems carry over.
THEOREM ConstructionRefinesManager == LifeSpec => ManagerSpec
<1>1. LifeInit => Init
  BY DEF LifeInit
<1> QED
  BY <1>1, Refines, PTL DEF LifeSpec, ManagerSpec, Spec

LEMMA ManagerInv == LifeSpec => []IInv
BY ConstructionRefinesManager, IInvHolds DEF ManagerSpec

\* So sharing is right also while constructors and destructors go step by step, fail in
\* the middle and overlap: one handler for a camera, none given out that is dying, none
\* left over (CameraManager.cpp:29-45, CameraHandler.cpp:19-54).
THEOREM SharingSurvivesFailures ==
    LifeSpec => [](OneHandlerPerCamera /\ NoDyingHandler /\ NoOrphan)
BY ConstructionRefinesManager, HandlersAreShared, HandlersAreAlive, HandlersAreOwned, PTL
   DEF ManagerSpec

-----------------------------------------------------------------------------
(* Steps, types and hardware                                                *)

\* Where a handler is in its life, the two modules agree.
Fits ==
    \A h \in Handlers :
        /\ object[h] \in {"none", "alive"} <=> step[h] = "idle"
        /\ object[h] = "opening" <=> step[h] \in Opening
        /\ object[h] = "dying" <=> step[h] \in Dying

\* What a handler has at each step: the devices are open exactly while there is an
\* object to close them, or in the constructor that is about to make one.
Hardware ==
    \A h \in Handlers :
        /\ h \in m_mediaDevice <=>
              h \in mMediaController \/ step[h] \in {"reset", "undo"} \cup Settings
        /\ h \in mFd <=> h \in mCamera \/ step[h] \in {"probe", "controls"}
        /\ h \in mMediaController =>
              /\ Media(h) # None /\ object[h] # "none"
              /\ step[h] \notin {"parse", "config", "media", "reset", "undo", "unvideo"} \cup Settings
        /\ h \in mCamera =>
              /\ object[h] # "none"
              /\ step[h] \in {"count", "counted", "made", "idle"} \cup Dying
        /\ step[h] \in {"config", "media", "reset", "undo"} \cup Settings => Media(h) # None
        /\ step[h] \in {"open", "probe", "controls"} /\ Media(h) # None => h \in mMediaController
        /\ object[h] = "alive" \/ step[h] \in {"count", "counted", "made"} =>
              (h \in mMediaController <=> h \in mCamera /\ Media(h) # None)
        /\ h \in mFd => Video(h) \in Videos

LEMMA IdParses ==
    ASSUME NEW u \in UniqueIds
    PROVE  /\ parseUniqueId(IdOf[u]).media \in Medias \cup {None}
           /\ parseUniqueId(IdOf[u]).video \in Videos \cup {None, NoNode}
<1> DEFINE Token == [colon : BOOLEAN, video : Videos \cup {None, NoNode},
                     media : Medias \cup {None}]
           id == IdOf[u]
<1>1. id \in Seq(Token)
  BY LifeAssumption
<1> HIDE DEF Token, id
<1>2. id # <<>> => Head(id) \in Token
  BY <1>1
<1>3. id # <<>> => Head(id).video \in Videos \cup {None, NoNode} /\ Head(id).media \in Medias \cup {None}
  BY <1>2 DEF Token
<1>4. parseUniqueId(id).media \in Medias \cup {None}
  BY <1>3 DEF parseUniqueId
<1>5. parseUniqueId(id).video \in Videos \cup {None, NoNode}
  BY <1>3 DEF parseUniqueId
<1> QED
  BY <1>4, <1>5 DEF id

LEMMA TypeStep ==
    ASSUME LifeTypeOK, IInv, IInv', [LifeNext]_lifeVars
    PROVE  LifeTypeOK'
<1> USE DEF LifeTypeOK, IInv, TypeOK, Opening, Dying, Settings, Links, Goto, At
<1>1. ASSUME NEW d \in Doms, Bind(d) \/ BufRequest(d) \/ Drop(d) \/ Made(d) \/ EndCamera(d)
      PROVE  LifeTypeOK'
  <2>1. CASE Bind(d)
    BY <2>1 DEF Bind, Join, Enter, mediaVars, cameraVars, countVars
  <2>2. CASE BufRequest(d)
    BY <2>2 DEF BufRequest, managerVars, vars, mediaVars, countVars
  <2>3. CASE Drop(d)
    BY <2>3 DEF Drop, mediaVars, cameraVars, countVars
  <2>4. CASE Made(d)
    BY <2>4 DEF Made, mediaVars, cameraVars, countVars
  <2>5. CASE EndCamera(d)
    BY <2>5 DEF EndCamera, mediaVars, countVars
  <2> QED
    BY <1>1, <2>1, <2>2, <2>3, <2>4, <2>5
<1>2. ASSUME NEW h \in Handlers, Work(h)
      PROVE  LifeTypeOK'
  <2> USE DEF managerVars, vars, mediaVars, cameraVars, countVars
  <2>1. CASE Parse(h) \/ ReadConfig(h)
    BY <2>1 DEF Parse, ReadConfig, AfterMedia
  <2>2. CASE OpenMedia(h)
    BY <2>2 DEF OpenMedia, SameMedia
  <2>3. CASE ResetLinks(h) \/ Undo(h) \/ EndMedia(h)
    BY <2>3 DEF ResetLinks, Undo, EndMedia, MediaRelease
  <2>4. CASE SetUp(h)
    BY <2>4 DEF SetUp, AfterMedia, NextSetting
  <2>5. CASE OpenVideo(h) \/ Probe(h) \/ EnumerateControls(h)
    BY <2>5 DEF OpenVideo, Probe, EnumerateControls, CameraThrows
  <2>6. CASE Catch(h)
    BY <2>6 DEF Catch, MediaRelease
  <2>7. CASE Count(h) \/ CountUp(h) \/ Stop(h) \/ CountDown(h)
    <3>1. lost' \in BOOLEAN
      <4>1. lost' = lost \/ lost' = (lost \/ dom_cnt # read[h])
        BY <2>7 DEF Count, CountUp, Stop, CountDown, ReadCount, WriteCount
      <4> QED
        BY <4>1
    <3>2. /\ UNCHANGED <<managerVars, mediaVars, cameraVars, main>>
          /\ step' \in [Handlers -> Opening \cup Dying \cup {"idle"}]
          /\ dom_cnt' \in Int /\ read' \in [Handlers -> Int]
      BY <2>7 DEF Count, CountUp, Stop, CountDown, ReadCount, WriteCount
    <3> QED
      BY <3>1, <3>2
  <2> QED
    BY <1>2, <2>1, <2>2, <2>3, <2>4, <2>5, <2>6, <2>7 DEF Work
<1>3. CASE Wait \/ Signal \/ Leave \/ UNCHANGED lifeVars
  BY <1>3 DEF Wait, Signal, Leave, managerVars, vars, mediaVars, cameraVars, countVars, lifeVars
<1> QED
  BY <1>1, <1>2, <1>3 DEF LifeNext

LEMMA FitsStep ==
    ASSUME LifeTypeOK, Fits, IInv, IInv', [LifeNext]_lifeVars
    PROVE  Fits'
<1> USE ManagerAssumption DEF LifeTypeOK, Fits, TypeOK, Opening, Dying, Settings, Links, Goto, At
<1>1. ASSUME NEW d \in Doms, Bind(d) \/ BufRequest(d) \/ Drop(d) \/ Made(d) \/ EndCamera(d)
      PROVE  Fits'
  <2>1. ASSUME NEW u \in UniqueIds, Join(d, u)
        PROVE  Fits'
    BY <2>1 DEF Join, Share
  <2>2. ASSUME NEW u \in UniqueIds, Enter(d, u)
        PROVE  Fits'
    BY <2>2 DEF Enter, Create
  <2>3. CASE BufRequest(d)
    BY <2>3 DEF BufRequest, managerVars, vars
  <2>4. CASE Drop(d)
    <3>1. held[d] \in Handlers /\ object[held[d]] = "alive"
      BY <2>4 DEF Drop, Close, IInv, Holders
    <3> QED
      BY <2>4, <3>1 DEF Drop, Close
  <2>5. CASE Made(d)
    BY <2>5 DEF Made, Created
  <2>6. CASE EndCamera(d)
    BY <2>6 DEF EndCamera, Destroyed
  <2> QED
    BY <1>1, <2>1, <2>2, <2>3, <2>4, <2>5, <2>6 DEF Bind
<1>2. ASSUME NEW h \in Handlers, Work(h)
      PROVE  Fits'
  <2>1. UNCHANGED object /\ \E s \in Opening \cup Dying : step' = [step EXCEPT ![h] = s]
    BY <1>2 DEF Work, managerVars, vars, Parse, ReadConfig, OpenMedia, ResetLinks, SetUp, Undo,
                OpenVideo, Probe, EnumerateControls, CameraThrows, Catch, Count, CountUp, Stop,
                CountDown, EndMedia, ReadCount, WriteCount, AfterMedia, NextSetting
  <2>2. step[h] \in Opening => step'[h] \in Opening
    BY <1>2 DEF Work, Parse, ReadConfig, OpenMedia, ResetLinks, SetUp, Undo,
                OpenVideo, Probe, EnumerateControls, CameraThrows, Catch, Count, CountUp, Stop,
                CountDown, EndMedia, ReadCount, WriteCount, AfterMedia, NextSetting
  <2>3. (step[h] \in Dying /\ step'[h] \in Dying) \/ step[h] \in Opening
    BY <1>2 DEF Work, Parse, ReadConfig, OpenMedia, ResetLinks, SetUp, Undo,
                OpenVideo, Probe, EnumerateControls, CameraThrows, Catch, Count, CountUp, Stop,
                CountDown, EndMedia, ReadCount, WriteCount, AfterMedia, NextSetting
  <2> QED
    BY <2>1, <2>2, <2>3
<1>3. CASE Wait \/ Signal \/ Leave \/ UNCHANGED lifeVars
  BY <1>3 DEF Wait, Signal, Leave, managerVars, vars, lifeVars
<1> QED
  BY <1>1, <1>2, <1>3 DEF LifeNext

LEMMA HardwareStep ==
    ASSUME LifeTypeOK, Fits, Hardware, IInv, IInv', [LifeNext]_lifeVars
    PROVE  Hardware'
<1> USE ManagerAssumption DEF LifeTypeOK, Fits, Hardware, TypeOK, Opening, Dying, Settings, Links,
        Goto, At, Media, Video
<1>1. ASSUME NEW d \in Doms, Bind(d) \/ BufRequest(d) \/ Drop(d) \/ Made(d) \/ EndCamera(d)
      PROVE  Hardware'
  <2> USE DEF mediaVars, cameraVars
  <2>1. ASSUME NEW u \in UniqueIds, Join(d, u)
        PROVE  Hardware'
    BY <2>1 DEF Join, Share
  <2>2. ASSUME NEW u \in UniqueIds, Enter(d, u)
        PROVE  Hardware'
    BY <2>2 DEF Enter, Create
  <2>3. CASE BufRequest(d)
    BY <2>3 DEF BufRequest, managerVars, vars
  <2>4. CASE Drop(d)
    <3>1. held[d] \in Handlers /\ object[held[d]] = "alive"
      BY <2>4 DEF Drop, Close, IInv, Holders
    <3> QED
      BY <2>4, <3>1 DEF Drop, Close
  <2>5. CASE Made(d)
    BY <2>5 DEF Made, Created
  <2>6. CASE EndCamera(d)
    BY <2>6 DEF EndCamera, Destroyed
  <2> QED
    BY <1>1, <2>1, <2>2, <2>3, <2>4, <2>5, <2>6 DEF Bind
<1>2. ASSUME NEW h \in Handlers, Work(h)
      PROVE  Hardware'
  <2> USE DEF managerVars, vars, mediaVars, cameraVars
  <2>1. CASE Parse(h) \/ ReadConfig(h)
    BY <2>1 DEF Parse, ReadConfig, AfterMedia
  <2>2. CASE OpenMedia(h)
    BY <2>2 DEF OpenMedia
  <2>3. CASE ResetLinks(h)
    BY <2>3 DEF ResetLinks
  <2>4. CASE SetUp(h)
    BY <2>4 DEF SetUp, AfterMedia, NextSetting
  <2>5. CASE Undo(h)
    BY <2>5 DEF Undo, MediaRelease
  <2>6. CASE OpenVideo(h)
    BY <2>6 DEF OpenVideo
  <2>7. CASE Probe(h) \/ EnumerateControls(h)
    BY <2>7 DEF Probe, EnumerateControls, CameraThrows
  <2>8. CASE Catch(h)
    BY <2>8 DEF Catch, MediaRelease
  <2>9. CASE Count(h) \/ CountUp(h) \/ Stop(h) \/ CountDown(h)
    BY <2>9 DEF Count, CountUp, Stop, CountDown, ReadCount, WriteCount
  <2>10. CASE EndMedia(h)
    BY <2>10 DEF EndMedia, MediaRelease
  <2> QED
    BY <1>2, <2>1, <2>2, <2>3, <2>4, <2>5, <2>6, <2>7, <2>8, <2>9, <2>10 DEF Work
<1>3. CASE Wait \/ Signal \/ Leave \/ UNCHANGED lifeVars
  BY <1>3 DEF Wait, Signal, Leave, managerVars, vars, lifeVars, mediaVars, cameraVars
<1> QED
  BY <1>1, <1>2, <1>3 DEF LifeNext

-----------------------------------------------------------------------------
(* The counter, the pipeline and the buffers                                *)

CountInv == IsFiniteSet(Counted) /\ CountIsRight

\* What the handler of a media device has set up of the pipeline.
Done(h) ==
    IF h \in mMediaController THEN Settings
    ELSE CASE step[h] = "link2" -> {"link1"}
           [] step[h] = "source_fmt" -> Links
           [] step[h] = "sink_fmt" -> Links \cup {"source_fmt"}
           [] OTHER -> {}

\* A handler that met no other one is the only one with its media device, and finds
\* there what it has set up.
Pipelines ==
    \A h \in m_mediaDevice \ met :
        /\ \A g \in m_mediaDevice : Media(g) = Media(h) => g = h
        /\ Done(h) \subseteq pipeline[Media(h)]

LinksOwned ==
    \A m \in Medias : pipeline[m] \cap Links # {} => \E h \in m_mediaDevice : Media(h) = m

Queues ==
    \A v \in Videos : queue[v] # None =>
        queue[v] \in mCamera /\ object[queue[v]] \in {"alive", "dying"}

LEMMA CountStep ==
    ASSUME LifeTypeOK, Fits, CountInv, IInv, [LifeNext]_lifeVars
    PROVE  CountInv'
<1> USE ManagerAssumption DEF LifeTypeOK, Fits, TypeOK, Opening, Dying, Settings, Links, Goto, At,
        countVars
<1>1. ASSUME NEW d \in Doms, Bind(d) \/ BufRequest(d) \/ Drop(d) \/ Made(d) \/ EndCamera(d)
      PROVE  Counted' = Counted /\ UNCHANGED <<dom_cnt, lost>>
  <2>1. ASSUME NEW u \in UniqueIds, Join(d, u)
        PROVE  Counted' = Counted /\ UNCHANGED <<dom_cnt, lost>>
    BY <2>1 DEF Join, Share, Counted
  <2>2. ASSUME NEW u \in UniqueIds, Enter(d, u)
        PROVE  Counted' = Counted /\ UNCHANGED <<dom_cnt, lost>>
    BY <2>2 DEF Enter, Create, Counted
  <2>3. CASE BufRequest(d)
    BY <2>3 DEF BufRequest, managerVars, vars, Counted
  <2>4. CASE Drop(d)
    <3>1. held[d] \in Handlers /\ object[held[d]] = "alive"
      BY <2>4 DEF Drop, Close, IInv, Holders
    <3> QED
      BY <2>4, <3>1 DEF Drop, Close, Counted
  <2>5. CASE Made(d)
    BY <2>5 DEF Made, Created, Counted
  <2>6. CASE EndCamera(d)
    BY <2>6 DEF EndCamera, Destroyed, Counted
  <2> QED
    BY <1>1, <2>1, <2>2, <2>3, <2>4, <2>5, <2>6 DEF Bind
<1>2. ASSUME NEW h \in Handlers, Work(h)
      PROVE  \/ Counted' = Counted /\ UNCHANGED <<dom_cnt, lost>>
             \/ /\ h \notin Counted /\ Counted' = Counted \cup {h}
                /\ lost' = (lost \/ dom_cnt # read[h]) /\ dom_cnt' = read[h] + 1
             \/ /\ h \in Counted /\ Counted' = Counted \ {h}
                /\ lost' = (lost \/ dom_cnt # read[h]) /\ dom_cnt' = read[h] - 1
  <2> USE DEF managerVars, vars, Counted
  <2>1. CASE Count(h) \/ Stop(h)
    BY <2>1 DEF Count, Stop, ReadCount
  <2>2. CASE CountUp(h)
    BY <2>2 DEF CountUp, WriteCount
  <2>3. CASE CountDown(h)
    BY <2>3 DEF CountDown, WriteCount
  <2>4. CASE ~ (Count(h) \/ Stop(h) \/ CountUp(h) \/ CountDown(h))
    <3>1. UNCHANGED <<managerVars, dom_cnt, lost>>
      BY <1>2, <2>4 DEF Work, Parse, ReadConfig, OpenMedia, ResetLinks, SetUp, Undo, OpenVideo,
                    Probe, EnumerateControls, Catch, EndMedia
    <3>2. /\ \A g \in Handlers \ {h} : step'[g] = step[g]
          /\ object[h] = "opening" => step[h] # "made" /\ step'[h] # "made"
          /\ object[h] = "dying" => ~ (step[h] \in {"stop", "uncounted"}) /\ step'[h] = "unvideo"
          /\ object[h] \in {"opening", "dying"}
      BY <1>2, <2>4 DEF Work, Parse, ReadConfig, OpenMedia, ResetLinks, SetUp, Undo, OpenVideo,
                    Probe, EnumerateControls, CameraThrows, Catch, EndMedia, AfterMedia,
                    NextSetting
    <3> QED
      BY <3>1, <3>2
  <2> QED
    BY <2>1, <2>2, <2>3, <2>4
<1>3. CASE Wait \/ Signal \/ Leave \/ UNCHANGED lifeVars
  <2>1. UNCHANGED <<object, step, dom_cnt, lost>>
    BY <1>3 DEF Wait, Signal, Leave, managerVars, vars, lifeVars
  <2>2. Counted' = Counted
    BY <2>1 DEF Counted
  <2> QED
    BY <2>1, <2>2 DEF CountInv, CountIsRight
<1>4. ASSUME NEW d \in Doms, Bind(d) \/ BufRequest(d) \/ Drop(d) \/ Made(d) \/ EndCamera(d)
      PROVE  CountInv'
  BY <1>1, <1>4 DEF CountInv, CountIsRight
<1>5. ASSUME NEW h \in Handlers, Work(h)
      PROVE  CountInv'
  <2>1. /\ Cardinality(Counted) \in Nat
        /\ IsFiniteSet(Counted \cup {h}) /\ IsFiniteSet(Counted \ {h})
        /\ h \notin Counted => Cardinality(Counted \cup {h}) = Cardinality(Counted) + 1
        /\ h \in Counted => Cardinality(Counted \ {h}) = Cardinality(Counted) - 1
    BY FS_CardinalityType, FS_AddElement, FS_RemoveElement DEF CountInv
  <2>2. CASE Counted' = Counted /\ UNCHANGED <<dom_cnt, lost>>
    BY <2>2 DEF CountInv, CountIsRight
  <2>3. CASE /\ h \notin Counted /\ Counted' = Counted \cup {h}
             /\ lost' = (lost \/ dom_cnt # read[h]) /\ dom_cnt' = read[h] + 1
    BY <2>1, <2>3 DEF CountInv, CountIsRight
  <2>4. CASE /\ h \in Counted /\ Counted' = Counted \ {h}
             /\ lost' = (lost \/ dom_cnt # read[h]) /\ dom_cnt' = read[h] - 1
    BY <2>1, <2>4 DEF CountInv, CountIsRight
  <2> QED
    BY <1>2, <1>5, <2>2, <2>3, <2>4
<1> QED
  BY <1>3, <1>4, <1>5 DEF LifeNext

LEMMA PipelinesStep ==
    ASSUME LifeTypeOK, LifeTypeOK', Fits, Hardware, Pipelines, IInv, [LifeNext]_lifeVars
    PROVE  Pipelines'
<1> USE ManagerAssumption DEF LifeTypeOK, Fits, Hardware, Pipelines, TypeOK, Opening, Dying,
        Settings, Links, Goto, At, Media, Done, mediaVars
<1>1. ASSUME NEW d \in Doms, Bind(d) \/ BufRequest(d) \/ Drop(d) \/ Made(d) \/ EndCamera(d)
      PROVE  Pipelines'
  <2>1. ASSUME NEW u \in UniqueIds, Join(d, u)
        PROVE  Pipelines'
    BY <2>1 DEF Join, Share
  <2>2. ASSUME NEW u \in UniqueIds, Enter(d, u)
        PROVE  Pipelines'
    BY <2>2 DEF Enter, Create
  <2>3. CASE BufRequest(d)
    BY <2>3 DEF BufRequest, managerVars, vars
  <2>4. CASE Drop(d)
    <3>1. held[d] \in Handlers /\ object[held[d]] = "alive"
      BY <2>4 DEF Drop, Close, IInv, Holders
    <3> QED
      BY <2>4, <3>1 DEF Drop, Close
  <2>5. CASE Made(d)
    BY <2>5 DEF Made, Created
  <2>6. CASE EndCamera(d)
    BY <2>6 DEF EndCamera, Destroyed
  <2> QED
    BY <1>1, <2>1, <2>2, <2>3, <2>4, <2>5, <2>6 DEF Bind
<1>2. ASSUME NEW h \in Handlers, Work(h)
      PROVE  Pipelines'
  <2> USE DEF managerVars, vars
  <2>1. camera' = camera /\ \A g \in Handlers : Media(g)' = Media(g)
    BY <1>2 DEF Work, Parse, ReadConfig, OpenMedia, ResetLinks, SetUp, Undo, OpenVideo, Probe,
                EnumerateControls, Catch, Count, CountUp, Stop, CountDown, EndMedia, ReadCount,
                WriteCount
  <2>2. h \in m_mediaDevice \/ step[h] = "media" => Media(h) \in Medias
    BY IdParses DEF IInv, Named
  <2>3. \A g \in Handlers \ {h} :
           /\ Done(g)' = Done(g)
           /\ g \in m_mediaDevice' <=> g \in m_mediaDevice
           /\ g \in m_mediaDevice \ met' => g \in m_mediaDevice \ met
    BY <1>2 DEF Work, Parse, ReadConfig, OpenMedia, ResetLinks, SetUp, Undo, OpenVideo, Probe,
                EnumerateControls, CameraThrows, Catch, Count, CountUp, Stop, CountDown, EndMedia,
                ReadCount, WriteCount, MediaRelease, AfterMedia, NextSetting
  <2>4. h \in m_mediaDevice' \ met' => h \in m_mediaDevice \ met \/ OpenMedia(h)
    BY <1>2 DEF Work, Parse, ReadConfig, ResetLinks, SetUp, Undo, OpenVideo, Probe,
                EnumerateControls, CameraThrows, Catch, Count, CountUp, Stop, CountDown, EndMedia,
                ReadCount, WriteCount, MediaRelease
  <2>5. /\ pipeline' = pipeline \/ h \in m_mediaDevice
        /\ \A m \in Medias : m # Media(h) => pipeline'[m] = pipeline[m]
    BY <1>2 DEF Work, Parse, ReadConfig, OpenMedia, ResetLinks, SetUp, Undo, OpenVideo, Probe,
                EnumerateControls, CameraThrows, Catch, Count, CountUp, Stop, CountDown, EndMedia,
                ReadCount, WriteCount, MediaRelease
  <2>6. h \in m_mediaDevice' \ met' => Done(h)' \subseteq pipeline'[Media(h)]
    <3>1. CASE OpenMedia(h) \/ ResetLinks(h)
      BY <2>2, <3>1 DEF OpenMedia, ResetLinks
    <3>2. CASE SetUp(h)
      BY <2>2, <3>2 DEF SetUp, NextSetting, AfterMedia
    <3>3. CASE Undo(h) \/ EndMedia(h)
      BY <3>3 DEF Undo, EndMedia, MediaRelease
    <3>4. CASE Catch(h)
      BY <3>4 DEF Catch, MediaRelease
    <3>5. CASE Parse(h) \/ ReadConfig(h) \/ OpenVideo(h) \/ Probe(h) \/ EnumerateControls(h)
      BY <3>5 DEF Parse, ReadConfig, OpenVideo, Probe, EnumerateControls, CameraThrows, AfterMedia
    <3>6. CASE Count(h) \/ CountUp(h) \/ Stop(h) \/ CountDown(h)
      BY <3>6 DEF Count, CountUp, Stop, CountDown, ReadCount, WriteCount
    <3> QED
      BY <1>2, <3>1, <3>2, <3>3, <3>4, <3>5, <3>6 DEF Work
  <2>7. h \in m_mediaDevice' => h \in m_mediaDevice \/ OpenMedia(h)
    BY <1>2 DEF Work, Parse, ReadConfig, ResetLinks, SetUp, Undo, OpenVideo, Probe,
                EnumerateControls, CameraThrows, Catch, Count, CountUp, Stop, CountDown, EndMedia,
                ReadCount, WriteCount, MediaRelease
  <2>8. ASSUME NEW k \in m_mediaDevice' \ met'
        PROVE  /\ \A g \in m_mediaDevice' : Media(g) = Media(k) => g = k
               /\ Done(k)' \subseteq pipeline'[Media(k)]
    <3>1. ASSUME NEW g \in m_mediaDevice', Media(g) = Media(k)
          PROVE  g = k
      <4>1. CASE OpenMedia(h)
        BY <2>1, <2>3, <2>8, <3>1, <4>1 DEF OpenMedia, SameMedia
      <4>2. CASE ~ OpenMedia(h)
        <5>1. m_mediaDevice' \subseteq m_mediaDevice
          BY <2>3, <2>7, <4>2
        <5>2. k \in m_mediaDevice \ met
          BY <2>3, <2>4, <2>8, <4>2
        <5> QED
          BY <3>1, <5>1, <5>2
      <4> QED
        BY <4>1, <4>2
    <3>2. CASE k = h
      BY <2>6, <2>8, <3>1, <3>2
    <3>3. CASE k # h
      <4>1. k \in m_mediaDevice \ met /\ Done(k)' = Done(k)
        BY <2>3, <2>8, <3>3
      <4>2. Media(k) \in Medias
        BY <4>1, IdParses DEF IInv, Named
      <4>3. pipeline'[Media(k)] = pipeline[Media(k)]
        BY <2>5, <3>3, <4>1, <4>2
      <4> HIDE DEF Done, Media
      <4>4. Done(k) \subseteq pipeline[Media(k)]
        BY <4>1
      <4> QED
        BY <3>1, <4>1, <4>3, <4>4
    <3> QED
      BY <3>1, <3>2, <3>3
  <2> QED
    BY <2>1, <2>8
<1>3. CASE Wait \/ Signal \/ Leave \/ UNCHANGED lifeVars
  BY <1>3 DEF Wait, Signal, Leave, managerVars, vars, lifeVars
<1> QED
  BY <1>1, <1>2, <1>3 DEF LifeNext

LEMMA LinksStep ==
    ASSUME LifeTypeOK, LifeTypeOK', Fits, Hardware, LinksOwned, IInv, [LifeNext]_lifeVars
    PROVE  LinksOwned'
<1> USE ManagerAssumption DEF LifeTypeOK, Fits, Hardware, TypeOK, Opening, Dying,
        Settings, Links, Goto, At, Media, mediaVars
<1>1. ASSUME NEW m \in Medias, pipeline'[m] \cap Links # {}
      PROVE  \E h \in m_mediaDevice' : Media(h)' = m
  <2>1. CASE pipeline[m] \cap Links # {}
    <3>1. PICK g \in m_mediaDevice : Media(g) = m
      BY <2>1 DEF LinksOwned
    <3>2. ASSUME NEW d \in Doms, Bind(d) \/ BufRequest(d) \/ Drop(d) \/ Made(d) \/ EndCamera(d)
          PROVE  g \in m_mediaDevice' /\ camera'[g] = camera[g]
      <4>1. m_mediaDevice' = m_mediaDevice
        BY <3>2 DEF Bind, Join, Enter, BufRequest, Drop, Made, EndCamera
      <4>2. object[g] # "none" /\ step[g] # "unvideo"
        BY <3>1
      <4>3. ASSUME NEW u \in UniqueIds, Enter(d, u)
            PROVE  camera'[g] = camera[g]
        BY <4>2, <4>3 DEF Enter, Create
      <4>4. CASE EndCamera(d)
        BY <4>2, <4>4 DEF EndCamera, Destroyed
      <4>5. ASSUME NEW u \in UniqueIds, Join(d, u)
            PROVE  camera'[g] = camera[g]
        BY <4>5 DEF Join, Share
      <4>6. CASE BufRequest(d) \/ Drop(d) \/ Made(d)
        BY <4>6 DEF BufRequest, Drop, Made, Close, Created, managerVars, vars
      <4> QED
        BY <3>1, <3>2, <4>1, <4>3, <4>4, <4>5, <4>6 DEF Bind
    <3>3. ASSUME NEW h \in Handlers, Work(h), g \notin m_mediaDevice'
          PROVE  FALSE
      <4>1. h = g /\ (Undo(h) \/ Catch(h) \/ EndMedia(h)) /\ MediaRelease(h)
        BY <3>1, <3>3 DEF Work, Parse, ReadConfig, OpenMedia, ResetLinks, SetUp, Undo, OpenVideo,
                  Probe, EnumerateControls, Catch, Count, CountUp, Stop, CountDown, EndMedia,
                  ReadCount, WriteCount, MediaRelease
      <4>2. pipeline' = [pipeline EXCEPT ![m] = @ \ Links]
        BY <3>1, <4>1 DEF MediaRelease
      <4> QED
        BY <1>1, <4>2
    <3>4. ASSUME NEW h \in Handlers, Work(h)
          PROVE  camera' = camera
      BY <3>4 DEF Work, Parse, ReadConfig, OpenMedia, ResetLinks, SetUp, Undo, OpenVideo, Probe,
                  EnumerateControls, Catch, Count, CountUp, Stop, CountDown, EndMedia, ReadCount,
                  WriteCount, managerVars, vars
    <3>5. CASE Wait \/ Signal \/ Leave \/ UNCHANGED lifeVars
      BY <3>1, <3>5 DEF Wait, Signal, Leave, managerVars, vars, lifeVars
    <3> QED
      BY <3>1, <3>2, <3>3, <3>4, <3>5 DEF LifeNext
  <2>2. CASE pipeline[m] \cap Links = {}
    <3>1. ASSUME NEW d \in Doms, Bind(d) \/ BufRequest(d) \/ Drop(d) \/ Made(d) \/ EndCamera(d)
          PROVE  pipeline' = pipeline
      BY <3>1 DEF Bind, Join, Enter, BufRequest, Drop, Made, EndCamera
    <3>2. Wait \/ Signal \/ Leave \/ UNCHANGED lifeVars => pipeline' = pipeline
      BY DEF Wait, Signal, Leave, lifeVars
    <3>3. pipeline' # pipeline
      BY <1>1, <2>2
    <3>4. PICK h \in Handlers : Work(h)
      BY <3>1, <3>2, <3>3 DEF LifeNext
    <3>5. SetUp(h) /\ Media(h) = m
      <4>1. ResetLinks(h) \/ SetUp(h) \/ MediaRelease(h)
        BY <3>3, <3>4 DEF Work, Parse, ReadConfig, OpenMedia, Undo, OpenVideo, Probe,
                  EnumerateControls, Catch, Count, CountUp, Stop, CountDown, EndMedia, ReadCount,
                  WriteCount
      <4>2. ASSUME ResetLinks(h) \/ MediaRelease(h)
            PROVE  pipeline'[m] \subseteq pipeline[m]
        BY <4>2 DEF ResetLinks, MediaRelease
      <4>3. SetUp(h) /\ Media(h) # m => pipeline'[m] = pipeline[m]
        BY DEF SetUp
      <4> QED
        BY <1>1, <2>2, <4>1, <4>2, <4>3
    <3> QED
      BY <3>5 DEF SetUp, managerVars, vars
  <2> QED
    BY <2>1, <2>2
<1> QED
  BY <1>1 DEF LinksOwned

LEMMA QueuesStep ==
    ASSUME LifeTypeOK, Fits, Hardware, Queues, IInv, [LifeNext]_lifeVars
    PROVE  Queues'
<1> USE ManagerAssumption DEF LifeTypeOK, Fits, Hardware, Queues, TypeOK, Opening, Dying,
        Settings, Links, Goto, At, cameraVars
<1>1. ASSUME NEW d \in Doms, Bind(d) \/ BufRequest(d) \/ Drop(d) \/ Made(d) \/ EndCamera(d)
      PROVE  Queues'
  <2>1. ASSUME NEW u \in UniqueIds, Join(d, u)
        PROVE  Queues'
    BY <2>1 DEF Join, Share
  <2>2. ASSUME NEW u \in UniqueIds, Enter(d, u)
        PROVE  Queues'
    BY <2>2 DEF Enter, Create
  <2>3. CASE BufRequest(d)
    BY <2>3 DEF BufRequest, managerVars, vars, IInv, Holders
  <2>4. CASE Drop(d)
    <3>1. held[d] \in Handlers /\ object[held[d]] = "alive"
      BY <2>4 DEF Drop, Close, IInv, Holders
    <3> QED
      BY <2>4, <3>1 DEF Drop, Close
  <2>5. CASE Made(d)
    BY <2>5 DEF Made, Created
  <2>6. CASE EndCamera(d)
    BY <2>6 DEF EndCamera, Destroyed
  <2> QED
    BY <1>1, <2>1, <2>2, <2>3, <2>4, <2>5, <2>6 DEF Bind
<1>2. ASSUME NEW h \in Handlers, Work(h)
      PROVE  Queues'
  <2>1. /\ object' = object /\ queue' = queue
        /\ h \notin mCamera \/ mCamera' = mCamera
        /\ mCamera \ {h} \subseteq mCamera'
    BY <1>2 DEF Work, Parse, ReadConfig, OpenMedia, ResetLinks, SetUp, Undo, OpenVideo, Probe,
                EnumerateControls, CameraThrows, Catch, Count, CountUp, Stop, CountDown, EndMedia,
                ReadCount, WriteCount, managerVars, vars
  <2> QED
    BY <2>1
<1>3. CASE Wait \/ Signal \/ Leave \/ UNCHANGED lifeVars
  BY <1>3 DEF Wait, Signal, Leave, managerVars, vars, lifeVars
<1> QED
  BY <1>1, <1>2, <1>3 DEF LifeNext

-----------------------------------------------------------------------------
(* Theorems                                                                 *)

LInv == LifeTypeOK /\ Fits /\ Hardware /\ CountInv /\ Pipelines /\ LinksOwned /\ Queues

LEMMA InitLInv == LifeInit => LInv
<1> SUFFICES ASSUME LifeInit PROVE LInv
  OBVIOUS
<1> USE ManagerAssumption DEF LifeInit, Init, Opening, Dying, Settings, Links
<1>1. LifeTypeOK
  <2>1. TypeOK /\ pipeline \in [Medias -> SUBSET Settings]
    BY DEF TypeOK
  <2>2. step \in [Handlers -> Opening \cup Dying \cup {"idle"}] /\ lost \in BOOLEAN
    OBVIOUS
  <2> QED
    BY <2>1, <2>2 DEF LifeTypeOK
<1>2. Fits /\ Hardware /\ Pipelines /\ LinksOwned
  BY DEF Fits, Hardware, Pipelines, LinksOwned
<1>3. CountInv
  <2>1. Counted = {}
    BY DEF Counted
  <2> QED
    BY <2>1, FS_EmptySet DEF CountInv, CountIsRight
<1>4. Queues
  BY DEF Queues
<1> QED
  BY <1>1, <1>2, <1>3, <1>4 DEF LInv

LEMMA LInvHolds == LifeSpec => [](LInv /\ IInv)
<1>1. LInv /\ IInv /\ IInv' /\ [LifeNext]_lifeVars => LInv'
  BY TypeStep, FitsStep, HardwareStep, CountStep, PipelinesStep, LinksStep, QueuesStep DEF LInv
<1> QED
  BY <1>1, InitLInv, ManagerInv, PTL DEF LifeSpec

\* The state of the handlers, the devices and the process has its type.
THEOREM LifeTypes == LifeSpec => []LifeTypeOK
<1>1. LInv => LifeTypeOK
  BY DEF LInv
<1> QED
  BY <1>1, LInvHolds, PTL

\* As long as no two updates of dom_cnt overlapped, it is the number of handlers,
\* however many failed to construct.
THEOREM CounterCounts == LifeSpec => []CountIsRight
<1>1. LInv => CountIsRight
  BY DEF LInv, CountInv
<1> QED
  BY <1>1, LInvHolds, PTL

\* A constructor that fails half way leaves nothing of what it opened to the handler.
THEOREM HardwareIsWhole == LifeSpec => []AllOrNothing
<1>1. LInv => AllOrNothing
  <2> SUFFICES ASSUME LInv, NEW h \in Handlers, object[h] = "alive"
               PROVE  /\ h \in mFd <=> h \in mCamera
                      /\ h \in m_mediaDevice <=> h \in mMediaController
                      /\ h \in mMediaController <=> h \in mCamera /\ Media(h) # None
    BY DEF AllOrNothing
  <2>1. step[h] = "idle"
    BY DEF LInv, Fits
  <2> QED
    BY <2>1 DEF LInv, Hardware, Settings, Links
<1> QED
  BY <1>1, LInvHolds, PTL

\* A handler that shares its media device with no other keeps the pipeline it set up.
THEOREM PipelinesStand == LifeSpec => []PipelineStands
<1>1. LInv /\ IInv => PipelineStands
  <2> SUFFICES ASSUME LInv, IInv, NEW h \in mMediaController, h \notin met
               PROVE  pipeline[Media(h)] = Settings
    BY DEF PipelineStands
  <2>1. h \in m_mediaDevice /\ Media(h) \in Medias
    BY IdParses DEF LInv, LifeTypeOK, Hardware, Media, IInv, Named
  <2>2. Settings \subseteq pipeline[Media(h)]
    BY <2>1 DEF LInv, Pipelines, Done
  <2> QED
    BY <2>1, <2>2 DEF LInv, LifeTypeOK
<1> QED
  BY <1>1, LInvHolds, PTL

\* Whatever a handler opened or requested is given back with it.
THEOREM AllIsReturned == LifeSpec => []NothingLeft
<1>1. LInv => NothingLeft
  BY ManagerAssumption DEF LInv, LifeTypeOK, TypeOK, Fits, Hardware, Queues, LinksOwned,
                           NothingLeft, Opening, Dying, Settings, Links
<1> QED
  BY <1>1, LInvHolds, PTL

\* The only handlers that can hold a device's buffers against a handler are the one
\* before it, on its way out, and those of another spelling of its unique id.
THEOREM BusyIsHandover == LifeSpec => []BusyOnlyAtHandover
<1>1. LInv /\ IInv => BusyOnlyAtHandover
  <2> SUFFICES ASSUME LInv, IInv, NEW h \in mCamera, object[h] = "alive",
                      NEW o, o = queue[Video(h)], o \notin {None, h}, object[o] # "dying"
               PROVE  object[o] = "alive" /\ camera[o] # camera[h]
    BY DEF BusyOnlyAtHandover
  <2>1. o \in Handlers /\ object[o] = "alive"
    BY DEF LInv, LifeTypeOK, Hardware, Queues
  <2>2. PICK d \in Doms, e \in Doms : held[d] = h /\ held[e] = o
    BY <2>1 DEF LInv, LifeTypeOK, IInv, Owned
  <2>3. mCameraHandlers[camera[h]] = h /\ mCameraHandlers[camera[o]] = o
    BY <2>1, <2>2, ManagerAssumption DEF LInv, LifeTypeOK, IInv, Holders
  <2> QED
    BY <2>1, <2>3
<1> QED
  BY <1>1, LInvHolds, PTL

LEMMA Places ==
    /\ Place["parse"] = 1 /\ Place["config"] = 2 /\ Place["media"] = 3 /\ Place["reset"] = 4 /\ Place["link1"] = 5
    /\ Place["link2"] = 6 /\ Place["source_fmt"] = 7 /\ Place["sink_fmt"] = 8 /\ Place["undo"] = 9 /\ Place["open"] = 10
    /\ Place["probe"] = 11 /\ Place["controls"] = 12 /\ Place["failed"] = 13 /\ Place["count"] = 14 /\ Place["counted"] = 15
    /\ Place["made"] = 16 /\ Place["stop"] = 17 /\ Place["uncounted"] = 18 /\ Place["unmedia"] = 19 /\ Place["unvideo"] = 20
BY DEF Place

\* Every constructor and destructor goes one way, through at most sixteen and four
\* steps, and lets go of its handler at the end (CameraHandler.cpp:19-54, 56-83).
THEOREM ConstructionGoesOneWay == LifeSpec => OneWay
<1> DEFINE Ahead(h) ==
             step[h] # "idle" /\ step'[h] # step[h] =>
                IF step'[h] = "idle" THEN step[h] \in {"made", "unvideo"}
                ELSE Place[step'[h]] > Place[step[h]]
<1>1. ASSUME LInv, IInv, [LifeNext]_lifeVars, NEW h \in Handlers
      PROVE  Ahead(h)
  <2> USE <1>1, Places DEF LInv, LifeTypeOK, TypeOK, Fits, Opening, Dying, Settings, Links, Goto, At
  <2>1. ASSUME NEW d \in Doms, Bind(d) \/ BufRequest(d) \/ Drop(d) \/ Made(d) \/ EndCamera(d)
        PROVE  Ahead(h)
    <3>1. ASSUME NEW u \in UniqueIds, Join(d, u) \/ Enter(d, u)
          PROVE  Ahead(h)
      BY <3>1, ManagerAssumption DEF Join, Enter, Create
    <3>2. CASE BufRequest(d)
      BY <3>2 DEF BufRequest
    <3>3. CASE Drop(d)
      <4>1. held[d] \in Handlers /\ object[held[d]] = "alive"
        BY <3>3 DEF Drop, Close, IInv, Holders
      <4> QED
        BY <3>3, <4>1 DEF Drop
    <3>4. CASE Made(d) \/ EndCamera(d)
      BY <3>4 DEF Made, EndCamera
    <3> QED
      BY <2>1, <3>1, <3>2, <3>3, <3>4 DEF Bind
  <2>2. ASSUME NEW g \in Handlers, Work(g)
        PROVE  Ahead(h)
    <3>1. CASE Parse(g) \/ ReadConfig(g) \/ OpenMedia(g) \/ ResetLinks(g) \/ Undo(g)
      BY <3>1 DEF Parse, ReadConfig, OpenMedia, ResetLinks, Undo, AfterMedia
    <3>2. CASE SetUp(g)
      BY <3>2 DEF SetUp, AfterMedia, NextSetting
    <3>3. CASE OpenVideo(g) \/ Probe(g) \/ EnumerateControls(g) \/ Catch(g)
      BY <3>3 DEF OpenVideo, Probe, EnumerateControls, CameraThrows, Catch
    <3>4. CASE Count(g) \/ CountUp(g) \/ Stop(g) \/ CountDown(g) \/ EndMedia(g)
      BY <3>4 DEF Count, CountUp, Stop, CountDown, EndMedia, ReadCount, WriteCount
    <3> QED
      BY <2>2, <3>1, <3>2, <3>3, <3>4 DEF Work
  <2>3. CASE Wait \/ Signal \/ Leave \/ UNCHANGED lifeVars
    BY <2>3 DEF Wait, Signal, Leave, lifeVars
  <2> QED
    BY <2>1, <2>2, <2>3 DEF LifeNext
<1> HIDE DEF Ahead
<1>2. LInv /\ IInv /\ [LifeNext]_lifeVars => [\A h \in Handlers : Ahead(h)]_lifeVars
  BY <1>1
<1> QED
  BY <1>2, LInvHolds, PTL DEF LifeSpec, OneWay, Ahead

\* Once the process has ended, no frontend has a handler any more.
Over == main = "ended" => \A d \in Doms : Unbound(d)

LEMMA OverStep == Over /\ [LifeNext]_lifeVars => Over'
<1> SUFFICES ASSUME Over, [LifeNext]_lifeVars PROVE Over'
  OBVIOUS
<1>1. ASSUME NEW d \in Doms, Bind(d) \/ BufRequest(d) \/ Drop(d) \/ Made(d) \/ EndCamera(d)
      PROVE  Over'
  <2>1. main' = main
    BY <1>1 DEF Bind, Join, Enter, BufRequest, Drop, Made, EndCamera
  <2>2. CASE main = "ended"
    <3>1. Unbound(d)
      BY <2>2 DEF Over
    <3>2. BufRequest(d)
      BY <1>1, <2>2, <3>1 DEF Bind, Join, Enter, Drop, Close, Made, EndCamera, Unbound
    <3> QED
      BY <3>2 DEF BufRequest, managerVars, vars, Over, Unbound
  <2> QED
    BY <2>1, <2>2 DEF Over
<1>2. ASSUME NEW h \in Handlers, Work(h)
      PROVE  Over'
  <2>1. UNCHANGED <<managerVars, main>>
    BY <1>2 DEF Work, Parse, ReadConfig, OpenMedia, ResetLinks, SetUp, Undo, OpenVideo, Probe,
                EnumerateControls, Catch, Count, CountUp, Stop, CountDown, EndMedia, ReadCount,
                WriteCount
  <2> QED
    BY <2>1 DEF managerVars, vars, Over, Unbound
<1>3. CASE Wait \/ Signal \/ Leave \/ UNCHANGED lifeVars
  BY <1>3 DEF Wait, Signal, Leave, managerVars, vars, lifeVars, Over, Unbound
<1> QED
  BY <1>1, <1>2, <1>3 DEF LifeNext

\* When main() returns, every handler has been destroyed with all it had opened
\* (main.cpp:129-136, Backend's destructor).
THEOREM EndIsClean == LifeSpec => []EndsClean
<1>1. LifeInit => Over
  BY DEF LifeInit, Over
<1>2. LInv /\ IInv /\ NothingLeft /\ Over => EndsClean
  <2> SUFFICES ASSUME LInv, IInv, NothingLeft, Over, main = "ended"
               PROVE  /\ mFd = {} /\ m_mediaDevice = {}
                      /\ \A v \in Videos : queue[v] = None
                      /\ \A m \in Medias : pipeline[m] \cap Links = {}
    BY DEF EndsClean
  <2>1. \A h \in Handlers : object[h] = "none"
    BY ManagerAssumption DEF Over, Unbound, LInv, LifeTypeOK, TypeOK, IInv, Owned
  <2>2. mFd = {} /\ m_mediaDevice = {} /\ \A v \in Videos : queue[v] = None
    BY <2>1 DEF NothingLeft, LInv, LifeTypeOK
  <2>3. \A m \in Medias : pipeline[m] \cap Links = {}
    BY <2>2 DEF NothingLeft
  <2> QED
    BY <2>2, <2>3
<1> QED
  BY <1>1, <1>2, OverStep, LInvHolds, AllIsReturned, PTL DEF LifeSpec
=============================================================================

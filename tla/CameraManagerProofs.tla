------------------------- MODULE CameraManagerProofs -------------------------
(***************************************************************************)
(* Theorems about CameraManager, for any frontends, cameras and handlers.   *)
(***************************************************************************)
EXTENDS CameraManager, FiniteSetTheorems, TLAPS

-----------------------------------------------------------------------------
(* The inductive invariant                                                  *)

\* A thread that constructs or destroys holds nothing, is the only one with that
\* object, and constructs only with the manager's lock.
Makers ==
    /\ \A d \in Doms : mine[d] # None =>
          held[d] = None /\ object[mine[d]] \in {"opening", "dying"}
    /\ \A d, e \in Doms : mine[d] # None /\ mine[d] = mine[e] => d = e
    /\ \A d \in Doms : mine[d] # None /\ object[mine[d]] = "opening" => mLock = "taken"
    /\ \A d, e \in Doms :
          /\ mine[d] # None /\ object[mine[d]] = "opening"
          /\ mine[e] # None /\ object[mine[e]] = "opening"
          => d = e

\* What a frontend holds is alive, and is what the map says of its camera; a
\* camera that is being opened is held by nobody.
Holders ==
    /\ \A d \in Doms : held[d] # None =>
          object[held[d]] = "alive" /\ mCameraHandlers[camera[held[d]]] = held[d]
    /\ \A d \in Doms : mine[d] # None /\ object[mine[d]] = "opening" =>
          Expired(camera[mine[d]])

\* Every object that exists is somebody's.
Owned ==
    \A h \in Handlers :
        /\ object[h] = "alive" => \E d \in Doms : held[d] = h
        /\ object[h] \in {"opening", "dying"} => \E d \in Doms : mine[d] = h

\* Every object was made for a camera.
Named == \A h \in Handlers : object[h] # "none" => camera[h] \in UniqueIds

IInv == TypeOK /\ Makers /\ Holders /\ Owned /\ Named

LEMMA InitIInv == Init => IInv
BY ManagerAssumption DEF Init, IInv, TypeOK, Makers, Holders, Owned, Named

LEMMA ShareStep ==
    ASSUME IInv, NEW d \in Doms, NEW u \in UniqueIds, Share(d, u)
    PROVE  IInv'
<1> USE ManagerAssumption DEF IInv
<1>1. held' = [held EXCEPT ![d] = mCameraHandlers[u]]
  BY DEF Share
<1>2. PICK e \in Doms : held[e] # None /\ held[e] = mCameraHandlers[u]
  BY DEF Share, Expired
<1>3. TypeOK'
  BY DEF Share, TypeOK
<1>4. Makers'
  BY DEF Share, TypeOK, Makers, Unbound
<1>5. Holders'
  <2>1. \A c \in Doms : held'[c] # None =>
           object[held'[c]] = "alive" /\ mCameraHandlers[camera[held'[c]]] = held'[c]
    BY <1>1, <1>2 DEF TypeOK, Holders
  <2>2. \A c \in Doms : mine[c] # None => object[mine[c]] # "opening"
    BY DEF Share, Makers
  <2> QED
    BY <2>1, <2>2 DEF Share, Holders
<1>6. Owned'
  BY DEF Share, TypeOK, Owned, Unbound
<1>7. Named'
  BY DEF Share, Named
<1> QED
  BY <1>3, <1>4, <1>5, <1>6, <1>7

LEMMA CreateStep ==
    ASSUME IInv, NEW d \in Doms, NEW u \in UniqueIds, Create(d, u)
    PROVE  IInv'
<1> USE ManagerAssumption DEF IInv
<1>1. PICK h \in Handlers :
         /\ object[h] = "none"
         /\ object' = [object EXCEPT ![h] = "opening"]
         /\ camera' = [camera EXCEPT ![h] = u]
         /\ mine' = [mine EXCEPT ![d] = h]
  BY DEF Create
<1>2. /\ UNCHANGED <<mCameraHandlers, held>> /\ mLock' = "taken"
      /\ Unbound(d) /\ mLock = "free" /\ Expired(u)
  BY DEF Create
<1>3. TypeOK'
  BY <1>1, <1>2 DEF TypeOK
<1>4. \A e \in Doms : held[e] # h /\ mine[e] # h
  BY <1>1 DEF Makers, Holders
<1>5. Makers'
  BY <1>1, <1>2, <1>4 DEF TypeOK, Makers, Unbound
<1>6. Holders'
  BY <1>1, <1>2, <1>4 DEF TypeOK, Makers, Holders, Expired
<1>7. Owned'
  BY <1>1, <1>2, <1>4 DEF TypeOK, Owned, Unbound
<1>8. Named'
  BY <1>1 DEF TypeOK, Named
<1> QED
  BY <1>3, <1>5, <1>6, <1>7, <1>8

LEMMA CreatedStep ==
    ASSUME IInv, NEW d \in Doms, Created(d)
    PROVE  IInv'
<1> USE ManagerAssumption DEF IInv
<1> DEFINE h == mine[d]
<1>1. /\ h \in Handlers /\ object[h] = "opening" /\ held[d] = None
      /\ camera[h] \in UniqueIds /\ Expired(camera[h])
  BY DEF Created, TypeOK, Makers, Holders, Named
<1>2. /\ object' = [object EXCEPT ![h] = "alive"]
      /\ mCameraHandlers' = [mCameraHandlers EXCEPT ![camera[h]] = h]
      /\ held' = [held EXCEPT ![d] = h]
      /\ mine' = [mine EXCEPT ![d] = None]
      /\ mLock' = "free" /\ camera' = camera
  BY DEF Created
<1>3. \A e \in Doms : e # d => held[e] # h /\ mine[e] # h
  BY <1>1 DEF TypeOK, Makers, Holders
<1>4. \A e \in Doms : held[e] # None => camera[held[e]] # camera[h]
  BY <1>1 DEF Holders, Expired
<1>5. \A e \in Doms : e # d /\ mine[e] # None => object[mine[e]] # "opening"
  BY <1>1 DEF Makers
<1> HIDE DEF h
<1>6. TypeOK'
  BY <1>1, <1>2 DEF TypeOK
<1>7. Makers'
  BY <1>1, <1>2, <1>3, <1>5 DEF TypeOK, Makers
<1>8. Holders'
  BY <1>1, <1>2, <1>3, <1>4, <1>5 DEF TypeOK, Holders
<1>9. Owned'
  <2> SUFFICES ASSUME NEW g \in Handlers
               PROVE  /\ object'[g] = "alive" => \E e \in Doms : held'[e] = g
                      /\ object'[g] \in {"opening", "dying"} => \E e \in Doms : mine'[e] = g
    BY DEF Owned
  <2>1. CASE g = h
    BY <2>1, <1>1, <1>2 DEF TypeOK
  <2>2. CASE g # h
    BY <2>2, <1>1, <1>2 DEF TypeOK, Owned, h
  <2> QED
    BY <2>1, <2>2
<1>10. Named'
  BY <1>1, <1>2 DEF TypeOK, Named
<1> QED
  BY <1>6, <1>7, <1>8, <1>9, <1>10

LEMMA CloseStep ==
    ASSUME IInv, NEW d \in Doms, Close(d)
    PROVE  IInv'
<1> USE ManagerAssumption DEF IInv
<1> DEFINE h == held[d]
<1>1. /\ h \in Handlers /\ object[h] = "alive" /\ mine[d] = None
      /\ held' = [held EXCEPT ![d] = None]
      /\ UNCHANGED <<mCameraHandlers, camera, mLock>>
  BY DEF Close, TypeOK, Makers, Holders
<1>2. \A e \in Doms : mine[e] # h
  BY <1>1 DEF Makers
<1>3. ASSUME \E e \in Doms \ {d} : held[e] = h
      PROVE  TypeOK' /\ Makers' /\ Holders' /\ Owned'
  <2>1. UNCHANGED <<object, mine>>
    BY <1>3 DEF Close
  <2> HIDE DEF h
  <2>2. TypeOK' /\ Makers' /\ Holders'
    BY <1>1, <2>1 DEF TypeOK, Makers, Holders, Expired
  <2>3. Owned'
    BY <1>1, <1>3, <2>1 DEF TypeOK, Owned, h
  <2> QED
    BY <2>2, <2>3
<1>4. ASSUME ~ \E e \in Doms \ {d} : held[e] = h
      PROVE  TypeOK' /\ Makers' /\ Holders' /\ Owned'
  <2>1. /\ object' = [object EXCEPT ![h] = "dying"]
        /\ mine' = [mine EXCEPT ![d] = h]
    BY <1>4 DEF Close
  <2>4. h = held[d]
    OBVIOUS
  <2> HIDE DEF h
  <2>2. TypeOK'
    BY <1>1, <2>1 DEF TypeOK
  <2>3. Makers'
    BY <1>1, <1>2, <2>1 DEF TypeOK, Makers
  <2>5. Holders'
    BY <1>1, <1>2, <1>4, <2>1 DEF TypeOK, Holders, Expired
  <2>6. Owned'
    BY <1>1, <1>2, <1>4, <2>1, <2>4 DEF TypeOK, Owned
  <2> QED
    BY <2>2, <2>3, <2>5, <2>6
<1>5. Named'
  BY <1>1, <1>3, <1>4 DEF Close, TypeOK, Named
<1> QED
  BY <1>3, <1>4, <1>5

LEMMA DestroyedStep ==
    ASSUME IInv, NEW d \in Doms, Destroyed(d)
    PROVE  IInv'
<1> USE ManagerAssumption DEF IInv
<1> DEFINE h == mine[d]
<1>1. /\ h \in Handlers /\ object[h] = "dying" /\ held[d] = None
      /\ object' = [object EXCEPT ![h] = "none"]
      /\ mCameraHandlers' = [u \in UniqueIds |->
            IF mCameraHandlers[u] = h THEN None ELSE mCameraHandlers[u]]
      /\ camera' = [camera EXCEPT ![h] = None]
      /\ mine' = [mine EXCEPT ![d] = None]
      /\ UNCHANGED <<held, mLock>>
  BY DEF Destroyed, TypeOK, Makers
<1>2. \A e \in Doms : held[e] # h /\ (e # d => mine[e] # h)
  BY <1>1 DEF Makers, Holders, TypeOK
<1>5. mine[d] = h
  OBVIOUS
<1> HIDE DEF h
<1>3. TypeOK' /\ Makers'
  BY <1>1, <1>2 DEF TypeOK, Makers
<1>4. Holders'
  <2>1. \A g \in Handlers : object[g] # "none" /\ g # h =>
           /\ object'[g] = object[g] /\ camera'[g] = camera[g] /\ camera[g] \in UniqueIds
    BY <1>1 DEF TypeOK, Named
  <2>2. \A e \in Doms : held'[e] # None =>
           object'[held'[e]] = "alive" /\ mCameraHandlers'[camera'[held'[e]]] = held'[e]
    BY <1>1, <1>2, <2>1 DEF TypeOK, Holders
  <2>3. ASSUME NEW e \in Doms, mine'[e] # None, object'[mine'[e]] = "opening", NEW c \in Doms
        PROVE  held'[c] = None \/ held'[c] # mCameraHandlers'[camera'[mine'[e]]]
    <3>1. /\ e # d /\ mine'[e] = mine[e] /\ mine[e] \in Handlers /\ mine[e] # h
          /\ object[mine[e]] = "opening"
      BY <1>1, <1>2, <1>5, <2>3 DEF TypeOK
    <3>2. camera[mine[e]] \in UniqueIds /\ Expired(camera[mine[e]])
      BY <3>1 DEF Holders, Named
    <3>3. camera'[mine'[e]] = camera[mine[e]]
      BY <3>1, <2>1
    <3>4. held[c] = None \/ held[c] # mCameraHandlers[camera[mine[e]]]
      BY <3>2 DEF Expired
    <3> QED
      BY <1>1, <1>2, <3>2, <3>3, <3>4
  <2>4. \A e \in Doms : mine'[e] # None /\ object'[mine'[e]] = "opening" =>
           \A c \in Doms : held'[c] = None \/ held'[c] # mCameraHandlers'[camera'[mine'[e]]]
    BY <2>3
  <2> QED
    BY <2>2, <2>4 DEF Holders, Expired
<1>6. Owned'
  BY <1>1, <1>2, <1>5 DEF TypeOK, Owned
<1>7. Named'
  BY <1>1 DEF TypeOK, Named
<1> QED
  BY <1>3, <1>4, <1>6, <1>7

LEMMA IInvHolds == Spec => []IInv
<1>1. IInv /\ [Next]_vars => IInv'
  <2>1. IInv /\ UNCHANGED vars => IInv'
    BY DEF IInv, TypeOK, Makers, Holders, Owned, Named, Expired, vars
  <2> QED
    BY <2>1, ShareStep, CreateStep, CreatedStep, CloseStep, DestroyedStep DEF Next
<1> QED
  BY <1>1, InitIInv, PTL DEF Spec

-----------------------------------------------------------------------------
\* All frontends of a camera share one CameraHandler, whatever order they bind
\* and close in and however long constructors and destructors take.
THEOREM HandlersAreShared == Spec => []OneHandlerPerCamera
<1>1. IInv => OneHandlerPerCamera
  BY DEF IInv, Holders, OneHandlerPerCamera
<1> QED
  BY <1>1, IInvHolds, PTL

\* getCameraHandler() never gives out a handler whose destructor has begun.
THEOREM HandlersAreAlive == Spec => []NoDyingHandler
<1>1. IInv => NoDyingHandler
  BY DEF IInv, Holders, NoDyingHandler
<1> QED
  BY <1>1, IInvHolds, PTL

\* No handler is left over, and none is destroyed by two threads.
THEOREM HandlersAreOwned == Spec => []NoOrphan
<1>1. IInv => NoOrphan
  <2> SUFFICES ASSUME IInv, NEW h \in Handlers
               PROVE  /\ object[h] = "alive" => \E d \in Doms : held[d] = h
                      /\ object[h] \in {"opening", "dying"} =>
                            Cardinality({d \in Doms : mine[d] = h}) = 1
    BY DEF NoOrphan
  <2>1. object[h] = "alive" => \E d \in Doms : held[d] = h
    BY DEF IInv, Owned
  <2>2. ASSUME object[h] \in {"opening", "dying"}
        PROVE  Cardinality({d \in Doms : mine[d] = h}) = 1
    <3>1. PICK d \in Doms : mine[d] = h
      BY <2>2 DEF IInv, Owned
    <3>2. {e \in Doms : mine[e] = h} = {d}
      BY <3>1, ManagerAssumption DEF IInv, Makers
    <3> QED
      BY <3>2, FS_Singleton
  <2> QED
    BY <2>1, <2>2
<1> QED
  BY <1>1, IInvHolds, PTL
=============================================================================

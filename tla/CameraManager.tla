---------------------------- MODULE CameraManager ----------------------------
(***************************************************************************)
(* Which frontend gets which CameraHandler: CameraManager's map of weak     *)
(* pointers, the frontends that share its handlers, and the construction    *)
(* and destruction of handlers.                                             *)
(*                                                                         *)
(* Each frontend has a thread that binds it (onBind) and closes it; they    *)
(* meet at the manager's mLock, which getCameraHandler() holds while it     *)
(* looks a camera up and, if there is none, constructs it.  A handler is    *)
(* destroyed by the thread that drops the last reference, without mLock.    *)
(* One reference stands for the two a frontend has, in CameraFrontendHandler*)
(* and in CommandHandler, which are dropped together.                       *)
(***************************************************************************)
EXTENDS Naturals, FiniteSets

CONSTANTS
    Doms,        \* frontends
    UniqueIds,   \* cameras
    Handlers,    \* CameraHandler objects
    None         \* no handler

ASSUME ManagerAssumption == None \notin Handlers

VARIABLES
    mCameraHandlers,   \* what the map's weak pointer for each camera refers to
    held,              \* the handler each frontend holds
    mine,              \* the handler each frontend's thread constructs or destroys
    object,            \* each handler: "none", "opening", "alive", "dying"
    camera,            \* the camera each handler that exists was made for
    mLock              \* "free" or "taken"

vars == <<mCameraHandlers, held, mine, object, camera, mLock>>

TypeOK ==
    /\ mCameraHandlers \in [UniqueIds -> Handlers \cup {None}]
    /\ held \in [Doms -> Handlers \cup {None}]
    /\ mine \in [Doms -> Handlers \cup {None}]
    /\ object \in [Handlers -> {"none", "opening", "alive", "dying"}]
    /\ camera \in [Handlers -> UniqueIds \cup {None}]
    /\ mLock \in {"free", "taken"}

Init ==
    /\ mCameraHandlers = [u \in UniqueIds |-> None]
    /\ held = [d \in Doms |-> None]
    /\ mine = [d \in Doms |-> None]
    /\ object = [h \in Handlers |-> "none"]
    /\ camera = [h \in Handlers |-> None]
    /\ mLock = "free"

Unbound(d) == held[d] = None /\ mine[d] = None

\* weak_ptr::lock() gives a handler as long as somebody holds it.
Expired(u) == \A d \in Doms : held[d] = None \/ held[d] # mCameraHandlers[u]

\* Mutant: the map's pointer is taken as it is.
ShareRaw(d, u) ==
    /\ Unbound(d)
    /\ mLock = "free"
    /\ mCameraHandlers[u] # None
    /\ held' = [held EXCEPT ![d] = mCameraHandlers[u]]
    /\ UNCHANGED <<mCameraHandlers, mine, object, camera, mLock>>

\* getCameraHandler() finds a handler of the camera that is in use.
Share(d, u) ==
    /\ Unbound(d)
    /\ mLock = "free"
    /\ ~Expired(u)
    /\ held' = [held EXCEPT ![d] = mCameraHandlers[u]]
    /\ UNCHANGED <<mCameraHandlers, mine, object, camera, mLock>>

\* Mutant: mLock is not held while a handler is constructed.
CreateUnlocked(d, u) ==
    /\ Unbound(d)
    /\ mLock = "free"
    /\ Expired(u)
    /\ \E h \in Handlers :
          /\ object[h] = "none"
          /\ object' = [object EXCEPT ![h] = "opening"]
          /\ camera' = [camera EXCEPT ![h] = u]
          /\ mine' = [mine EXCEPT ![d] = h]
    /\ UNCHANGED <<mCameraHandlers, held, mLock>>

\* It finds none, or an expired one, and enters the constructor, which opens the
\* device; a device that does not open makes a handler without a camera.
Create(d, u) ==
    /\ Unbound(d)
    /\ mLock = "free"
    /\ Expired(u)
    /\ mLock' = "taken"
    /\ \E h \in Handlers :
          /\ object[h] = "none"
          /\ object' = [object EXCEPT ![h] = "opening"]
          /\ camera' = [camera EXCEPT ![h] = u]
          /\ mine' = [mine EXCEPT ![d] = h]
    /\ UNCHANGED <<mCameraHandlers, held>>

\* The new handler goes into the map and to the frontend.
Created(d) ==
    /\ mine[d] # None
    /\ object[mine[d]] = "opening"
    /\ object' = [object EXCEPT ![mine[d]] = "alive"]
    /\ mCameraHandlers' = [mCameraHandlers EXCEPT ![camera[mine[d]]] = mine[d]]
    /\ held' = [held EXCEPT ![d] = mine[d]]
    /\ mine' = [mine EXCEPT ![d] = None]
    /\ mLock' = "free"
    /\ UNCHANGED camera

\* Mutant: whoever closes destroys the handler.
CloseDestroys(d) ==
    /\ held[d] # None
    /\ held' = [held EXCEPT ![d] = None]
    /\ object' = [object EXCEPT ![held[d]] = "dying"]
    /\ mine' = [mine EXCEPT ![d] = held[d]]
    /\ UNCHANGED <<mCameraHandlers, camera, mLock>>

\* onStateClosed() and the end of the ring buffers: the reference is dropped, and
\* with the last one the destructor begins.
Close(d) ==
    /\ held[d] # None
    /\ held' = [held EXCEPT ![d] = None]
    /\ IF \E e \in Doms \ {d} : held[e] = held[d]
         THEN UNCHANGED <<object, mine>>
         ELSE /\ object' = [object EXCEPT ![held[d]] = "dying"]
              /\ mine' = [mine EXCEPT ![d] = held[d]]
    /\ UNCHANGED <<mCameraHandlers, camera, mLock>>

\* The destructor has stopped the camera and closed the device.  (A weak pointer
\* to an object that is gone says as much as none.)
Destroyed(d) ==
    /\ mine[d] # None
    /\ object[mine[d]] = "dying"
    /\ object' = [object EXCEPT ![mine[d]] = "none"]
    /\ mCameraHandlers' = [u \in UniqueIds |->
          IF mCameraHandlers[u] = mine[d] THEN None ELSE mCameraHandlers[u]]
    /\ camera' = [camera EXCEPT ![mine[d]] = None]
    /\ mine' = [mine EXCEPT ![d] = None]
    /\ UNCHANGED <<held, mLock>>

Next ==
    \E d \in Doms :
        \/ \E u \in UniqueIds : Share(d, u) \/ Create(d, u)
        \/ Created(d) \/ Close(d) \/ Destroyed(d)

Spec == Init /\ [][Next]_vars

-----------------------------------------------------------------------------
\* All frontends of a camera share one handler, whose locks and books are what
\* keeps them apart, whatever order they bind and close in.
OneHandlerPerCamera ==
    \A d, e \in Doms :
        held[d] # None /\ held[e] # None /\ camera[held[d]] = camera[held[e]] =>
            held[d] = held[e]

\* No frontend is given, or keeps, a handler whose destructor has begun, although
\* destructors run without the manager's lock.
NoDyingHandler == \A d \in Doms : held[d] # None => object[held[d]] = "alive"

\* A camera that is not in use is not kept open: each handler is in use or being
\* constructed or destroyed, by one thread.
NoOrphan ==
    \A h \in Handlers :
        /\ object[h] = "alive" => \E d \in Doms : held[d] = h
        /\ object[h] \in {"opening", "dying"} => Cardinality({d \in Doms : mine[d] = h}) = 1
=============================================================================

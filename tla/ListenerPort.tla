---------------------------- MODULE ListenerPort ----------------------------
(***************************************************************************)
(* What a camera handler and one of its listeners rely on of each other:    *)
(* the listener is called only while it is registered, once at a time, and  *)
(* its listenerReset() waits until the call it is in has returned           *)
(* (CameraHandler.cpp:109-121, 366-381).  CameraHandler keeps it towards    *)
(* each frontend, and it is the camera handler that CommandHandler assumes. *)
(***************************************************************************)
VARIABLES
    there,           \* the listener is registered
    called           \* it is being called, or will be for the frame in hand

portVars == <<there, called>>

Init == ~there /\ ~called

Arrive == ~there /\ there' /\ UNCHANGED called
Leave == there /\ ~called /\ ~there' /\ UNCHANGED called
Call == there /\ ~called /\ called' /\ UNCHANGED there
Return == called /\ ~called' /\ UNCHANGED there

Next == Arrive \/ Leave \/ Call \/ Return

Spec == Init /\ [][Next]_portVars
=============================================================================

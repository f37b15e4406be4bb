----------------------------- MODULE FrameRelay -----------------------------
(***************************************************************************)
(* What a camera handler promises its listeners about frames, whatever      *)
(* threads and ioctls it takes (CameraHandler.cpp:112-128, 346-377): each   *)
(* frame is taken from the device, given once to every listener that is     *)
(* there when its turn comes, and only then goes back to be filled again; a *)
(* listener leaves when it is not owed a frame, so nobody who left is called.*)
(***************************************************************************)
CONSTANTS
    Listeners,       \* who may listen
    Buffers          \* the device's buffers

VARIABLES
    here,            \* the listeners that are there
    owed,            \* those the frame in hand still has to reach
    phase,           \* what becomes of the frame in hand
    held,            \* the buffer that carries it, if any
    owned            \* the buffers that are the device's

relayVars == <<here, owed, phase, held, owned>>

Init == here = {} /\ owed = {} /\ phase = "none" /\ held = {} /\ owned = {}

Arrive(d) ==
    /\ d \notin here
    /\ here' = here \cup {d}
    /\ UNCHANGED <<owed, phase, held, owned>>

Leave(d) ==
    /\ d \in here \ owed
    /\ here' = here \ {d}
    /\ UNCHANGED <<owed, phase, held, owned>>

Take(i) ==
    /\ phase = "none"
    /\ i \in owned
    /\ phase' = "taken"
    /\ held' = {i}
    /\ owned' = owned \ {i}
    /\ UNCHANGED <<here, owed>>

Begin ==
    /\ phase = "taken"
    /\ phase' = "giving"
    /\ owed' = here
    /\ UNCHANGED <<here, held, owned>>

Give(d) ==
    /\ phase = "giving"
    /\ d \in owed
    /\ owed' = owed \ {d}
    /\ UNCHANGED <<here, phase, held, owned>>

End ==
    /\ phase = "giving"
    /\ owed = {}
    /\ phase' = "given"
    /\ UNCHANGED <<here, owed, held, owned>>

Return ==
    /\ phase = "given"
    /\ phase' = "none"
    /\ held' = {}
    /\ owned' = owned \cup held
    /\ UNCHANGED <<here, owed>>

\* The device is given a new set of buffers, never while a frame is in hand.
Renew ==
    /\ phase = "none"
    /\ owned' \in SUBSET Buffers
    /\ UNCHANGED <<here, owed, phase, held>>

\* The device stops and gives back what it owns; a frame may be in hand.
Withdraw ==
    /\ owned' = {}
    /\ UNCHANGED <<here, owed, phase, held>>

Next ==
    \/ \E d \in Listeners : Arrive(d) \/ Leave(d) \/ Give(d)
    \/ \E i \in Buffers : Take(i)
    \/ Begin \/ End \/ Return \/ Renew \/ Withdraw

Spec == Init /\ [][Next]_relayVars
=============================================================================

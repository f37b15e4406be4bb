---------------------------- MODULE SharedFormat ----------------------------
(***************************************************************************)
(* What the comment at CameraHandler.hpp:94-99 promises the frontends of a  *)
(* camera about its format: the very first one that is set is accepted, and *)
(* everybody who sets one, then or later, is told that one and has it for   *)
(* good.                                                                    *)
(***************************************************************************)
CONSTANTS
    Frontends,
    Formats,
    None             \* no format

VARIABLES
    accepted,        \* the format accepted, or None
    told             \* the format each frontend was told, or None

formatVars == <<accepted, told>>

Init == accepted = None /\ told = [d \in Frontends |-> None]

Accept(d, f) ==
    /\ accepted = None
    /\ accepted' = f
    /\ told' = [told EXCEPT ![d] = f]

Tell(d) ==
    /\ accepted # None
    /\ told' = [told EXCEPT ![d] = accepted]
    /\ UNCHANGED accepted

Next == \E d \in Frontends : Tell(d) \/ \E f \in Formats : Accept(d, f)

Spec == Init /\ [][Next]_formatVars
=============================================================================

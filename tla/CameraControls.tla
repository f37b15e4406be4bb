--------------------------- MODULE CameraControls ---------------------------
(***************************************************************************)
(* One control of the camera (brightness, say), shared by the frontends it  *)
(* is assigned to: CameraHandler::ctrlSet(), the events it sends, and what   *)
(* frontends do with them.  A frontend the control is not assigned to can    *)
(* neither set it nor hear of it (CommandHandler::ctrlSet and                *)
(* onCtrlChangeCallback), and so is not in Doms.                             *)
(*                                                                         *)
(* Frontends (external) come and go.  One that comes enumerates the controls *)
(* and so learns the default value; then they behave as the comment at       *)
(* CameraHandler.cpp:330-341 says: a user sets the control, and an event is  *)
(* injected into the frontend's own V4L2 framework, which sends it to the    *)
(* backend again as a "set control" request.  A value the backend refused is *)
(* not kept.                                                                *)
(***************************************************************************)
EXTENDS Integers, Sequences

CONSTANTS
    Doms,         \* the frontends the control is assigned to
    Users,        \* those whose user changes it
    Values,       \* the values the control can have
    Default,      \* the default value that CTRL_ENUM tells
    Unknown,      \* what a frontend holds that has not enumerated the control
    SetsPerUser,  \* bound: changes by each user
    BindsPerDom,  \* bound: how often each frontend comes
    Paces         \* TRUE: users wait for events to be handled; FALSE: they do not

ASSUME ControlsAssumption ==
    /\ Users \subseteq Doms
    /\ Default \in Values /\ Unknown \notin Values
    /\ SetsPerUser \in Nat /\ BindsPerDom \in Nat
    /\ Paces \subseteq BOOLEAN

VARIABLES
    value,        \* the device's value
    mListeners,   \* the frontends that have a CommandHandler
    events,       \* for each, the "control changed" events on its ring
    known,        \* the value each frontend's own framework holds
    sets,         \* changes each user made
    binds,        \* how often each frontend came
    paced,        \* whether this behaviour's users wait until no event is on its way
    changed,      \* history: whose control the device's value was changed under
    had           \* history: the values the device has had

boundVars == <<sets, binds, paced>>
vars == <<value, mListeners, events, known, boundVars, changed, had>>

TypeOK ==
    /\ value \in Values
    /\ mListeners \subseteq Doms
    /\ events \in [Doms -> Seq(Values)]
    /\ known \in [Doms -> Values \cup {Unknown}]
    /\ sets \in [Users -> 0..SetsPerUser]
    /\ binds \in [Doms -> 0..BindsPerDom]
    /\ paced \in Paces
    /\ changed \subseteq Doms
    /\ had \subseteq Values

\* The device has any value, its default or what it was left with.
Init ==
    /\ value \in Values
    /\ mListeners = {}
    /\ events = [d \in Doms |-> <<>>]
    /\ known = [d \in Doms |-> Unknown]
    /\ sets = [d \in Users |-> 0]
    /\ binds = [d \in Doms |-> 0]
    /\ paced \in Paces
    /\ changed = {}
    /\ had = {value}

Settled == \A d \in Doms : events[d] = <<>>

\* The history variables, in every step.
Recorded ==
    /\ changed' = {d \in Doms : known'[d] # Unknown /\ (d \in changed \/ value' # value)}
    /\ had' = had \cup {value'}

-----------------------------------------------------------------------------
(* Frontends come and go                                                    *)

\* CommandHandler::init()
Bind(d) ==
    /\ d \notin mListeners
    /\ binds[d] < BindsPerDom
    /\ mListeners' = mListeners \cup {d}
    /\ binds' = [binds EXCEPT ![d] = @ + 1]
    /\ UNCHANGED <<value, events, known, sets, paced>>
    /\ Recorded

\* CTRL_ENUM is answered with what controlEnumerate() found when the device was opened:
\* the control's default, whatever value it has.  (GET CTRL is answered without a value.)
CtrlEnum(d) ==
    /\ d \in mListeners
    /\ known[d] = Unknown
    /\ known' = [known EXCEPT ![d] = Default]
    /\ UNCHANGED <<value, mListeners, events, boundVars>>
    /\ Recorded

\* CommandHandler::release(), and the end of the frontend's rings.
Leave(d) ==
    /\ d \in mListeners
    /\ mListeners' = mListeners \ {d}
    /\ events' = [events EXCEPT ![d] = <<>>]
    /\ known' = [known EXCEPT ![d] = Unknown]
    /\ UNCHANGED <<value, boundVars>>
    /\ Recorded

-----------------------------------------------------------------------------
(* Setting the control                                                      *)

\* Every listener but d is told of v.
TellOthers(d, v, queues) ==
    [e \in Doms |-> IF e \in mListeners \ {d} THEN Append(queues[e], v) ELSE queues[e]]

\* Mutant: the workaround is left out: every request is forwarded.
CtrlSetAlways(d, v, queues) ==
    /\ value' = v
    /\ known' = [known EXCEPT ![d] = v]
    /\ events' = TellOthers(d, v, queues)

\* Mutant: the event goes to the frontend that asked, not to the others.
CtrlSetTellsSender(d, v, queues) ==
    /\ value' = v
    /\ known' = [known EXCEPT ![d] = v]
    /\ events' = [e \in Doms |-> IF e # d \/ v = value THEN queues[e] ELSE Append(queues[e], v)]

\* Mutant: the others are told before the device is asked.
CtrlSetTellsFirst(d, v, queues) ==
    \/ /\ v = value
       /\ known' = [known EXCEPT ![d] = v]
       /\ events' = queues
       /\ UNCHANGED value
    \/ /\ v # value
       /\ events' = TellOthers(d, v, queues)
       /\ \/ value' = v /\ known' = [known EXCEPT ![d] = v]
          \/ UNCHANGED <<value, known>>

\* ctrlSet() for a request of d that names v: nothing happens if the device has that
\* value; otherwise the device is set, which it may refuse (controlSetValue() throws),
\* and every other listener is told.  queues are the event queues once d took what it
\* is answering.  (That a device refuses to tell the value of a control it has is left
\* out.)
CtrlSet(d, v, queues) ==
    \/ /\ v = value
       /\ known' = [known EXCEPT ![d] = v]
       /\ events' = queues
       /\ UNCHANGED value
    \/ /\ v # value
       /\ value' = v
       /\ known' = [known EXCEPT ![d] = v]
       /\ events' = TellOthers(d, v, queues)
    \/ /\ v # value
       /\ events' = queues
       /\ UNCHANGED <<value, known>>

UserSets(d) ==
    /\ sets[d] < SetsPerUser
    /\ known[d] # Unknown
    /\ paced => Settled
    /\ \E v \in Values \ {known[d]} : CtrlSet(d, v, events)
    /\ sets' = [sets EXCEPT ![d] = @ + 1]
    /\ UNCHANGED <<mListeners, binds, paced>>
    /\ Recorded

\* The frontend hears of a change and sends it back.
Echo(d) ==
    /\ events[d] # <<>>
    /\ known[d] # Unknown
    /\ CtrlSet(d, Head(events[d]), [events EXCEPT ![d] = Tail(@)])
    /\ UNCHANGED <<mListeners, boundVars>>
    /\ Recorded

\* It hears of a change before it has the control, and can do nothing about it.
Overlook(d) ==
    /\ events[d] # <<>>
    /\ known[d] = Unknown
    /\ events' = [events EXCEPT ![d] = Tail(@)]
    /\ UNCHANGED <<value, mListeners, known, boundVars>>
    /\ Recorded

Hear(d) == Echo(d) \/ Overlook(d)

Next ==
    \/ \E d \in Doms : Bind(d) \/ CtrlEnum(d) \/ Leave(d) \/ Hear(d)
    \/ \E d \in Users : UserSets(d)

Spec == Init /\ [][Next]_vars

\* A frontend handles the events on its ring; nobody has to come or set anything.
FairSpec == Spec /\ \A d \in Doms : WF_vars(Hear(d))

-----------------------------------------------------------------------------
\* The news of the last change wins: whoever had the control when the device's value was
\* changed holds that value, or it is the last event on its ring.  No order of
\* changes, events, refusals, comings and goings leaves it with an old value that
\* nothing corrects.  (One that comes after the last change holds the default, whatever
\* the device has, until the next.)
EveryoneIsTold ==
    \A d \in changed :
        \/ known[d] = value
        \/ events[d] # <<>> /\ events[d][Len(events[d])] = value

\* Nobody hears of, or goes on with, a value the device refused: what frontends hold and
\* what is on its way to them the device has had, but for the default of CTRL_ENUM.
RefusedIsUntold ==
    \A d \in Doms :
        /\ known[d] \in had \cup {Default, Unknown}
        /\ \A k \in DOMAIN events[d] : events[d][k] \in had

\* CameraHandler.cpp:330-341: the circular dependency, events that cause requests
\* that cause events, is worked "around by checking if this "set control" request
\* has control's value different from the current".  With users who wait until
\* their change has gone round, the exchange dies down.
PacedSettles == paced /\ ~Settled ~> Settled

\* Why it does: a request that such a user did not make is an event sent back, and it
\* finds the device with the value it names.  It takes its event off the ring and puts
\* none on any other, so each of them leaves fewer.
EchoesDieDown ==
    [][\A d \in Doms : paced /\ Hear(d) =>
          /\ Len(events'[d]) < Len(events[d])
          /\ \A e \in Doms : Len(events'[e]) <= Len(events[e])]_vars

\* The comment makes no condition on the users: so it always dies down.
Settles == ~Settled ~> Settled
=============================================================================

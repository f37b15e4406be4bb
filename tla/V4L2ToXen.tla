------------------------------ MODULE V4L2ToXen ------------------------------
(***************************************************************************)
(* The conversion tables between V4L2's numbers and those of Xen's camera   *)
(* protocol (src/V4L2ToXen.cpp), and the loops that search them.  A table    *)
(* is a sequence of entries whose last one is the sentinel { -1 }; an        *)
(* initializer with one value leaves the other field 0.                      *)
(*                                                                         *)
(* The numbers come from linux/videodev2.h and xen/io/cameraif.h, which are  *)
(* external.  Names of controls are numbered.                                *)
(***************************************************************************)
EXTENDS Integers, Sequences

CONSTANTS
    Given,      \* V4L2 numbers a driver reports, for each table
    Xens,       \* Xen numbers a frontend sends
    Memory      \* words that may lie behind a table

ASSUME WordsAssumption == Memory \subseteq Int /\ Xens \subseteq Int

EINVAL == 22

\* The entries of a table whose n-th Xen number is n - 1, and its sentinel.
Pairs(v4l2s) ==
    [n \in 1..(Len(v4l2s) + 1) |->
        IF n <= Len(v4l2s) THEN [xen |-> n - 1, v4l2 |-> v4l2s[n]]
                           ELSE [xen |-> -1, v4l2 |-> 0]]

Cid == 9963776    \* V4L2_CID_BASE, 0x980900

XEN_TYPE_TO_V4L2_CID == Pairs(<<Cid, Cid + 1, Cid + 2, Cid + 3>>)
\* default, SMPTE170M, REC709, SRGB, Adobe RGB, BT2020, DCI-P3
XEN_COLORSPACE_TO_V4L2 == Pairs(<<0, 1, 3, 8, 9, 10, 12>>)
\* default, 709, SRGB, Adobe RGB, none, DCI-P3, SMPTE2084
XEN_XFER_FUNC_TO_V4L2 == Pairs(<<0, 1, 2, 3, 5, 6, 7>>)
\* ignore, 601, 709, XV601, XV709, BT2020, BT2020 constant luminance
XEN_YCBCR_ENC_TO_V4L2 == Pairs(<<0, 1, 2, 3, 4, 6, 7>>)
XEN_QUANTIZATION_TO_V4L2 == Pairs(<<0, 1, 2>>)

Converted ==
    [ctrl |-> XEN_TYPE_TO_V4L2_CID, colorspace |-> XEN_COLORSPACE_TO_V4L2,
     xfer |-> XEN_XFER_FUNC_TO_V4L2, ycbcr |-> XEN_YCBCR_ENC_TO_V4L2,
     quantization |-> XEN_QUANTIZATION_TO_V4L2]

ASSUME GivenAssumption == Given \in [DOMAIN Converted -> SUBSET Int]

\* XEN_CTRL, which names the controls; its sentinel is complete.
XEN_CTRL ==
    [n \in 1..5 |->
        IF n <= 4 THEN [name |-> n, xen |-> n - 1, v4l2 |-> Cid + n - 1]
                  ELSE [name |-> 0, xen |-> -1, v4l2 |-> -1]]

Tables == {Converted[t] : t \in DOMAIN Converted} \cup {XEN_CTRL}

\* The four loops: the field the loop compares, the one it returns, and the one
\* whose -1 ends it.
Loops ==
    [toV4L2         |-> [key |-> "xen",  result |-> "v4l2", last |-> "xen"],
     toXen          |-> [key |-> "v4l2", result |-> "xen",  last |-> "v4l2"],
     ctrlGetNameXen |-> [key |-> "xen",  result |-> "name", last |-> "xen"],
     ctrlGetTypeXen |-> [key |-> "name", result |-> "xen",  last |-> "xen"]]

VARIABLES
    fn, table, arg,     \* the call under way or the last one
    i,                  \* the index of the loop
    ret,
    phase               \* "idle", "search", "found", "answered", "refused", "fault"

vars == <<fn, table, arg, i, ret, phase>>

TypeOK ==
    /\ fn \in DOMAIN Loops
    /\ table \in Tables
    /\ arg \in Int /\ ret \in Int
    /\ i \in 1..(Len(table) + 1)
    /\ phase \in {"idle", "search", "found", "answered", "refused", "fault"}

Init ==
    /\ fn = "toXen" /\ table = XEN_CTRL /\ arg = 0 /\ i = 1 /\ ret = 0
    /\ phase = "idle"

\* A wrapper enters its loop.
Call(f, t, v) ==
    /\ phase \in {"idle", "answered", "refused"}
    /\ fn' = f /\ table' = t /\ arg' = v
    /\ i' = 1 /\ ret' = 0
    /\ phase' = "search"

\* The calls there are: configToXen() and ctrlEnum() with what the driver reports,
\* ctrlSet(), ctrlGet() and the control callback by type and by name; and those of the
\* class's own interface that nothing under src/ makes, toV4L2() with any number a
\* frontend could say.
Calls ==
    \/ \E t \in DOMAIN Converted :
          \/ \E v \in Given[t] : Call("toXen", Converted[t], v)
          \/ \E x \in Xens : Call("toV4L2", Converted[t], x)
    \/ \E x \in Xens : Call("ctrlGetNameXen", XEN_CTRL, x)
    \/ \E n \in 1..5 : Call("ctrlGetTypeXen", XEN_CTRL, n)

Loop == Loops[fn]
Entry == table[i]
Searching == phase = "search" /\ i <= Len(table)
Ended == Entry[Loop.last] = -1

\* Mutant: the loop does not look for the sentinel.
NotThisEndless ==
    /\ Searching
    /\ Entry[Loop.key] # arg
    /\ i' = i + 1
    /\ UNCHANGED <<fn, table, arg, ret, phase>>

NotThis ==
    /\ Searching
    /\ ~Ended /\ Entry[Loop.key] # arg
    /\ i' = i + 1
    /\ UNCHANGED <<fn, table, arg, ret, phase>>

Found ==
    /\ Searching
    /\ ~Ended /\ Entry[Loop.key] = arg
    /\ ret' = Entry[Loop.result]
    /\ phase' = "found"
    /\ UNCHANGED <<fn, table, arg, i>>

NotFound ==
    /\ Searching
    /\ Ended
    /\ ret' = -EINVAL
    /\ phase' = "found"
    /\ UNCHANGED <<fn, table, arg, i>>

\* The loop reads behind the table: whatever lies there ends it, or the read
\* faults.
Beyond ==
    /\ phase = "search"
    /\ i > Len(table)
    /\ \/ ret' \in Memory /\ phase' = "found"
       \/ phase' = "fault" /\ UNCHANGED ret
    /\ UNCHANGED <<fn, table, arg, i>>

\* Mutant: the wrapper takes an error for an answer.
ReturnUnchecked ==
    /\ phase = "found"
    /\ phase' = "answered"
    /\ UNCHANGED <<fn, table, arg, i, ret>>

\* The wrapper throws on a negative result.
Return ==
    /\ phase = "found"
    /\ phase' = IF ret < 0 THEN "refused" ELSE "answered"
    /\ UNCHANGED <<fn, table, arg, i, ret>>

Next == Calls \/ NotThis \/ Found \/ NotFound \/ Beyond \/ Return

Spec == Init /\ [][Next]_vars

-----------------------------------------------------------------------------
Entries == {table[n] : n \in 1..(Len(table) - 1)}
Keys == {e[Loop.key] : e \in Entries}

\* The loops from Xen's side never leave the table, whatever the frontend sends,
\* and neither does toXen() for a number the table has.
StaysInTable == fn # "toXen" \/ arg \in Keys => i <= Len(table)

\* The two directions invert each other: the entries that have the answer are
\* those that have the question.  A frontend's number that is in no table is
\* refused, never converted.
ConversionsInvert ==
    /\ phase = "answered" /\ arg \in Keys =>
          {e \in Entries : e[Loop.result] = ret} = {e \in Entries : e[Loop.key] = arg}
    /\ fn # "toXen" /\ arg \notin Keys => phase # "answered"

\* V4L2ToXen.cpp:217-223, and its siblings: a number that V4L2 has and Xen has not
\* ends in the exception "Unsupported V4L2 colorspace", and in nothing else.
UnsupportedIsRefused ==
    fn = "toXen" /\ arg \notin Keys => phase \in {"idle", "search", "found", "refused"}
=============================================================================

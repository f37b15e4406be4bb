--------------------------- MODULE V4L2ToXenProofs ---------------------------
(***************************************************************************)
(* Theorems about V4L2ToXen, whatever numbers drivers and frontends send.   *)
(***************************************************************************)
EXTENDS V4L2ToXen, SequenceTheorems, TLAPS

-----------------------------------------------------------------------------
(* The tables                                                               *)

\* What the loops rely on in a table t searched by key for result until last is -1.
Distinct(t, f) == \A m, n \in 1..(Len(t) - 1) : t[m][f] = t[n][f] => m = n
Shape(t, key, result, last) ==
    /\ Len(t) \in Nat \ {0}
    /\ \A n \in 1..Len(t) : t[n][result] \in Int
    /\ \A n \in 1..(Len(t) - 1) : t[n][last] # -1
    /\ Distinct(t, key) /\ Distinct(t, result)
    /\ last = "xen" => t[Len(t)][last] = -1

\* A sequence of different numbers other than -1.
Numbers(s) ==
    /\ s \in Seq(Int)
    /\ \A n \in 1..Len(s) : s[n] # -1
    /\ \A m, n \in 1..Len(s) : s[m] = s[n] => m = n

\* Pairs() numbers the entries and appends a sentinel.
LEMMA PairsEntries ==
    ASSUME NEW s \in Seq(Int)
    PROVE  /\ Len(s) \in Nat /\ Len(Pairs(s)) = Len(s) + 1
           /\ \A n \in 1..Len(s) : s[n] \in Int
           /\ \A n \in 1..Len(s) : Pairs(s)[n]["xen"] = n - 1
           /\ \A n \in 1..Len(s) : Pairs(s)[n]["v4l2"] = s[n]
           /\ Pairs(s)[Len(s) + 1]["xen"] = -1
           /\ Pairs(s)[Len(s) + 1]["v4l2"] = 0
<1>1. Len(s) \in Nat
  OBVIOUS
<1>2. Pairs(s) \in Seq([xen : Int, v4l2 : Int]) /\ Len(Pairs(s)) = Len(s) + 1
  BY <1>1 DEF Pairs
<1>3. \A n \in 1..Len(s) : Pairs(s)[n] = [xen |-> n - 1, v4l2 |-> s[n]]
  BY <1>1 DEF Pairs
<1>4. Pairs(s)[Len(s) + 1] = [xen |-> -1, v4l2 |-> 0]
  BY <1>1 DEF Pairs
<1>5. \A n \in 1..Len(s) : s[n] \in Int
  OBVIOUS
<1>6. \A n \in 1..Len(s) : Pairs(s)[n]["xen"] = n - 1 /\ Pairs(s)[n]["v4l2"] = s[n]
  <2> SUFFICES ASSUME NEW n \in 1..Len(s)
               PROVE  Pairs(s)[n]["xen"] = n - 1 /\ Pairs(s)[n]["v4l2"] = s[n]
    OBVIOUS
  <2>1. Pairs(s)[n] = [xen |-> n - 1, v4l2 |-> s[n]]
    BY <1>3
  <2> QED
    BY <2>1
<1>7. Pairs(s)[Len(s) + 1]["xen"] = -1 /\ Pairs(s)[Len(s) + 1]["v4l2"] = 0
  BY <1>4
<1> QED
  BY <1>1, <1>2, <1>5, <1>6, <1>7

\* So a table of pairs can be searched in both directions.
LEMMA PairsShape ==
    ASSUME NEW s, Numbers(s)
    PROVE  /\ Shape(Pairs(s), "xen", "v4l2", "xen")
           /\ Shape(Pairs(s), "v4l2", "xen", "v4l2")
<1>1. /\ s \in Seq(Int)
      /\ \A n \in 1..Len(s) : s[n] # -1
      /\ \A m, n \in 1..Len(s) : s[m] = s[n] => m = n
  BY DEF Numbers
<1> DEFINE p == Pairs(s)
<1>2. /\ Len(s) \in Nat /\ Len(p) = Len(s) + 1
      /\ \A n \in 1..Len(s) : s[n] \in Int
      /\ \A n \in 1..Len(s) : p[n]["xen"] = n - 1
      /\ \A n \in 1..Len(s) : p[n]["v4l2"] = s[n]
      /\ p[Len(s) + 1]["xen"] = -1
      /\ p[Len(s) + 1]["v4l2"] = 0
  BY <1>1, PairsEntries
<1> HIDE DEF p
<1>3. \A n \in 1..Len(p) : p[n]["xen"] \in Int /\ p[n]["v4l2"] \in Int
  <2> SUFFICES ASSUME NEW n \in 1..Len(p) PROVE p[n]["xen"] \in Int /\ p[n]["v4l2"] \in Int
    OBVIOUS
  <2>1. CASE n \in 1..Len(s)
    BY <1>2, <2>1
  <2>2. CASE n = Len(s) + 1
    BY <1>2, <2>2
  <2> QED
    BY <1>2, <2>1, <2>2
<1>4. \A n \in 1..(Len(p) - 1) : p[n]["xen"] # -1 /\ p[n]["v4l2"] # -1
  BY <1>1, <1>2, SMTT(30)
<1>5. Distinct(p, "xen") /\ Distinct(p, "v4l2")
  BY <1>1, <1>2, SMTT(30) DEF Distinct
<1>6. Shape(p, "xen", "v4l2", "xen") /\ Shape(p, "v4l2", "xen", "v4l2")
  BY <1>2, <1>3, <1>4, <1>5 DEF Shape
<1> QED
  BY <1>6 DEF p

LEMMA ConvertedShape ==
    ASSUME NEW t \in DOMAIN Converted
    PROVE  /\ Shape(Converted[t], "xen", "v4l2", "xen")
           /\ Shape(Converted[t], "v4l2", "xen", "v4l2")
<1>1. Numbers(<<Cid, Cid + 1, Cid + 2, Cid + 3>>)
  BY DEF Numbers, Cid
<1>2. Numbers(<<0, 1, 3, 8, 9, 10, 12>>)
  BY DEF Numbers
<1>3. Numbers(<<0, 1, 2, 3, 5, 6, 7>>)
  BY DEF Numbers
<1>4. Numbers(<<0, 1, 2, 3, 4, 6, 7>>)
  BY DEF Numbers
<1>5. Numbers(<<0, 1, 2>>)
  BY DEF Numbers
<1>6. \/ Converted[t] = XEN_TYPE_TO_V4L2_CID
      \/ Converted[t] = XEN_COLORSPACE_TO_V4L2
      \/ Converted[t] = XEN_XFER_FUNC_TO_V4L2
      \/ Converted[t] = XEN_YCBCR_ENC_TO_V4L2
      \/ Converted[t] = XEN_QUANTIZATION_TO_V4L2
  BY DEF Converted
<1> QED
  BY <1>1, <1>2, <1>3, <1>4, <1>5, <1>6, PairsShape
  DEF XEN_TYPE_TO_V4L2_CID, XEN_COLORSPACE_TO_V4L2, XEN_XFER_FUNC_TO_V4L2,
      XEN_YCBCR_ENC_TO_V4L2, XEN_QUANTIZATION_TO_V4L2

LEMMA CtrlShape ==
    /\ Shape(XEN_CTRL, "xen", "name", "xen")
    /\ Shape(XEN_CTRL, "name", "xen", "xen")
<1>1. /\ Len(XEN_CTRL) = 5
      /\ \A n \in 1..4 : XEN_CTRL[n]["name"] = n /\ XEN_CTRL[n]["xen"] = n - 1
      /\ XEN_CTRL[5]["name"] = 0 /\ XEN_CTRL[5]["xen"] = -1
  BY DEF XEN_CTRL
<1> QED
  BY <1>1 DEF Shape, Distinct

-----------------------------------------------------------------------------
(* The loops                                                                *)

\* Only toXen() looks for the sentinel in the field it searches by.
LEMMA LoopFields ==
    /\ DOMAIN Loops = {"toV4L2", "toXen", "ctrlGetNameXen", "ctrlGetTypeXen"}
    /\ \A f \in DOMAIN Loops : f # "toXen" => Loops[f].last = "xen"
BY DEF Loops

\* Every call meets a table that its loop can search.
LEMMA CallsFit ==
    ASSUME Calls
    PROVE  /\ phase' = "search" /\ i' = 1 /\ ret' = 0
           /\ fn' \in DOMAIN Loops /\ table' \in Tables /\ arg' \in Int
           /\ Shape(table', Loops[fn'].key, Loops[fn'].result, Loops[fn'].last)
<1>1. ASSUME NEW t \in DOMAIN Converted, NEW v \in Given[t], Call("toXen", Converted[t], v)
      PROVE  /\ phase' = "search" /\ i' = 1 /\ ret' = 0
             /\ fn' \in DOMAIN Loops /\ table' \in Tables /\ arg' \in Int
             /\ Shape(table', Loops[fn'].key, Loops[fn'].result, Loops[fn'].last)
  <2>1. v \in Int
    BY GivenAssumption
  <2> QED
    BY <1>1, <2>1, ConvertedShape, LoopFields DEF Call, Tables, Loops
<1>2. ASSUME NEW t \in DOMAIN Converted, NEW x \in Xens, Call("toV4L2", Converted[t], x)
      PROVE  /\ phase' = "search" /\ i' = 1 /\ ret' = 0
             /\ fn' \in DOMAIN Loops /\ table' \in Tables /\ arg' \in Int
             /\ Shape(table', Loops[fn'].key, Loops[fn'].result, Loops[fn'].last)
  BY <1>2, WordsAssumption, ConvertedShape, LoopFields DEF Call, Tables, Loops
<1>3. ASSUME NEW x \in Xens, Call("ctrlGetNameXen", XEN_CTRL, x)
      PROVE  /\ phase' = "search" /\ i' = 1 /\ ret' = 0
             /\ fn' \in DOMAIN Loops /\ table' \in Tables /\ arg' \in Int
             /\ Shape(table', Loops[fn'].key, Loops[fn'].result, Loops[fn'].last)
  BY <1>3, WordsAssumption, CtrlShape, LoopFields DEF Call, Tables, Loops
<1>4. ASSUME NEW n \in 1..5, Call("ctrlGetTypeXen", XEN_CTRL, n)
      PROVE  /\ phase' = "search" /\ i' = 1 /\ ret' = 0
             /\ fn' \in DOMAIN Loops /\ table' \in Tables /\ arg' \in Int
             /\ Shape(table', Loops[fn'].key, Loops[fn'].result, Loops[fn'].last)
  BY <1>4, CtrlShape, LoopFields DEF Call, Tables, Loops
<1> QED
  BY <1>1, <1>2, <1>3, <1>4 DEF Calls

\* The entries behind the index do not have the argument; a result is that of the
\* entry that has it, or an error, or is read behind a table that has no such entry.
HasArg == \E n \in 1..(Len(table) - 1) : table[n][Loop.key] = arg
Hit == /\ i \in 1..(Len(table) - 1)
       /\ table[i][Loop.key] = arg
       /\ ret = table[i][Loop.result]
Lost == fn = "toXen" /\ ~HasArg
Search ==
    /\ Shape(table, Loop.key, Loop.result, Loop.last)
    /\ ~Lost => i <= Len(table)
    /\ phase = "search" =>
          \A j \in 1..(Len(table) - 1) : j < i => table[j][Loop.key] # arg
    /\ phase = "found" => Hit \/ Lost \/ (ret < 0 /\ ~HasArg)
    /\ phase = "answered" => Hit \/ Lost

LInv ==
    /\ TypeOK
    /\ phase = "idle" => i <= Len(table)
    /\ phase # "idle" => Search

LEMMA SearchInit == Init => LInv
<1> SUFFICES ASSUME Init PROVE LInv
  OBVIOUS
<1>1. Len(XEN_CTRL) \in Nat \ {0}
  BY CtrlShape DEF Shape
<1> QED
  BY <1>1, LoopFields DEF Init, LInv, TypeOK, Tables

LEMMA SearchStep == LInv /\ [Next]_vars => LInv'
<1> SUFFICES ASSUME LInv, [Next]_vars PROVE LInv'
  OBVIOUS
<1>t. /\ fn \in DOMAIN Loops /\ table \in Tables /\ arg \in Int /\ ret \in Int
      /\ i \in 1..(Len(table) + 1)
  BY DEF LInv, TypeOK
<1>1. CASE Calls
  <2>1. /\ phase' = "search" /\ i' = 1 /\ ret' = 0
        /\ fn' \in DOMAIN Loops /\ table' \in Tables /\ arg' \in Int
        /\ Shape(table', Loops[fn'].key, Loops[fn'].result, Loops[fn'].last)
    BY <1>1, CallsFit
  <2>2. Len(table') \in Nat \ {0}
    BY <2>1 DEF Shape
  <2>3. TypeOK'
    BY <2>1, <2>2 DEF TypeOK
  <2>4. i' <= Len(table')
    BY <2>1, <2>2
  <2>6. \A j \in 1..(Len(table') - 1) : ~(j < i')
    BY <2>1, <2>2
  <2>5. Search'
    BY <2>1, <2>4, <2>6 DEF Search, Loop
  <2> QED
    BY <2>1, <2>3, <2>5 DEF LInv
<1>2. ASSUME phase # "idle", UNCHANGED <<fn, table, arg>>, phase' # "idle",
             phase' \in {"search", "found", "answered", "refused", "fault"},
             i' \in 1..(Len(table) + 1), ret' \in Int,
             ~Lost => i' <= Len(table),
             phase' = "search" => \A j \in 1..(Len(table) - 1) : j < i' => table[j][Loop.key] # arg,
             phase' = "found" => Hit' \/ Lost \/ (ret' < 0 /\ ~HasArg),
             phase' = "answered" => Hit' \/ Lost
      PROVE  LInv'
  <2>1. TypeOK'
    BY <1>2, <1>t DEF TypeOK
  <2>2. Loop' = Loop /\ (HasArg <=> HasArg') /\ (Lost <=> Lost')
    BY <1>2 DEF Loop, HasArg, Lost
  <2>3. Shape(table, Loop.key, Loop.result, Loop.last)
    BY <1>2 DEF LInv, Search
  <2>4. Search'
    BY <1>2, <2>2, <2>3 DEF Search
  <2> QED
    BY <1>2, <2>1, <2>4 DEF LInv
<1> DEFINE len == Len(table)
           key == Loop.key
           result == Loop.result
           last == Loop.last
<1>s. ASSUME phase # "idle"
      PROVE  /\ len \in Nat \ {0}
             /\ \A n \in 1..len : table[n][result] \in Int
             /\ \A n \in 1..(len - 1) : table[n][last] # -1
             /\ fn # "toXen" => table[len][last] = -1
             /\ ~Lost => i <= len
             /\ phase = "search" => \A j \in 1..(len - 1) : j < i => table[j][key] # arg
  BY <1>s, <1>t, LoopFields DEF LInv, Search, Shape, Loop
<1>3. CASE NotThis
  <2>1. phase = "search" /\ i <= len /\ table[i][last] # -1 /\ table[i][key] # arg
    BY <1>3 DEF NotThis, Searching, Ended, Entry
  <2>2. i' = i + 1 /\ UNCHANGED <<fn, table, arg, ret, phase>>
    BY <1>3 DEF NotThis
  <2>3. i' \in 1..(len + 1)
    BY <1>t, <1>s, <2>1, <2>2
  <2>4. ~Lost => i' <= len
    <3>1. CASE fn # "toXen"
      BY <1>t, <1>s, <2>1, <2>2, <3>1
    <3>2. ASSUME HasArg PROVE i' <= len
      <4>1. PICK n \in 1..(len - 1) : table[n][key] = arg
        BY <3>2 DEF HasArg
      <4>2. n # i /\ ~(n < i)
        BY <1>s, <2>1, <4>1
      <4> QED
        BY <1>t, <1>s, <2>2, <4>1, <4>2
    <3> QED
      BY <3>1, <3>2 DEF Lost
  <2>5. \A j \in 1..(len - 1) : j < i' => table[j][key] # arg
    BY <1>t, <1>s, <2>1, <2>2
  <2> QED
    BY <1>2, <1>t, <2>1, <2>2, <2>3, <2>4, <2>5
<1>4. CASE Found
  <2>1. phase = "search" /\ i <= len /\ table[i][last] # -1 /\ table[i][key] = arg
    BY <1>4 DEF Found, Searching, Ended, Entry
  <2>2. phase' = "found" /\ ret' = table[i][result] /\ UNCHANGED <<fn, table, arg, i>>
    BY <1>4 DEF Found, Entry
  <2>3. ret' \in Int
    BY <1>t, <1>s, <2>1, <2>2
  <2>4. Hit' \/ Lost
    <3>1. CASE i = len
      BY <1>s, <2>1, <3>1 DEF Lost, HasArg
    <3>2. CASE i # len
      <4>1. i \in 1..(len - 1) /\ Loop' = Loop
        BY <1>t, <1>s, <2>1, <2>2, <3>2 DEF Loop
      <4> QED
        BY <2>1, <2>2, <4>1 DEF Hit
    <3> QED
      BY <3>1, <3>2
  <2> QED
    BY <1>2, <1>t, <1>s, <2>1, <2>2, <2>3, <2>4
<1>5. CASE NotFound
  <2>1. phase = "search" /\ i <= len /\ table[i][last] = -1
    BY <1>5 DEF NotFound, Searching, Ended, Entry
  <2>2. phase' = "found" /\ ret' = -22 /\ UNCHANGED <<fn, table, arg, i>>
    BY <1>5 DEF NotFound, EINVAL
  <2>3. i = len
    BY <1>t, <1>s, <2>1
  <2>4. ~HasArg
    BY <1>s, <2>1, <2>3 DEF HasArg
  <2> QED
    BY <1>2, <1>t, <1>s, <2>1, <2>2, <2>4
<1>6. CASE Beyond
  <2>1. phase = "search" /\ i > len /\ UNCHANGED <<fn, table, arg, i>>
        /\ phase' \in {"found", "fault"} /\ ret' \in Int
    BY <1>6, <1>t, WordsAssumption DEF Beyond
  <2>2. Lost
    BY <1>t, <1>s, <2>1
  <2> QED
    BY <1>2, <1>t, <2>1, <2>2
<1>7. CASE Return
  <2>1. /\ phase = "found" /\ UNCHANGED <<fn, table, arg, i, ret>>
        /\ phase' = IF ret < 0 THEN "refused" ELSE "answered"
    BY <1>7 DEF Return
  <2>2. Hit \/ Lost \/ (ret < 0 /\ ~HasArg)
    BY <2>1 DEF LInv, Search
  <2>3. Hit' = Hit
    BY <2>1 DEF Hit, Loop
  <2> QED
    BY <1>2, <1>t, <1>s, <2>1, <2>2, <2>3
<1>8. CASE UNCHANGED vars
  BY <1>8 DEF vars, LInv, TypeOK, Search, Hit, Lost, HasArg, Loop
<1> QED
  BY <1>1, <1>3, <1>4, <1>5, <1>6, <1>7, <1>8 DEF Next

LEMMA LInvHolds == Spec => []LInv
BY SearchInit, SearchStep, PTL DEF Spec

\* Every variable has its type in every reachable state.
THEOREM TypeCorrect == Spec => []TypeOK
<1>1. LInv => TypeOK
  BY DEF LInv
<1> QED
  BY <1>1, LInvHolds, PTL

\* The argument is one of the keys.
LEMMA KeysAre == arg \in Keys <=> HasArg
BY DEF Keys, Entries, HasArg

\* Whatever a frontend sends, no loop from Xen's side reads behind its table, and
\* toXen() does not for a number the table has (V4L2ToXen.cpp:179-197, 325-347).
THEOREM SearchesStay == Spec => []StaysInTable
<1>1. LInv => StaysInTable
  <2> SUFFICES ASSUME LInv, fn # "toXen" \/ HasArg PROVE i <= Len(table)
    BY KeysAre DEF StaysInTable
  <2> QED
    BY DEF LInv, Search, Lost
<1> QED
  BY <1>1, LInvHolds, PTL

\* The two directions invert each other, and a number that a frontend sends and no
\* table has is refused (V4L2ToXen.cpp:179-197, 325-347).
THEOREM DirectionsInvert == Spec => []ConversionsInvert
<1>1. LInv => ConversionsInvert
  <2> SUFFICES ASSUME LInv, phase = "answered" PROVE ConversionsInvert
    BY DEF ConversionsInvert
  <2>1. Search /\ (Hit \/ Lost)
    BY DEF LInv, Search
  <2>2. ASSUME HasArg
        PROVE  {e \in Entries : e[Loop.result] = ret} = {e \in Entries : e[Loop.key] = arg}
    <3>1. Hit
      BY <2>1, <2>2 DEF Lost
    <3>2. /\ \A m, n \in 1..(Len(table) - 1) :
                table[m][Loop.key] = table[n][Loop.key] => m = n
          /\ \A m, n \in 1..(Len(table) - 1) :
                table[m][Loop.result] = table[n][Loop.result] => m = n
      BY <2>1 DEF Search, Shape, Distinct
    <3>3. \A n \in 1..(Len(table) - 1) : table[n][Loop.result] = ret <=> table[n][Loop.key] = arg
      BY <3>1, <3>2 DEF Hit
    <3> QED
      BY <3>3 DEF Entries
  <2>3. HasArg \/ fn = "toXen"
    BY <2>1 DEF Lost, Hit, HasArg
  <2> QED
    BY <2>2, <2>3, KeysAre DEF ConversionsInvert
<1> QED
  BY <1>1, LInvHolds, PTL
=============================================================================

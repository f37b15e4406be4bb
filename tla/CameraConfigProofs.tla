-------------------------- MODULE CameraConfigProofs --------------------------
(***************************************************************************)
(* Theorems about CameraConfig, for any frontends, formats, image sizes,    *)
(* offsets and rates.                                                       *)
(***************************************************************************)
EXTENDS CameraConfig, TLAPS

-----------------------------------------------------------------------------
(* Pages                                                                    *)

\* Grefs(n) pages hold n bytes (FrontendBuffer.cpp:63).
LEMMA GrefsHold == \A n \in Nat : Grefs(n) \in Nat /\ 4096 * Grefs(n) >= n
BY DEF Grefs

\* A directory of DirectoryPages(n) pages holds n references.
LEMMA DirectoryHolds ==
    \A n \in Nat : DirectoryPages(n) \in Nat /\ 1023 * DirectoryPages(n) >= n
BY DEF DirectoryPages

-----------------------------------------------------------------------------
(* The buffer of one frontend                                               *)

\* What taking n references of a page does.
LEMMA TakeTypes ==
    ASSUME NEW r \in Buffer, NEW n \in Nat, n <= r.left
    PROVE  /\ Take(r, n) \in Buffer
           /\ Take(r, n).left = r.left - n
           /\ Take(r, n).refs = r.refs + n
           /\ Take(r, n).page = r.page + 1
           /\ Take(r, n).size = r.size /\ Take(r, n).offset = r.offset
           /\ Take(r, n).granted = r.granted /\ Take(r, n).agreed = r.agreed
<1> DEFINE r1 == [r EXCEPT !.left = r.left - n]
           r2 == [r1 EXCEPT !.refs = r1.refs + n]
           r3 == [r2 EXCEPT !.page = r2.page + 1]
<1>1. Take(r, n) = r3
  BY DEF Take
<1>2. r1 \in Buffer /\ r1.left = r.left - n /\ r1.refs = r.refs /\ r1.page = r.page
      /\ r1.size = r.size /\ r1.offset = r.offset /\ r1.granted = r.granted
      /\ r1.agreed = r.agreed
  BY DEF Buffer
<1> HIDE DEF r1
<1>3. r2 \in Buffer /\ r2.left = r1.left /\ r2.refs = r1.refs + n /\ r2.page = r1.page
      /\ r2.size = r1.size /\ r2.offset = r1.offset /\ r2.granted = r1.granted
      /\ r2.agreed = r1.agreed
  BY <1>2 DEF Buffer
<1> HIDE DEF r2
<1>4. r3 \in Buffer /\ r3.left = r2.left /\ r3.refs = r2.refs /\ r3.page = r2.page + 1
      /\ r3.size = r2.size /\ r3.offset = r2.offset /\ r3.granted = r2.granted
      /\ r3.agreed = r2.agreed
  BY <1>3 DEF Buffer
<1> HIDE DEF r3
<1> QED
  BY <1>1, <1>2, <1>3, <1>4

\* One directory page moves at most 1023 references from wanted to collected.
LEMMA PageTaken ==
    ASSUME BuffersTypeOK, NEW d \in Doms, WalkPage(d)
    PROVE  /\ stage' = stage /\ stage[d] = "walking"
           /\ buf' \in [Doms -> Buffer]
           /\ \A e \in Doms \ {d} : buf'[e] = buf[e]
           /\ \E n \in Nat :
                 /\ n <= buf[d].left /\ (n = buf[d].left \/ n = 1023)
                 /\ buf'[d].left = buf[d].left - n
                 /\ buf'[d].refs = buf[d].refs + n
                 /\ buf'[d].page = buf[d].page + 1
                 /\ buf'[d].size = buf[d].size /\ buf'[d].offset = buf[d].offset
                 /\ buf'[d].granted = buf[d].granted /\ buf'[d].agreed = buf[d].agreed
<1> DEFINE n == IF buf[d].left < 1023 THEN buf[d].left ELSE 1023
<1>1. buf \in [Doms -> Buffer] /\ buf[d] \in Buffer
  BY DEF BuffersTypeOK
<1>2. n \in Nat /\ n <= buf[d].left /\ (n = buf[d].left \/ n = 1023)
  BY <1>1 DEF Buffer
<1>3. buf' = [buf EXCEPT ![d] = Take(buf[d], n)] /\ stage' = stage /\ stage[d] = "walking"
  BY DEF WalkPage
<1> HIDE DEF n
<1>4. Take(buf[d], n) \in Buffer
  BY <1>1, <1>2, TakeTypes
<1>5. buf' \in [Doms -> Buffer] /\ buf'[d] = Take(buf[d], n) /\ \A e \in Doms \ {d} : buf'[e] = buf[e]
  BY <1>1, <1>3, <1>4
<1> QED
  BY <1>1, <1>2, <1>3, <1>5, TakeTypes

\* The steps of the constructor keep the types.
LEMMA BuildTypes ==
    ASSUME BuffersTypeOK, NEW d \in Doms, WalkPage(d) \/ MapRefs(d) \/ InitThrows(d)
    PROVE  BuffersTypeOK'
<1>1. CASE WalkPage(d)
  BY <1>1, PageTaken DEF BuffersTypeOK
<1>2. CASE MapRefs(d)
  BY <1>2 DEF BuffersTypeOK, MapRefs
<1>3. CASE InitThrows(d)
  <2>1. Blank \in Buffer
    BY DEF Blank, Buffer
  <2> QED
    BY <1>3, <2>1 DEF BuffersTypeOK, InitThrows
<1> QED
  BY <1>1, <1>2, <1>3

-----------------------------------------------------------------------------
(* Types                                                                    *)

\* Every variable has its type in every reachable state.
THEOREM TypeCorrect == Spec => []TypeOK
<1>1. Init => TypeOK
  <2> SUFFICES ASSUME Init PROVE TypeOK
    OBVIOUS
  <2>1. Untold \in [size : Nat, agreed : BOOLEAN] /\ Blank \in Buffer
    BY DEF Untold, Blank, Buffer
  <2>2. BuffersTypeOK
    BY <2>1 DEF Init, BuffersInit, BuffersTypeOK
  <2>3. layout \in [Doms -> [size : Nat, agreed : BOOLEAN]]
    BY <2>1, Zenon DEF Init
  <2>4. told \in [Doms -> Formats \cup {None}]
    BY DEF Init
  <2> QED
    BY <2>2, <2>3, <2>4 DEF Init, TypeOK
<1>2. TypeOK /\ [Next]_vars => TypeOK'
  <2> SUFFICES ASSUME TypeOK, [Next]_vars PROVE TypeOK'
    OBVIOUS
  <2> USE ConfigAssumption, OffsetsAssumption
      DEF TypeOK, rateVars, bufVars, bufferVars
  <2>1. CASE OtherHandlers
    BY <2>1 DEF OtherHandlers, BuffersTypeOK
  <2>2. ASSUME NEW d \in Doms, NEW f \in Requests, ConfigSet(d, f) PROVE TypeOK'
    BY <2>2 DEF ConfigSet, FormatSet, BuffersTypeOK
  <2>3. ASSUME NEW d \in Doms, NEW f \in Requests, ConfigSetUntold(d, f) PROVE TypeOK'
    BY <2>3 DEF ConfigSetUntold, FormatSet, BuffersTypeOK
  <2>4. ASSUME NEW d \in Doms, ConfigSetEmulated(d) PROVE TypeOK'
    BY <2>4 DEF ConfigSetEmulated, BuffersTypeOK
  <2>5. ASSUME NEW d \in Doms, BufGetLayout(d) PROVE TypeOK'
    BY <2>5 DEF BufGetLayout, BuffersTypeOK
  <2>6. ASSUME NEW d \in Doms, BufRequest(d) PROVE TypeOK'
    BY <2>6 DEF BufRequest, BuffersTypeOK
  <2>7. ASSUME NEW d \in Doms, NEW o \in Offsets, BufCreate(d, o) PROVE TypeOK'
    BY <2>7, GrefsHold DEF BufCreate, InitBuffer, BuffersTypeOK, Buffer
  <2>8. ASSUME NEW d \in Doms, BuildBuffer(d) PROVE TypeOK'
    <3>1. BuffersTypeOK'
      BY <2>8, BuildTypes DEF BuildBuffer
    <3> QED
      BY <2>8, <3>1 DEF BuildBuffer
  <2>9. ASSUME NEW d \in Doms, BufRelease(d) PROVE TypeOK'
    BY <2>9 DEF BufRelease, ReleaseBuffer, Blank, BuffersTypeOK, Buffer
  <2>10. ASSUME NEW d \in Doms, NEW r \in Rates, FrameRateSet(d, r) PROVE TypeOK'
    BY <2>10 DEF FrameRateSet, BuffersTypeOK
  <2>11. CASE UNCHANGED vars
    BY <2>11 DEF vars, BuffersTypeOK
  <2> QED
    BY <2>1, <2>2, <2>3, <2>4, <2>5, <2>6, <2>7, <2>8, <2>9, <2>10, <2>11 DEF Next
<1> QED
  BY <1>1, <1>2, PTL DEF Spec

-----------------------------------------------------------------------------
(* The size that was read stays                                             *)

\* The device keeps its buffers once it has them, so whoever read an image size did
\* so for a format that cannot change any more.
Booked ==
    /\ mBuffersAllocated # {} => hwBusy
    /\ \A d \in Doms : stage[d] # "none" => hwBusy /\ buf[d].size = ImageSize[fmt]

\* bufCreate() uses the image size after it released mLock (CommandHandler.cpp:215-219):
\* whatever formats the others set meanwhile, and later, it is the size of the frames.
THEOREM ImageSizeKept == Spec => []ImageSizeStays
<1>1. Init => Booked
  BY DEF Init, Booked, BuffersInit
<1>2. TypeOK /\ Booked /\ [Next]_vars => Booked'
  <2> SUFFICES ASSUME TypeOK, Booked, [Next]_vars PROVE Booked'
    OBVIOUS
  <2> USE DEF TypeOK, BuffersTypeOK, Buffer, Booked, rateVars, bufVars, bufferVars
  <2>1. CASE OtherHandlers
    BY <2>1 DEF OtherHandlers
  <2>2. ASSUME NEW d \in Doms, NEW f \in Requests, ConfigSet(d, f) PROVE Booked'
    BY <2>2 DEF ConfigSet, FormatSet
  <2>3. ASSUME NEW d \in Doms, NEW f \in Requests, ConfigSetUntold(d, f) PROVE Booked'
    BY <2>3 DEF ConfigSetUntold, FormatSet
  <2>4. ASSUME NEW d \in Doms, ConfigSetEmulated(d) PROVE Booked'
    BY <2>4 DEF ConfigSetEmulated
  <2>5. ASSUME NEW d \in Doms, BufGetLayout(d) PROVE Booked'
    BY <2>5 DEF BufGetLayout
  <2>6. ASSUME NEW d \in Doms, BufRequest(d) PROVE Booked'
    BY <2>6 DEF BufRequest
  <2>7. ASSUME NEW d \in Doms, NEW o \in Offsets, BufCreate(d, o) PROVE Booked'
    BY <2>7 DEF BufCreate, InitBuffer
  <2>8. ASSUME NEW d \in Doms, BuildBuffer(d) PROVE Booked'
    <3>1. CASE WalkPage(d)
      BY <2>8, <3>1, PageTaken DEF BuildBuffer
    <3>2. CASE MapRefs(d)
      BY <2>8, <3>2 DEF BuildBuffer, MapRefs
    <3>3. CASE InitThrows(d)
      BY <2>8, <3>3 DEF BuildBuffer, InitThrows
    <3> QED
      BY <2>8, <3>1, <3>2, <3>3 DEF BuildBuffer
  <2>9. ASSUME NEW d \in Doms, BufRelease(d) PROVE Booked'
    BY <2>9 DEF BufRelease, ReleaseBuffer, Blank
  <2>10. ASSUME NEW d \in Doms, NEW r \in Rates, FrameRateSet(d, r) PROVE Booked'
    BY <2>10 DEF FrameRateSet
  <2>11. CASE UNCHANGED vars
    BY <2>11 DEF vars
  <2> QED
    BY <2>1, <2>2, <2>3, <2>4, <2>5, <2>6, <2>7, <2>8, <2>9, <2>10, <2>11 DEF Next
<1>3. Booked => ImageSizeStays
  BY DEF Booked, ImageSizeStays
<1> QED
  BY <1>1, <1>2, <1>3, TypeCorrect, PTL DEF Spec

-----------------------------------------------------------------------------
(* Everyone has the format it was told                                      *)

\* The first answer latches the format, and with it the image size.
Latched ==
    /\ \A d \in Doms : told[d] # None => mFormatSet /\ told[d] = fmt
    /\ \A d \in Doms : layout[d].agreed => mFormatSet /\ layout[d].size = ImageSize[fmt]

\* With other cameras in the process at all times, the first CONFIG_SET latches.
LEMMA LatchHolds ==
    ASSUME \A n \in HandlerCounts : n > 1
    PROVE  Spec => []Latched
<1>1. Init => Latched
  BY DEF Init, Latched, Untold
<1>2. TypeOK /\ Latched /\ [Next]_vars => Latched'
  <2> SUFFICES ASSUME TypeOK, Latched, [Next]_vars PROVE Latched'
    OBVIOUS
  <2> USE DEF TypeOK, BuffersTypeOK, Latched, rateVars, bufVars, bufferVars
  <2>1. CASE OtherHandlers
    BY <2>1 DEF OtherHandlers
  <2>2. ASSUME NEW d \in Doms, NEW f \in Requests, ConfigSet(d, f) PROVE Latched'
    BY <2>2 DEF ConfigSet, FormatSet
  <2>3. ASSUME NEW d \in Doms, NEW f \in Requests, ConfigSetUntold(d, f) PROVE Latched'
    BY <2>3 DEF ConfigSetUntold, FormatSet
  <2>4. ASSUME NEW d \in Doms, ConfigSetEmulated(d) PROVE Latched'
    BY <2>4 DEF ConfigSetEmulated
  <2>5. ASSUME NEW d \in Doms, BufGetLayout(d) PROVE Latched'
    BY <2>5 DEF BufGetLayout
  <2>6. ASSUME NEW d \in Doms, BufRequest(d) PROVE Latched'
    BY <2>6 DEF BufRequest
  <2>7. ASSUME NEW d \in Doms, NEW o \in Offsets, BufCreate(d, o) PROVE Latched'
    BY <2>7 DEF BufCreate, InitBuffer
  <2>8. ASSUME NEW d \in Doms, BuildBuffer(d) PROVE Latched'
    BY <2>8 DEF BuildBuffer, WalkPage, MapRefs, InitThrows, Blank
  <2>9. ASSUME NEW d \in Doms, BufRelease(d) PROVE Latched'
    BY <2>9 DEF BufRelease, ReleaseBuffer, Blank
  <2>10. ASSUME NEW d \in Doms, NEW r \in Rates, FrameRateSet(d, r) PROVE Latched'
    BY <2>10 DEF FrameRateSet
  <2>11. CASE UNCHANGED vars
    BY <2>11 DEF vars
  <2> QED
    BY <2>1, <2>2, <2>3, <2>4, <2>5, <2>6, <2>7, <2>8, <2>9, <2>10, <2>11 DEF Next
<1> QED
  BY <1>1, <1>2, TypeCorrect, PTL DEF Spec

\* With more than one camera handler in the process at all times, the format a
\* frontend was told stays the camera's (CameraHandler.hpp:94-99).
THEOREM FormatAgreed ==
    ASSUME \A n \in HandlerCounts : n > 1
    PROVE  Spec => []FormatAgreement
<1>1. Latched => FormatAgreement
  BY DEF Latched, FormatAgreement
<1> QED
  BY <1>1, LatchHolds, PTL

-----------------------------------------------------------------------------
(* Frames fit the pages                                                     *)

\* The walk so far took the references of page - 1 full pages, or all it wanted.
WalkOf(d) ==
    /\ buf[d].left + buf[d].refs = Grefs(buf[d].size + buf[d].offset)
    /\ buf[d].page >= 1
    /\ buf[d].left = 0 \/ buf[d].refs = 1023 * (buf[d].page - 1)
Walked == \A d \in Doms : stage[d] # "none" => WalkOf(d)

\* Only a walk that came to the end of the directory maps, and only references the
\* frontend filled in.
Ended == \A d \in Doms : stage[d] = "mapped" => ~MorePages(d) /\ buf[d].refs <= buf[d].granted

\* What is taken off one page: all that is left, or a full page.
LEMMA OnePage ==
    ASSUME NEW left \in Nat, NEW refs \in Nat, NEW page \in Nat, NEW n \in Nat,
           n <= left, n = left \/ n = 1023, left = 0 \/ refs = 1023 * (page - 1)
    PROVE  /\ (left - n) + (refs + n) = left + refs
           /\ left - n = 0 \/ refs + n = 1023 * ((page + 1) - 1)
OBVIOUS

LEMMA WalkHolds == Spec => [](Walked /\ Ended)
<1>1. Init => Walked /\ Ended
  BY DEF Init, Walked, Ended, BuffersInit
<1>2. TypeOK /\ Walked /\ Ended /\ [Next]_vars => Walked' /\ Ended'
  <2> SUFFICES ASSUME TypeOK, Walked, Ended, [Next]_vars PROVE Walked' /\ Ended'
    OBVIOUS
  <2> USE ConfigAssumption, OffsetsAssumption
      DEF TypeOK, BuffersTypeOK, Buffer, Walked, WalkOf, Ended, MorePages, rateVars, bufVars,
          bufferVars
  <2>1. CASE OtherHandlers
    BY <2>1 DEF OtherHandlers
  <2>2. ASSUME NEW d \in Doms, NEW f \in Requests, ConfigSet(d, f)
        PROVE  Walked' /\ Ended'
    BY <2>2 DEF ConfigSet, FormatSet
  <2>3. ASSUME NEW d \in Doms, NEW f \in Requests, ConfigSetUntold(d, f)
        PROVE  Walked' /\ Ended'
    BY <2>3 DEF ConfigSetUntold, FormatSet
  <2>4. ASSUME NEW d \in Doms, ConfigSetEmulated(d) PROVE Walked' /\ Ended'
    BY <2>4 DEF ConfigSetEmulated
  <2>5. ASSUME NEW d \in Doms, BufGetLayout(d) PROVE Walked' /\ Ended'
    BY <2>5 DEF BufGetLayout
  <2>6. ASSUME NEW d \in Doms, BufRequest(d) PROVE Walked' /\ Ended'
    BY <2>6 DEF BufRequest
  <2>7. ASSUME NEW d \in Doms, NEW o \in Offsets, BufCreate(d, o)
        PROVE  Walked' /\ Ended'
    BY <2>7, GrefsHold DEF BufCreate, InitBuffer
  <2>8. ASSUME NEW d \in Doms, BuildBuffer(d) PROVE Walked' /\ Ended'
    <3>1. CASE WalkPage(d)
      <4>1. PICK n \in Nat :
                /\ n <= buf[d].left /\ (n = buf[d].left \/ n = 1023)
                /\ buf'[d].left = buf[d].left - n
                /\ buf'[d].refs = buf[d].refs + n
                /\ buf'[d].page = buf[d].page + 1
                /\ buf'[d].size = buf[d].size /\ buf'[d].offset = buf[d].offset
                /\ buf'[d].granted = buf[d].granted /\ buf'[d].agreed = buf[d].agreed
        BY <3>1, PageTaken
      <4>2. /\ stage' = stage /\ stage[d] = "walking"
            /\ \A e \in Doms \ {d} : buf'[e] = buf[e]
        BY <3>1, PageTaken
      <4>3. WalkOf(d)'
        <5>1. /\ buf[d].left + buf[d].refs = Grefs(buf[d].size + buf[d].offset)
              /\ buf[d].page >= 1
              /\ buf[d].left = 0 \/ buf[d].refs = 1023 * (buf[d].page - 1)
              /\ buf[d].left \in Nat /\ buf[d].refs \in Nat /\ buf[d].page \in Nat
          BY <4>2
        <5>2. /\ buf'[d].left + buf'[d].refs = buf[d].left + buf[d].refs
              /\ buf'[d].page >= 1
              /\ buf'[d].left = 0 \/ buf'[d].refs = 1023 * (buf'[d].page - 1)
          BY <4>1, <5>1, OnePage
        <5> QED
          BY <4>1, <5>1, <5>2
      <4>4. \A e \in Doms \ {d} : stage'[e] # "none" => WalkOf(e)'
        BY <4>2
      <4>5. Ended'
        BY <4>2
      <4> QED
        BY <4>3, <4>4, <4>5
    <3>2. CASE MapRefs(d)
      BY <2>8, <3>2 DEF BuildBuffer, MapRefs
    <3>3. CASE InitThrows(d)
      BY <2>8, <3>3 DEF BuildBuffer, InitThrows
    <3> QED
      BY <2>8, <3>1, <3>2, <3>3 DEF BuildBuffer
  <2>9. ASSUME NEW d \in Doms, BufRelease(d) PROVE Walked' /\ Ended'
    BY <2>9 DEF BufRelease, ReleaseBuffer, Blank
  <2>10. ASSUME NEW d \in Doms, NEW r \in Rates, FrameRateSet(d, r)
        PROVE  Walked' /\ Ended'
    BY <2>10 DEF FrameRateSet
  <2>11. CASE UNCHANGED vars
    BY <2>11 DEF vars
  <2> QED
    BY <2>1, <2>2, <2>3, <2>4, <2>5, <2>6, <2>7, <2>8, <2>9, <2>10, <2>11 DEF Next
<1> QED
  BY <1>1, <1>2, TypeCorrect, PTL DEF Spec

\* A frontend that negotiated its format granted as many pages as will be wanted.
Negotiated ==
    \A d \in Doms :
        stage[d] # "none" /\ buf[d].agreed =>
            buf[d].granted = Grefs(buf[d].size + buf[d].offset)

LEMMA NegotiatedHolds ==
    ASSUME \A n \in HandlerCounts : n > 1
    PROVE  Spec => []Negotiated
<1>1. Init => Negotiated
  BY DEF Init, Negotiated, BuffersInit
<1>2. TypeOK /\ Latched /\ Negotiated /\ [Next]_vars => Negotiated'
  <2> SUFFICES ASSUME TypeOK, Latched, Negotiated, [Next]_vars PROVE Negotiated'
    OBVIOUS
  <2> USE DEF TypeOK, BuffersTypeOK, Buffer, Negotiated, rateVars, bufVars, bufferVars
  <2>1. ASSUME NEW d \in Doms, NEW o \in Offsets, BufCreate(d, o) PROVE Negotiated'
    <3>1. layout[d].agreed => layout[d].size = ImageSize[fmt]
      BY DEF Latched
    <3> QED
      BY <2>1, <3>1 DEF BufCreate, InitBuffer
  <2>2. ASSUME NEW d \in Doms, BuildBuffer(d) PROVE Negotiated'
    <3>1. CASE WalkPage(d)
      BY <3>1, PageTaken
    <3>2. CASE MapRefs(d)
      BY <2>2, <3>2 DEF BuildBuffer, MapRefs
    <3>3. CASE InitThrows(d)
      BY <2>2, <3>3 DEF BuildBuffer, InitThrows
    <3> QED
      BY <2>2, <3>1, <3>2, <3>3 DEF BuildBuffer
  <2>3. ASSUME NEW d \in Doms, BufRelease(d) PROVE Negotiated'
    BY <2>3 DEF BufRelease, ReleaseBuffer
  <2>4. CASE UNCHANGED bufferVars
    BY <2>4
  <2> QED
    BY <2>1, <2>2, <2>3, <2>4
    DEF Next, vars, OtherHandlers, ConfigSet, ConfigSetUntold, ConfigSetEmulated, BufGetLayout,
        BufRequest, FrameRateSet
<1> QED
  BY <1>1, <1>2, TypeCorrect, LatchHolds, PTL DEF Spec

\* At the end of its directory, a walk has all it wanted, or all of a directory whose
\* last page was full.
LEMMA WalkEnds ==
    ASSUME TypeOK, NEW d \in Doms, WalkOf(d), ~MorePages(d)
    PROVE  \/ buf[d].refs = Grefs(buf[d].size + buf[d].offset)
           \/ /\ buf[d].refs < Grefs(buf[d].size + buf[d].offset)
              /\ buf[d].refs = 1023 * (buf[d].page - 1)
              /\ buf[d].refs >= buf[d].granted
<1> USE DEF TypeOK, BuffersTypeOK, Buffer
<1> DEFINE wanted == Grefs(buf[d].size + buf[d].offset)
           pages == DirectoryPages(buf[d].granted)
<1>1. buf[d] \in Buffer /\ wanted \in Nat
  BY GrefsHold
<1>2. pages \in Nat /\ 1023 * pages >= buf[d].granted
  BY DirectoryHolds
<1>3. buf[d].page > pages
  BY <1>2 DEF MorePages
<1>4. buf[d].left + buf[d].refs = wanted /\ (buf[d].left = 0 \/ buf[d].refs = 1023 * (buf[d].page - 1))
  BY DEF WalkOf
<1> HIDE DEF wanted, pages
<1>5. \/ buf[d].refs = wanted
      \/ /\ buf[d].refs < wanted
         /\ buf[d].refs = 1023 * (buf[d].page - 1)
         /\ buf[d].refs >= buf[d].granted
  BY <1>1, <1>2, <1>3, <1>4
<1> QED
  BY <1>5 DEF wanted

\* The walk collects exactly the references the frontend granted, so its pages are
\* mapped (FrontendBuffer.cpp:58-93).
THEOREM GrantsAreCollected ==
    ASSUME \A n \in HandlerCounts : n > 1
    PROVE  Spec => []GrantsAreTaken
<1>1. TypeOK /\ Walked /\ Ended /\ Negotiated => GrantsAreTaken
  <2> SUFFICES ASSUME TypeOK, Walked, Negotiated,
                      NEW d \in Doms, stage[d] # "none", buf[d].agreed, ~MorePages(d)
               PROVE  buf[d].refs = buf[d].granted
    BY DEF Ended, GrantsAreTaken
  <2>1. buf[d].granted = Grefs(buf[d].size + buf[d].offset)
    BY DEF Negotiated
  <2>2. buf[d].refs \in Nat /\ buf[d].granted \in Nat
    BY DEF TypeOK, BuffersTypeOK, Buffer
  <2> QED
    BY <2>1, <2>2, WalkEnds DEF Walked
<1> QED
  BY <1>1, TypeCorrect, WalkHolds, NegotiatedHolds, PTL

\* copyBuffer() copies unchecked (FrontendBuffer.cpp:95-100): the pages of a frontend
\* that negotiated hold its frames, wherever it put the image in them.
THEOREM FramesAlwaysFit ==
    ASSUME \A n \in HandlerCounts : n > 1
    PROVE  Spec => []FramesFit
<1>1. TypeOK /\ Walked /\ Ended /\ GrantsAreTaken /\ Negotiated /\ ImageSizeStays => FramesFit
  <2> SUFFICES ASSUME TypeOK, GrantsAreTaken, Negotiated, ImageSizeStays,
                      NEW d \in Doms, stage[d] = "mapped", buf[d].agreed
               PROVE  buf[d].offset + ImageSize[fmt] <= 4096 * buf[d].refs
    BY DEF FramesFit
  <2>1. buf[d].refs = Grefs(buf[d].size + buf[d].offset)
    BY DEF Negotiated, GrantsAreTaken
  <2>2. buf[d].size \in Nat /\ buf[d].offset \in Nat /\ buf[d].size = ImageSize[fmt]
    BY DEF TypeOK, BuffersTypeOK, Buffer, ImageSizeStays
  <2> QED
    BY <2>1, <2>2, GrefsHold
<1> QED
  BY <1>1, TypeCorrect, ImageSizeKept, WalkHolds, NegotiatedHolds, GrantsAreCollected, PTL

\* Whatever a frontend reckoned with and however many cameras there are: the pages of a
\* buffer that was mapped hold a frame, unless they fill the last page of their directory
\* (FrontendBuffer.cpp:58-93).
THEOREM ShortGrantsAreNoticed == Spec => []ShortIsNoticed
<1>1. TypeOK /\ Walked /\ Ended /\ ImageSizeStays => ShortIsNoticed
  <2> SUFFICES ASSUME TypeOK, Walked, Ended, ImageSizeStays,
                      NEW d \in Doms, stage[d] = "mapped", buf[d].granted % 1023 # 0
               PROVE  /\ buf[d].offset + ImageSize[fmt] <= 4096 * buf[d].refs
                      /\ buf[d].refs <= buf[d].granted
    BY DEF ShortIsNoticed
  <2>1. /\ buf[d].size \in Nat /\ buf[d].offset \in Nat /\ buf[d].size = ImageSize[fmt]
        /\ buf[d].refs \in Nat /\ buf[d].granted \in Nat /\ buf[d].page \in Nat
    BY DEF TypeOK, BuffersTypeOK, Buffer, ImageSizeStays
  <2>2. buf[d].refs <= buf[d].granted /\ buf[d].page >= 1
    BY DEF Ended, Walked, WalkOf
  <2>3. buf[d].refs = Grefs(buf[d].size + buf[d].offset)
    <3>1. ASSUME buf[d].refs = 1023 * (buf[d].page - 1), buf[d].refs >= buf[d].granted
          PROVE  FALSE
      <4>1. buf[d].granted = 1023 * (buf[d].page - 1)
        BY <2>1, <2>2, <3>1
      <4> QED
        BY <2>1, <2>2, <4>1
    <3> QED
      BY <3>1, WalkEnds DEF Walked, Ended
  <2> QED
    BY <2>1, <2>2, <2>3, GrefsHold
<1> QED
  BY <1>1, TypeCorrect, ImageSizeKept, WalkHolds, PTL

-----------------------------------------------------------------------------
(* The camera implements the shared format                                  *)

\* With more than one camera handler in the process at all times, the first format that
\* was accepted, and told, is the one everybody is told for good
\* (CameraHandler.hpp:94-99, CameraHandler.cpp:195-216).
THEOREM FormatIsShared ==
    ASSUME \A n \in HandlerCounts : n > 1, None \notin Formats
    PROVE  Spec => SharesFormat
<1> DEFINE accepted == IF mFormatSet THEN fmt ELSE None
           Step == [Shared!Next]_(Shared!formatVars)
<1>1. Init => Shared!Init
  BY DEF Init, Shared!Init
<1>2. TypeOK /\ Latched /\ [Next]_vars => Step
  <2> SUFFICES ASSUME TypeOK, Latched, [Next]_vars PROVE Step
    OBVIOUS
  <2>s. ASSUME UNCHANGED <<fmt, mFormatSet, told>> PROVE Step
    BY <2>s DEF Shared!formatVars
  <2>t. told \in [Doms -> Formats \cup {None}] /\ fmt \in Formats /\ mFormatSet \in BOOLEAN
    BY DEF TypeOK
  <2>1. CASE OtherHandlers
    BY <2>1, <2>s DEF OtherHandlers
  <2>2. ASSUME NEW d \in Doms, NEW f \in Requests, ConfigSet(d, f) PROVE Step
    <3>1. mFormatSet' = TRUE /\ mFormatSet = FALSE /\ fmt' = Adjust[f]
      BY <2>2, <2>t DEF ConfigSet, FormatSet, TypeOK
    <3>2. told' = [told EXCEPT ![d] = Adjust[f]] /\ Adjust[f] \in Formats
      BY <2>2, <3>1, ConfigAssumption DEF ConfigSet
    <3>3. Shared!Accept(d, Adjust[f])
      BY <3>1, <3>2 DEF Shared!Accept
    <3> QED
      BY <3>2, <3>3 DEF Shared!Next
  <2>3. ASSUME NEW d \in Doms, NEW f \in Requests, ConfigSetUntold(d, f) PROVE Step
    BY <2>3 DEF ConfigSetUntold, Shared!formatVars
  <2>4. ASSUME NEW d \in Doms, ConfigSetEmulated(d) PROVE Step
    <3>1. Shared!Tell(d)
      BY <2>4, <2>t DEF ConfigSetEmulated, Shared!Tell
    <3> QED
      BY <3>1 DEF Shared!Next
  <2>5. ASSUME NEW d \in Doms, BufGetLayout(d) \/ BufRequest(d) \/ BuildBuffer(d) \/ BufRelease(d)
        PROVE  Step
    BY <2>5, <2>s DEF BufGetLayout, BufRequest, BuildBuffer, BufRelease
  <2>6. ASSUME NEW d \in Doms, NEW o \in Offsets, BufCreate(d, o) PROVE Step
    BY <2>6, <2>s DEF BufCreate
  <2>7. ASSUME NEW d \in Doms, NEW r \in Rates, FrameRateSet(d, r) PROVE Step
    BY <2>7, <2>s DEF FrameRateSet
  <2>8. CASE UNCHANGED vars
    BY <2>8, <2>s DEF vars
  <2> QED
    BY <2>1, <2>2, <2>3, <2>4, <2>5, <2>6, <2>7, <2>8 DEF Next
<1> QED
  BY <1>1, <1>2, TypeCorrect, LatchHolds, PTL DEF Spec, SharesFormat, Shared!Spec
=============================================================================

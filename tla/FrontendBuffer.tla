--------------------------- MODULE FrontendBuffer ---------------------------
(***************************************************************************)
(* The pages of a frontend that a FrontendBuffer maps.  The constructor      *)
(* walks the frontend's page directory, a list of pages of grant references, *)
(* and maps as many pages as the image and its offset need.  It runs in the  *)
(* frontend's command thread and holds no lock: each directory page it maps  *)
(* is a step.                                                                *)
(*                                                                         *)
(* The frontend (external) filled the directory for the size it reckoned     *)
(* with, and leaves it alone meanwhile.  Mapping a reference it did not fill *)
(* in fails.  Sizes and offsets stay below 2^32, the width they have in the  *)
(* protocol and in getBufferRefs().                                          *)
(***************************************************************************)
EXTENDS Integers

CONSTANTS
    Doms,       \* the frontends
    Offsets     \* where in its buffer a frontend wants the image

ASSUME OffsetsAssumption == Offsets \subseteq Nat

VARIABLES
    stage,      \* how far each frontend's buffer is: "none", "walking", "mapped"
    buf         \* the buffer, or its constructor's variables

bufferVars == <<stage, buf>>

\* XC_PAGE_SIZE, and the references one directory page holds after its link.
\*   size, offset: the image's;   granted: the references the frontend filled in;
\*   left: requestedNumGrefs;   refs: how many were collected;
\*   page: which directory page comes next;
\*   agreed: the frontend reckoned with a layout it was told after a CONFIG_SET.
Buffer == [size : Nat, offset : Nat, granted : Nat, left : Nat, refs : Nat,
           page : Nat, agreed : BOOLEAN]
Blank == [size |-> 0, offset |-> 0, granted |-> 0, left |-> 0, refs |-> 0,
          page |-> 0, agreed |-> FALSE]

BuffersTypeOK ==
    /\ stage \in [Doms -> {"none", "walking", "mapped"}]
    /\ buf \in [Doms -> Buffer]

BuffersInit ==
    /\ stage = [d \in Doms |-> "none"]
    /\ buf = [d \in Doms |-> Blank]

\* The pages that hold size bytes.
Grefs(size) == (size + 4095) \div 4096

\* The pages of a directory of n references.
DirectoryPages(n) == (n + 1022) \div 1023

\* Mutant: the image's offset is not part of the buffer.
InitNoOffset(d, size, offset, granted, agreed) ==
    /\ stage[d] = "none"
    /\ stage' = [stage EXCEPT ![d] = "walking"]
    /\ buf' = [buf EXCEPT ![d] =
           [size |-> size, offset |-> offset, granted |-> granted,
            left |-> Grefs(size), refs |-> 0, page |-> 1, agreed |-> agreed]]

\* init(), up to the directory's first page.
InitBuffer(d, size, offset, granted, agreed) ==
    /\ stage[d] = "none"
    /\ stage' = [stage EXCEPT ![d] = "walking"]
    /\ buf' = [buf EXCEPT ![d] =
           [size |-> size, offset |-> offset, granted |-> granted,
            left |-> Grefs(size + offset), refs |-> 0, page |-> 1, agreed |-> agreed]]

\* There is another page in the directory: startDirectory # 0.
MorePages(d) == buf[d].page <= DirectoryPages(buf[d].granted)

\* Mutant: every page is taken for a full one.
WalkWholePages(d) ==
    /\ stage[d] = "walking"
    /\ MorePages(d)
    /\ buf' = [buf EXCEPT ![d].refs = @ + 1023, ![d].page = @ + 1]
    /\ UNCHANGED stage

\* n references of the next directory page are collected.
Take(r, n) == [r EXCEPT !.left = @ - n, !.refs = @ + n, !.page = @ + 1]

\* getBufferRefs(): the references of one directory page, no more than are wanted.
WalkPage(d) ==
    LET numGrefs == IF buf[d].left < 1023 THEN buf[d].left ELSE 1023 IN
    /\ stage[d] = "walking"
    /\ MorePages(d)
    /\ buf' = [buf EXCEPT ![d] = Take(buf[d], numGrefs)]
    /\ UNCHANGED stage

\* Mutant: what the frontend did not fill in is taken for a page.
MapUnfilled(d) ==
    /\ stage[d] = "walking"
    /\ ~MorePages(d)
    /\ stage' = [stage EXCEPT ![d] = "mapped"]
    /\ UNCHANGED buf

\* The references collected are mapped: all of them were filled in.
MapRefs(d) ==
    /\ stage[d] = "walking"
    /\ ~MorePages(d)
    /\ buf[d].refs <= buf[d].granted
    /\ stage' = [stage EXCEPT ![d] = "mapped"]
    /\ UNCHANGED buf

\* The constructor throws: a page, the directory's or the buffer's, was not mapped.
InitThrows(d) ==
    /\ stage[d] = "walking"
    /\ stage' = [stage EXCEPT ![d] = "none"]
    /\ buf' = [buf EXCEPT ![d] = Blank]

\* The destructor, if there is a buffer: unmaps.
ReleaseBuffer(d) ==
    /\ stage[d] # "walking"
    /\ stage' = [stage EXCEPT ![d] = "none"]
    /\ buf' = [buf EXCEPT ![d] = Blank]
=============================================================================

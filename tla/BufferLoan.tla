----------------------------- MODULE BufferLoan -----------------------------
(***************************************************************************)
(* What the backend promises a frontend about its buffers, as the comment   *)
(* at CommandHandler.hpp:64-72 puts it.  The frontend lends buffers; the    *)
(* backend fills the one lent first, again and again while it stays lent,   *)
(* and reports each filling while the buffer is still on loan; a buffer that*)
(* was taken back is not touched any more.                                  *)
(***************************************************************************)
EXTENDS Naturals, Sequences

CONSTANT Indices     \* the buffer indices a frontend may use

VARIABLES
    lent,            \* the buffers on loan, in the order they were lent
    filled,          \* the buffer filled and not yet reported, if any
    reports          \* the indices reported, in order

loanVars == <<lent, filled, reports>>

Init == lent = <<>> /\ filled = {} /\ reports = <<>>

OnLoan == {lent[k] : k \in DOMAIN lent}

Lend(i) ==
    /\ i \notin OnLoan
    /\ lent' = Append(lent, i)
    /\ UNCHANGED <<filled, reports>>

\* A buffer cannot be taken back between its filling and the report.
TakeBack(i) ==
    /\ i \notin filled
    /\ \E n \in DOMAIN lent :
          /\ lent[n] = i
          /\ lent' = SubSeq(lent, 1, n - 1) \o SubSeq(lent, n + 1, Len(lent))
    /\ UNCHANGED <<filled, reports>>

Fill ==
    /\ filled = {}
    /\ lent # <<>>
    /\ filled' = {Head(lent)}
    /\ UNCHANGED <<lent, reports>>

Report ==
    /\ \E i \in filled : reports' = Append(reports, i)
    /\ filled' = {}
    /\ UNCHANGED lent

\* The frontend closes: all that is lent is its own again.
Close ==
    /\ filled = {}
    /\ lent' = <<>>
    /\ UNCHANGED <<filled, reports>>

Next == (\E i \in Indices : Lend(i) \/ TakeBack(i)) \/ Fill \/ Report \/ Close

Spec == Init /\ [][Next]_loanVars
=============================================================================

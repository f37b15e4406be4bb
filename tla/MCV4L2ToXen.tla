----------------------------- MODULE MCV4L2ToXen -----------------------------
(* The numbers for TLC.                                                      *)
EXTENDS V4L2ToXen

\* All that linux/videodev2.h defines; the controls are those controlEnum() finds.
MCGiven ==
    [ctrl |-> Cid..(Cid + 3), colorspace |-> 0..12, xfer |-> 0..7, ycbcr |-> 0..8,
     quantization |-> 0..2]

\* Valid ones, unknown ones, and the number the sentinel has.
MCXens == -1..8

MCMemory == {-1, 0, 6}
=============================================================================

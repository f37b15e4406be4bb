--------------------------- MODULE MCCameraConfig ---------------------------
(* Instances of CameraConfig for TLC.                                        *)
EXTENDS CameraConfig, TLC

CONSTANTS a, b, c

\* Two formats, and a request the device changes to one of them.
MCFormats == {"small", "large"}
MCRequests == MCFormats \cup {"huge"}
MCAdjust == [r \in MCRequests |-> IF r = "huge" THEN "large" ELSE r]

\* A small image fills its last page, and its references one directory page: an
\* offset needs a page more, and that one a second directory page.  A large one
\* leaves room for an offset.
MCImageSize == [f \in MCFormats |-> IF f = "small" THEN 4096 * 1023 ELSE 4096 * 2000 + 1]

Interchangeable == Permutations(Doms)
=============================================================================

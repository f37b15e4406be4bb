--------------------------- MODULE MCCameraManager ---------------------------
(* An instance of CameraManager with its HandlerLife for TLC.                *)
EXTENDS HandlerLife, TLC

CONSTANTS a, b, u, v, w, x, y

\* Two names of one camera, only the first of which has a media device, and a name
\* without a camera.
MCIdOf ==
    (u :> <<[colon |-> TRUE, video |-> "video0", media |-> "media0"]>>) @@
    (v :> <<[colon |-> FALSE, video |-> "video0", media |-> None]>>) @@
    (w :> <<[colon |-> TRUE, video |-> None, media |-> "media0"]>>)
=============================================================================

-------------------------- MODULE MCCameraControls --------------------------
(* Instances of CameraControls for TLC.                                      *)
EXTENDS CameraControls

CONSTANTS a, b
=============================================================================

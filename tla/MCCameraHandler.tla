--------------------------- MODULE MCCameraHandler ---------------------------
(* Instances of CameraHandler for TLC.                                       *)
EXTENDS CameraHandler, TLC

CONSTANTS a, b

\* Frontends differ in nothing but their name.
Interchangeable == Permutations(Doms)

\* With ioctls that fail, a frontend may ask for buffers again and again, and
\* every attempt may leave mappings behind.
MaxMappings == 4
MappingsBound == Len(mBuffers) <= MaxMappings
=============================================================================

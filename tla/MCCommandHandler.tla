-------------------------- MODULE MCCommandHandler --------------------------
(* An instance of CommandHandler for TLC.                                    *)
EXTENDS CommandHandler, TLC

CONSTANTS i, j, k

\* The frontend's buffers differ in nothing but their index.
Interchangeable == Permutations(Indices)
=============================================================================

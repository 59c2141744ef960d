---------------------------- MODULE MCRS2Capture ----------------------------
(***************************************************************************)
(* RS2Capture for TLC.                                                     *)
(***************************************************************************)
EXTENDS RS2Capture, TLC

ConsumerSymmetry == Permutations(Consumers)

\* The memory of new cameras is zero ...
DoneZeroed == {{}}

\* ... or anything.
DoneAnything == SUBSET Cameras
=============================================================================

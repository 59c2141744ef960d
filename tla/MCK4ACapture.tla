---------------------------- MODULE MCK4ACapture ----------------------------
(***************************************************************************)
(* K4ACapture for TLC.  The consumers are interchangeable; the cameras are  *)
(* not, the control thread waits for them in order.                        *)
(***************************************************************************)
EXTENDS K4ACapture, TLC

ConsumerSymmetry == Permutations(Consumers)
=============================================================================

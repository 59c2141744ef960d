-------------------------- MODULE MCCaptureLiveness --------------------------
(***************************************************************************)
(* Liveness of the capturers that go through the steps of K4ACapture, for  *)
(* TLC.  The initial state chooses which of them is used.  Faults are those *)
(* of the Orbbec capturer; a Kinect capturer whose cameras refuse to start *)
(* is left out, because its get_pointcloud() then waits until stop().      *)
(***************************************************************************)
EXTENDS OrbbecCapture

VARIABLE capturerType   \* which capturer it is

Kinect == INSTANCE K4ACapture WITH Faults <- {"capture"}

allVars == <<capturerType, vars>>

\* A step of the one that is used.
Step(kinect, orbbec) ==
    /\ \/ capturerType = "kinect" /\ kinect
       \/ capturerType = "orbbec" /\ orbbec
    /\ UNCHANGED capturerType

EitherInit == Init /\ capturerType \in {"kinect", "orbbec"}

EitherNext == Step(Kinect!Next, OrbbecNext)

\* LiveSpec or OrbbecLiveSpec.
EitherSpec ==
    /\ EitherInit /\ [][EitherNext]_allVars
    /\ SF_allVars(Step(Kinect!Control, OrbbecControl))
    /\ SF_allVars(Step(CaptureAll, CaptureAll))
    /\ \A c \in Cameras : WF_allVars(Step(Kinect!Processing(c), OrbbecProcessing(c)))
    /\ \A t \in Consumers : SF_allVars(Step(Kinect!InCall(t), OrbbecInCall(t)))
    /\ WF_allVars(Step(Kinect!Stopping, OrbbecStopping))
=============================================================================

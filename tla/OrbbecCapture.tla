--------------------------- MODULE OrbbecCapture ---------------------------
(***************************************************************************)
(* The Orbbec capturer, cwipc_orbbec/src/OrbbecBaseCapture.hpp with        *)
(* OrbbecBaseCamera.hpp and OrbbecCamera.cpp.  It was made after the       *)
(* Kinect capturer and its threads go through the same steps, which are    *)
(* taken from K4ACapture.  It differs in that                              *)
(*   - start() looks at what _start_cameras() returns, and unloads the     *)
(*     cameras again when one of them has refused;                         *)
(*   - a frame that lacks its depth or colour image becomes an empty       *)
(*     cloud, and the control thread is told of that too;                  *)
(*   - no camera ever sets end_of_stream_reached, so that eof() stays      *)
(*     false; at the end of a recording the captures just fail.            *)
(***************************************************************************)
EXTENDS K4ACapture

\* What can go wrong with a camera: it refuses to start, or a capture fails.
OrbbecFaults == {"start", "capture"}

\* _control_thread_main() and the functions it calls.
OrbbecControl ==
    \/ Loop \/ AwaitRequest \/ FallAsleep \/ CheckEof
    \/ CaptureAll \/ CaptureFails
    \/ NewCloud \/ AbandonNewCloud \/ EnqueueFrames \/ GoOn
    \/ Install \/ WaitForProcessed \/ CamerasReady \/ Merge

\* _processing_thread_main()
OrbbecProcessing(c) == Dequeue(c) \/ Generate(c) \/ ProcessingExits(c)

\* pointcloud_available() and get_pointcloud()
OrbbecInCall(t) ==
    \/ Request(t) \/ Take(t) \/ TestFails(t) \/ GetterSleeps(t)
    \/ AvailableReturns(t)

\* MUTANT: start() does not look whether the cameras have started.
StartRegardless ==
    /\ Start
    /\ streaming' \in BOOLEAN

\* start() returns true: every camera streams and has its thread.
StartStreaming ==
    /\ Start
    /\ streaming'

\* _unload_cameras(), _stop_cameras() and the destructor.
OrbbecStopping ==
    \/ StopSetsStopped \/ StopReleasesGetters \/ StopReleasesControl
    \/ StopJoinsControl \/ StopStopsCameras \/ StopFinishes \/ Destroy

OrbbecNext ==
    \/ OrbbecControl
    \/ \E c \in Cameras : OrbbecProcessing(c)
    \/ \E t \in Consumers : Call(t) \/ OrbbecInCall(t)
    \/ StartStreaming \/ StartAborts \/ Stop \/ Free \/ OrbbecStopping
    \/ SpuriousWakeup

OrbbecSpec == Init /\ [][OrbbecNext]_vars

\* As LiveSpec of the Kinect capturer: threads run on, and a camera that
\* times out now and then delivers frames in between.
OrbbecLiveSpec ==
    /\ OrbbecSpec
    /\ SF_vars(OrbbecControl) /\ SF_vars(CaptureAll)
    /\ \A c \in Cameras : WF_vars(OrbbecProcessing(c))
    /\ \A t \in Consumers : SF_vars(OrbbecInCall(t))
    /\ WF_vars(OrbbecStopping)
=============================================================================

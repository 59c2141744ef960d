------------------------ MODULE OrbbecCapture_proofs ------------------------
(***************************************************************************)
(* What is proved of the Kinect capturer holds of the Orbbec capturer,     *)
(* because each of its steps is one of those of the Kinect capturer: what  *)
(* it does not have (a camera that notices the end of its recording, a     *)
(* frame whose transformation fails) only made more things possible.       *)
(***************************************************************************)
EXTENDS OrbbecCapture, K4ACapture_proofs

\* One step of one thread, of the application, or of the owner.
LEMMA OrbbecStep == OrbbecNext => Next
<1> SUFFICES ASSUME OrbbecNext PROVE Next
  OBVIOUS
<1> USE DEF Next
<1>1. CASE OrbbecControl
  BY <1>1 DEF OrbbecControl, Control
<1>2. ASSUME NEW c \in Cameras, OrbbecProcessing(c) PROVE Next
  BY <1>2 DEF OrbbecProcessing, Processing
<1>3. ASSUME NEW t \in Consumers, Call(t) \/ OrbbecInCall(t) PROVE Next
  BY <1>3 DEF OrbbecInCall, Consumer, InCall
<1>4. CASE StartStreaming
  BY <1>4 DEF StartStreaming
<1>5. CASE OrbbecStopping
  BY <1>5 DEF OrbbecStopping, Stopping
<1>6. CASE StartAborts \/ Stop \/ Free \/ SpuriousWakeup
  BY <1>6
<1> QED
  BY <1>1, <1>2, <1>3, <1>4, <1>5, <1>6 DEF OrbbecNext

\* Every behaviour of the Orbbec capturer is one of the Kinect capturer.
THEOREM OrbbecIsKinect == OrbbecSpec => Spec
BY OrbbecStep, PTL DEF OrbbecSpec, Spec

\* What the Orbbec capturer points to is its own and newer than all it has
\* handed out, for any number of cameras, application threads and clouds.
THEOREM OrbbecOwnership == OrbbecSpec => []CloudOwnership
BY OrbbecIsKinect, Ownership, PTL

\* The Orbbec capturer hands out each cloud at most once, in order, and does
\* not free it afterwards.
THEOREM OrbbecImplements == OrbbecSpec => ImplementsSource
BY OrbbecIsKinect, Implements, PTL

\* What get_pointcloud() of the Orbbec capturer can take has the points of its
\* own capture from every camera.
THEOREM OrbbecFreshClouds == OrbbecSpec => []FreshIsComplete
BY OrbbecIsKinect, FreshClouds, PTL

\* No thread of the Orbbec capturer sleeps through the wakeup meant for it.
THEOREM OrbbecWakeups == OrbbecSpec => []NoWakeupLost
BY OrbbecIsKinect, Wakeups, PTL

\* An unread cloud of the Orbbec capturer stays until the application takes it.
THEOREM OrbbecUnreadKept == OrbbecSpec => NoUnreadOverwritten
BY OrbbecIsKinect, UnreadKept, PTL
=============================================================================

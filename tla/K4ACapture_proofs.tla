-------------------------- MODULE K4ACapture_proofs --------------------------
(***************************************************************************)
(* Proofs about the Kinect capturer, for every number of cameras, consumers *)
(* and calls.                                                              *)
(***************************************************************************)
EXTENDS K4ACapture, TLAPS

-----------------------------------------------------------------------------
(* Types.  The Booleans have a lemma of their own, the solver that reasons  *)
(* about arithmetic being weak on them.                                    *)

DataTypeOK ==
    /\ CapturerTypeOK /\ ControlTypeOK
    /\ CamerasTypeOK /\ ApplicationTypeOK /\ CloudsTypeOK

\* CaptureAll has tested the bound for NewCloud.
Bounded == ctl = "captured" => made < MaxClouds

LEMMA TypedInit == Init => TypeOK /\ Bounded
<1> SUFFICES ASSUME Init PROVE TypeOK /\ Bounded
  OBVIOUS
<1>1. FlagsTypeOK
  BY DEF FlagsTypeOK, Init
<1> USE NumCamerasAssumption, BoundsAssumption DEF Init, Cameras, Clouds, NoPoints
<1>2. CapturerTypeOK
  BY DEF CapturerTypeOK
<1>3. ControlTypeOK
  BY DEF ControlTypeOK
<1>4. CamerasTypeOK
  BY DEF CamerasTypeOK
<1>5. ApplicationTypeOK
  BY DEF ApplicationTypeOK
<1>6. CloudsTypeOK
  BY DEF CloudsTypeOK
<1>7. Bounded
  BY DEF Bounded
<1> QED
  BY <1>1, <1>2, <1>3, <1>4, <1>5, <1>6, <1>7 DEF TypeOK

LEMMA FlagsStep == FlagsTypeOK /\ [Next]_vars => FlagsTypeOK'
<1> SUFFICES ASSUME FlagsTypeOK, [Next]_vars PROVE FlagsTypeOK'
  OBVIOUS
<1> USE DEF FlagsTypeOK, capturer, control, cameras, application
<1>1. CASE Control
  <2>1. CASE Loop \/ AwaitRequest \/ FallAsleep \/ CheckEof
    BY <2>1 DEF Loop, AwaitRequest, FallAsleep, CheckEof
  <2>2. CASE CaptureAll \/ CaptureFails \/ CaptureHitsEof
    BY <2>2 DEF CaptureAll, CaptureFails, CaptureHitsEof
  <2>3. CASE NewCloud \/ AbandonNewCloud \/ EnqueueFrames \/ GoOn
    BY <2>3 DEF NewCloud, AbandonNewCloud, EnqueueFrames, GoOn
  <2>4. CASE Install \/ WaitForProcessed \/ CamerasReady \/ Merge
    BY <2>4 DEF Install, WaitForProcessed, CamerasReady, Merge
  <2> QED BY <1>1, <2>1, <2>2, <2>3, <2>4 DEF Control
<1>2. ASSUME NEW c \in Cameras, Processing(c) PROVE FlagsTypeOK'
  BY <1>2 DEF Processing, Dequeue, Generate, GenerateFails, ProcessingExits
<1>3. ASSUME NEW t \in Consumers, Consumer(t) PROVE FlagsTypeOK'
  BY <1>3 DEF Consumer, InCall, Call, Request, RequestNew, ControlNotified, Take,
     TestFails, GetterSleeps, AvailableReturns
<1>4. CASE Start \/ StartAborts \/ Stop \/ Free
  BY <1>4 DEF Start, StartAborts, Stop, Free
<1>5. CASE Stopping
  BY <1>5 DEF Stopping, StopSetsStopped, StopReleasesGetters, StopReleasesControl,
     StopJoinsControl, StopStopsCameras, StopFinishes, Destroy, ControlNotified
<1>6. CASE SpuriousWakeup
  BY <1>6 DEF SpuriousWakeup
<1>7. CASE UNCHANGED vars
  BY <1>7 DEF vars
<1> QED
  BY <1>1, <1>2, <1>3, <1>4, <1>5, <1>6, <1>7 DEF Next

LEMMA BoundedStep == Bounded /\ [Next]_vars => Bounded'
<1> SUFFICES ASSUME Bounded, [Next]_vars PROVE Bounded'
  OBVIOUS
<1> USE DEF Bounded, capturer, control, cameras, application, clouds
<1>1. CASE Control
  BY <1>1 DEF Control, Loop, AwaitRequest, FallAsleep, CheckEof, CaptureAll,
     CaptureFails, CaptureHitsEof, NewCloud, AbandonNewCloud, EnqueueFrames, GoOn,
     Install, WaitForProcessed, CamerasReady, Merge
<1>2. ASSUME NEW c \in Cameras, Processing(c) PROVE Bounded'
  BY <1>2 DEF Processing, Dequeue, Generate, GenerateFails, ProcessingExits
<1>3. ASSUME NEW t \in Consumers, Consumer(t) PROVE Bounded'
  BY <1>3 DEF Consumer, InCall, Call, Request, RequestNew, ControlNotified, Take,
     TestFails, GetterSleeps, AvailableReturns
<1>4. CASE Start \/ StartAborts \/ Stop \/ Free
  BY <1>4 DEF Start, StartAborts, Stop, Free
<1>5. CASE Stopping
  BY <1>5 DEF Stopping, StopSetsStopped, StopReleasesGetters, StopReleasesControl,
     StopJoinsControl, StopStopsCameras, StopFinishes, Destroy, ControlNotified
<1>6. CASE SpuriousWakeup
  BY <1>6 DEF SpuriousWakeup
<1>7. CASE UNCHANGED vars
  BY <1>7 DEF vars
<1> QED
  BY <1>1, <1>2, <1>3, <1>4, <1>5, <1>6, <1>7 DEF Next

\* A step that leaves a group of variables alone leaves their types alone.
LEMMA Untouched ==
    ASSUME DataTypeOK
    PROVE  /\ UNCHANGED capturer => CapturerTypeOK'
           /\ UNCHANGED control => ControlTypeOK'
           /\ UNCHANGED cameras => CamerasTypeOK'
           /\ UNCHANGED application => ApplicationTypeOK'
           /\ UNCHANGED clouds => CloudsTypeOK'
<1>1. UNCHANGED capturer => CapturerTypeOK'
  BY DEF DataTypeOK, CapturerTypeOK, capturer
<1>2. UNCHANGED control => ControlTypeOK'
  BY DEF DataTypeOK, ControlTypeOK, control
<1>3. UNCHANGED cameras => CamerasTypeOK'
  BY DEF DataTypeOK, CamerasTypeOK, cameras
<1>4. UNCHANGED application => ApplicationTypeOK'
  BY DEF DataTypeOK, ApplicationTypeOK, application
<1>5. UNCHANGED clouds => CloudsTypeOK'
  BY DEF DataTypeOK, CloudsTypeOK, clouds
<1> QED
  BY <1>1, <1>2, <1>3, <1>4, <1>5

LEMMA DataStep == DataTypeOK /\ Bounded /\ [Next]_vars => DataTypeOK'
<1> SUFFICES ASSUME DataTypeOK, Bounded, [Next]_vars PROVE DataTypeOK'
  OBVIOUS
<1> USE NumCamerasAssumption, BoundsAssumption DEF Bounded, Cameras, Clouds
<1>1. CASE Loop
  BY <1>1, Untouched DEF DataTypeOK, ControlTypeOK, Loop
<1>2. CASE AwaitRequest
  <2>1. CapturerTypeOK'
    BY <1>2 DEF DataTypeOK, CapturerTypeOK, AwaitRequest
  <2>2. ControlTypeOK'
    BY <1>2 DEF DataTypeOK, ControlTypeOK, AwaitRequest
  <2> QED
    BY <1>2, <2>1, <2>2, Untouched DEF DataTypeOK, AwaitRequest
<1>3. CASE FallAsleep
  <2>1. CapturerTypeOK'
    BY <1>3 DEF DataTypeOK, CapturerTypeOK, FallAsleep
  <2>2. ControlTypeOK'
    BY <1>3 DEF DataTypeOK, ControlTypeOK, FallAsleep
  <2> QED
    BY <1>3, <2>1, <2>2, Untouched DEF DataTypeOK, FallAsleep
<1>4. CASE CheckEof
  <2>1. CapturerTypeOK'
    BY <1>4 DEF DataTypeOK, CapturerTypeOK, CheckEof
  <2>2. ControlTypeOK'
    BY <1>4 DEF DataTypeOK, ControlTypeOK, CheckEof
  <2> QED
    BY <1>4, <2>1, <2>2, Untouched DEF DataTypeOK, CheckEof
<1>5. CASE CaptureAll
  BY <1>5, Untouched DEF DataTypeOK, ControlTypeOK, CaptureAll
<1>6. CASE CaptureFails
  BY <1>6, Untouched DEF DataTypeOK, ControlTypeOK, CaptureFails
<1>7. CASE CaptureHitsEof
  <2>1. ControlTypeOK'
    BY <1>7 DEF DataTypeOK, ControlTypeOK, CaptureHitsEof
  <2>2. CamerasTypeOK'
    BY <1>7 DEF DataTypeOK, CamerasTypeOK, CaptureHitsEof
  <2> QED
    BY <1>7, <2>1, <2>2, Untouched DEF DataTypeOK, CaptureHitsEof
<1>8. CASE NewCloud
  <2>1. CASE UNCHANGED clouds /\ UNCHANGED newPC
    <3>1. ControlTypeOK'
      BY <1>8, <2>1 DEF DataTypeOK, ControlTypeOK, NewCloud
    <3> QED
      BY <1>8, <2>1, <3>1, Untouched DEF DataTypeOK, NewCloud
  <2>2. CASE /\ made' = made + 1 /\ newPC' = made + 1 /\ ctl' = "saveMetadata"
             /\ where' = [where EXCEPT ![made + 1] = "source"]
             /\ UNCHANGED <<content, last>>
    <3>1. made + 1 \in 0 .. MaxClouds
      BY <1>8 DEF DataTypeOK, CloudsTypeOK, NewCloud
    <3>2. ControlTypeOK'
      BY <1>8, <2>2, <3>1 DEF DataTypeOK, ControlTypeOK, NewCloud
    <3>3. CloudsTypeOK'
      BY <1>8, <2>2, <3>1 DEF DataTypeOK, CloudsTypeOK
    <3> QED
      BY <1>8, <3>2, <3>3, Untouched DEF DataTypeOK, NewCloud
  <2> QED
    BY <1>8, <2>1, <2>2 DEF NewCloud
<1>9. CASE AbandonNewCloud
  <2>1. ControlTypeOK'
    BY <1>9 DEF DataTypeOK, ControlTypeOK, AbandonNewCloud, Freed
  <2>2. CloudsTypeOK'
    BY <1>9 DEF DataTypeOK, CloudsTypeOK, AbandonNewCloud, Freed
  <2> QED
    BY <1>9, <2>1, <2>2, Untouched DEF DataTypeOK, AbandonNewCloud, Freed
<1>10. CASE EnqueueFrames
  <2>1. ControlTypeOK'
    BY <1>10 DEF DataTypeOK, ControlTypeOK, EnqueueFrames
  <2>2. CamerasTypeOK'
    BY <1>10 DEF DataTypeOK, CamerasTypeOK, ControlTypeOK, EnqueueFrames
  <2> QED
    BY <1>10, <2>1, <2>2, Untouched DEF DataTypeOK, EnqueueFrames
<1>11. CASE GoOn
  BY <1>11, Untouched DEF DataTypeOK, ControlTypeOK, GoOn
<1>12. CASE Install
  <2>1. CapturerTypeOK'
    BY <1>12 DEF DataTypeOK, CapturerTypeOK, ControlTypeOK, Install, Freed
  <2>2. ControlTypeOK'
    BY <1>12 DEF DataTypeOK, ControlTypeOK, Install, Freed
  <2>3. CloudsTypeOK'
    BY <1>12 DEF DataTypeOK, CloudsTypeOK, ControlTypeOK, Install, Freed
  <2> QED
    BY <1>12, <2>1, <2>2, <2>3, Untouched DEF DataTypeOK, Install, Freed
<1>13. CASE WaitForProcessed
  <2>1. ControlTypeOK'
    BY <1>13 DEF DataTypeOK, ControlTypeOK, WaitForProcessed
  <2>2. CamerasTypeOK'
    BY <1>13 DEF DataTypeOK, CamerasTypeOK, WaitForProcessed
  <2> QED
    BY <1>13, <2>1, <2>2, Untouched DEF DataTypeOK, WaitForProcessed
<1>14. CASE CamerasReady
  <2>1. CapturerTypeOK'
    BY <1>14 DEF DataTypeOK, CapturerTypeOK, CamerasReady
  <2>2. ControlTypeOK'
    BY <1>14 DEF DataTypeOK, ControlTypeOK, CamerasReady
  <2> QED
    BY <1>14, <2>1, <2>2, Untouched DEF DataTypeOK, CamerasReady
<1>15. CASE Merge
  <2>1. CapturerTypeOK'
    BY <1>15 DEF DataTypeOK, CapturerTypeOK, Merge, GettersNotified
  <2>2. ControlTypeOK'
    BY <1>15 DEF DataTypeOK, ControlTypeOK, Merge, GettersNotified
  <2>3. ApplicationTypeOK'
    BY <1>15 DEF DataTypeOK, ApplicationTypeOK, Merge, GettersNotified
  <2>4. CloudsTypeOK'
    BY <1>15 DEF DataTypeOK, CloudsTypeOK, CamerasTypeOK, Merge, GettersNotified
  <2> QED
    BY <1>15, <2>1, <2>2, <2>3, <2>4, Untouched DEF DataTypeOK, Merge, GettersNotified
<1>16. ASSUME NEW c \in Cameras, Dequeue(c) PROVE DataTypeOK'
  <2>1. queue' \in [Cameras -> 0 .. MaxClouds]
    BY <1>16 DEF DataTypeOK, CamerasTypeOK, Dequeue
  <2>2. work' \in [Cameras -> 0 .. MaxClouds]
    BY <1>16 DEF DataTypeOK, CamerasTypeOK, Dequeue
  <2>3. current' \in [Cameras -> 0 .. MaxClouds]
    BY <1>16 DEF DataTypeOK, CamerasTypeOK, Dequeue
  <2>4. proc' \in [Cameras -> {"off", "dequeue", "generate", "exited"}]
    BY <1>16 DEF DataTypeOK, CamerasTypeOK, Dequeue
  <2>5. endOfStream' \subseteq Cameras /\ done' \subseteq Cameras
    BY <1>16 DEF DataTypeOK, CamerasTypeOK, Dequeue
  <2>6. CamerasTypeOK'
    BY <2>1, <2>2, <2>3, <2>4, <2>5 DEF CamerasTypeOK
  <2> QED
    BY <1>16, <2>6, Untouched DEF DataTypeOK, Dequeue
<1>17. ASSUME NEW c \in Cameras, Generate(c) PROVE DataTypeOK'
  <2>1. queue' \in [Cameras -> 0 .. MaxClouds]
    BY <1>17 DEF DataTypeOK, CamerasTypeOK, Generate
  <2>2. work' \in [Cameras -> 0 .. MaxClouds]
    BY <1>17 DEF DataTypeOK, CamerasTypeOK, Generate
  <2>3. current' \in [Cameras -> 0 .. MaxClouds]
    BY <1>17 DEF DataTypeOK, CamerasTypeOK, Generate
  <2>4. proc' \in [Cameras -> {"off", "dequeue", "generate", "exited"}]
    BY <1>17 DEF DataTypeOK, CamerasTypeOK, Generate
  <2>5. endOfStream' \subseteq Cameras /\ done' \subseteq Cameras
    BY <1>17 DEF DataTypeOK, CamerasTypeOK, Generate
  <2>6. CamerasTypeOK'
    BY <2>1, <2>2, <2>3, <2>4, <2>5 DEF CamerasTypeOK
  <2> QED
    BY <1>17, <2>6, Untouched DEF DataTypeOK, Generate
<1>18. ASSUME NEW c \in Cameras, GenerateFails(c) PROVE DataTypeOK'
  <2>1. queue' \in [Cameras -> 0 .. MaxClouds]
    BY <1>18 DEF DataTypeOK, CamerasTypeOK, GenerateFails
  <2>2. work' \in [Cameras -> 0 .. MaxClouds]
    BY <1>18 DEF DataTypeOK, CamerasTypeOK, GenerateFails
  <2>3. current' \in [Cameras -> 0 .. MaxClouds]
    BY <1>18 DEF DataTypeOK, CamerasTypeOK, GenerateFails
  <2>4. proc' \in [Cameras -> {"off", "dequeue", "generate", "exited"}]
    BY <1>18 DEF DataTypeOK, CamerasTypeOK, GenerateFails
  <2>5. endOfStream' \subseteq Cameras /\ done' \subseteq Cameras
    BY <1>18 DEF DataTypeOK, CamerasTypeOK, GenerateFails
  <2>6. CamerasTypeOK'
    BY <2>1, <2>2, <2>3, <2>4, <2>5 DEF CamerasTypeOK
  <2> QED
    BY <1>18, <2>6, Untouched DEF DataTypeOK, GenerateFails
<1>19. ASSUME NEW c \in Cameras, ProcessingExits(c) PROVE DataTypeOK'
  BY <1>19, Untouched DEF DataTypeOK, CamerasTypeOK, ProcessingExits
<1>20. ASSUME NEW t \in Consumers, Call(t) PROVE DataTypeOK'
  BY <1>20, Untouched DEF DataTypeOK, ApplicationTypeOK, Call, Goto
<1>21. ASSUME NEW t \in Consumers, Request(t) PROVE DataTypeOK'
  <2>1. CapturerTypeOK'
    BY <1>21 DEF DataTypeOK, CapturerTypeOK, Request, RequestNew, ControlNotified, Goto
  <2>2. ControlTypeOK'
    BY <1>21 DEF DataTypeOK, ControlTypeOK, Request, RequestNew, ControlNotified, Goto
  <2>3. ApplicationTypeOK'
    BY <1>21 DEF DataTypeOK, ApplicationTypeOK, Request, RequestNew, ControlNotified, Goto
  <2> QED
    BY <1>21, <2>1, <2>2, <2>3, Untouched DEF DataTypeOK, Request, RequestNew, ControlNotified, Goto
<1>22. ASSUME NEW t \in Consumers, Take(t) PROVE DataTypeOK'
  <2>1. CapturerTypeOK'
    BY <1>22 DEF DataTypeOK, CapturerTypeOK, Take, Goto
  <2>2. ApplicationTypeOK'
    BY <1>22 DEF DataTypeOK, ApplicationTypeOK, Take, Goto
  <2>3. CloudsTypeOK'
    BY <1>22 DEF DataTypeOK, CloudsTypeOK, CapturerTypeOK, Take, Goto
  <2> QED
    BY <1>22, <2>1, <2>2, <2>3, Untouched DEF DataTypeOK, Take, Goto
<1>23. ASSUME NEW t \in Consumers, TestFails(t) PROVE DataTypeOK'
  <2>1. CapturerTypeOK'
    BY <1>23 DEF DataTypeOK, CapturerTypeOK, TestFails, Goto
  <2>2. ApplicationTypeOK'
    BY <1>23 DEF DataTypeOK, ApplicationTypeOK, TestFails, Goto
  <2> QED
    BY <1>23, <2>1, <2>2, Untouched DEF DataTypeOK, TestFails, Goto
<1>24. ASSUME NEW t \in Consumers, GetterSleeps(t) PROVE DataTypeOK'
  <2>1. CapturerTypeOK'
    BY <1>24 DEF DataTypeOK, CapturerTypeOK, GetterSleeps, Goto
  <2>2. ApplicationTypeOK'
    BY <1>24 DEF DataTypeOK, ApplicationTypeOK, GetterSleeps, Goto
  <2> QED
    BY <1>24, <2>1, <2>2, Untouched DEF DataTypeOK, GetterSleeps, Goto
<1>25. ASSUME NEW t \in Consumers, AvailableReturns(t) PROVE DataTypeOK'
  <2>1. CapturerTypeOK'
    BY <1>25 DEF DataTypeOK, CapturerTypeOK, AvailableReturns, Goto
  <2>2. ApplicationTypeOK'
    BY <1>25 DEF DataTypeOK, ApplicationTypeOK, AvailableReturns, Goto
  <2> QED
    BY <1>25, <2>1, <2>2, Untouched DEF DataTypeOK, AvailableReturns, Goto
<1>26. CASE Start
  <2>1. CapturerTypeOK'
    BY <1>26 DEF DataTypeOK, CapturerTypeOK, Start
  <2>2. ControlTypeOK'
    BY <1>26 DEF DataTypeOK, ControlTypeOK, Start
  <2>3. CamerasTypeOK'
    BY <1>26 DEF DataTypeOK, CamerasTypeOK, Start
  <2>4. ApplicationTypeOK'
    BY <1>26 DEF DataTypeOK, ApplicationTypeOK, Start
  <2> QED
    BY <1>26, <2>1, <2>2, <2>3, <2>4, Untouched DEF DataTypeOK, Start
<1>27. CASE StartAborts
  BY <1>27, Untouched DEF DataTypeOK, ApplicationTypeOK, StartAborts, Owner
<1>28. CASE Stop
  BY <1>28, Untouched DEF DataTypeOK, ApplicationTypeOK, Stop, Owner
<1>29. CASE Free
  BY <1>29, Untouched DEF DataTypeOK, ApplicationTypeOK, Free, Owner
<1>30. CASE StopSetsStopped
  <2>1. CapturerTypeOK'
    BY <1>30 DEF DataTypeOK, CapturerTypeOK, StopSetsStopped, Owner
  <2>2. ApplicationTypeOK'
    BY <1>30 DEF DataTypeOK, ApplicationTypeOK, StopSetsStopped, Owner
  <2> QED
    BY <1>30, <2>1, <2>2, Untouched DEF DataTypeOK, StopSetsStopped, Owner
<1>31. CASE StopReleasesGetters
  <2>1. CapturerTypeOK'
    BY <1>31 DEF DataTypeOK, CapturerTypeOK, StopReleasesGetters, GettersNotified, Owner
  <2>2. ApplicationTypeOK'
    BY <1>31 DEF DataTypeOK, ApplicationTypeOK, StopReleasesGetters, GettersNotified, Owner
  <2> QED
    BY <1>31, <2>1, <2>2, Untouched DEF DataTypeOK, StopReleasesGetters, GettersNotified, Owner
<1>32. CASE StopReleasesControl
  <2>1. CapturerTypeOK'
    BY <1>32 DEF DataTypeOK, CapturerTypeOK, StopReleasesControl, ControlNotified, Owner
  <2>2. ControlTypeOK'
    BY <1>32 DEF DataTypeOK, ControlTypeOK, StopReleasesControl, ControlNotified, Owner
  <2>3. ApplicationTypeOK'
    BY <1>32 DEF DataTypeOK, ApplicationTypeOK, StopReleasesControl, ControlNotified, Owner
  <2> QED
    BY <1>32, <2>1, <2>2, <2>3, Untouched DEF DataTypeOK, StopReleasesControl, ControlNotified, Owner
<1>33. CASE StopJoinsControl
  <2>1. CapturerTypeOK'
    BY <1>33 DEF DataTypeOK, CapturerTypeOK, StopJoinsControl, Owner
  <2>2. ControlTypeOK'
    BY <1>33 DEF DataTypeOK, ControlTypeOK, StopJoinsControl, Owner
  <2>3. ApplicationTypeOK'
    BY <1>33 DEF DataTypeOK, ApplicationTypeOK, StopJoinsControl, Owner
  <2> QED
    BY <1>33, <2>1, <2>2, <2>3, Untouched DEF DataTypeOK, StopJoinsControl, Owner
<1>34. CASE StopStopsCameras
  <2>1. CamerasTypeOK'
    BY <1>34 DEF DataTypeOK, CamerasTypeOK, StopStopsCameras, Owner
  <2>2. ApplicationTypeOK'
    BY <1>34 DEF DataTypeOK, ApplicationTypeOK, StopStopsCameras, Owner
  <2> QED
    BY <1>34, <2>1, <2>2, Untouched DEF DataTypeOK, StopStopsCameras, Owner
<1>35. CASE StopFinishes
  <2>1. CapturerTypeOK'
    BY <1>35 DEF DataTypeOK, CapturerTypeOK, StopFinishes, Owner, NoPoints
  <2>2. CamerasTypeOK'
    BY <1>35 DEF DataTypeOK, CamerasTypeOK, StopFinishes, Owner, NoPoints
  <2>3. ApplicationTypeOK'
    BY <1>35 DEF DataTypeOK, ApplicationTypeOK, StopFinishes, Owner, NoPoints
  <2> QED
    BY <1>35, <2>1, <2>2, <2>3, Untouched DEF DataTypeOK, StopFinishes, Owner, NoPoints
<1>36. CASE Destroy
  <2>1. CapturerTypeOK'
    BY <1>36 DEF DataTypeOK, CapturerTypeOK, Destroy, Owner, Freed
  <2>2. ApplicationTypeOK'
    BY <1>36 DEF DataTypeOK, ApplicationTypeOK, Destroy, Owner, Freed
  <2>3. CloudsTypeOK'
    BY <1>36 DEF DataTypeOK, CloudsTypeOK, Destroy, Owner, Freed
  <2> QED
    BY <1>36, <2>1, <2>2, <2>3, Untouched DEF DataTypeOK, Destroy, Owner, Freed
<1>37. CASE SpuriousWakeup
  <2>1. ControlTypeOK'
    BY <1>37 DEF DataTypeOK, ControlTypeOK, SpuriousWakeup, Goto
  <2>2. ApplicationTypeOK'
    BY <1>37 DEF DataTypeOK, ApplicationTypeOK, SpuriousWakeup, Goto
  <2> QED
    BY <1>37, <2>1, <2>2, Untouched DEF DataTypeOK, SpuriousWakeup, Goto
<1>38. CASE UNCHANGED vars
  BY <1>38, Untouched DEF vars, DataTypeOK
<1> QED
  BY <1>1, <1>2, <1>3, <1>4, <1>5, <1>6, <1>7, <1>8, <1>9, <1>10, <1>11, <1>12, <1>13, <1>14, <1>15, <1>16, <1>17, <1>18, <1>19, <1>20, <1>21, <1>22, <1>23, <1>24, <1>25, <1>26, <1>27, <1>28, <1>29, <1>30, <1>31, <1>32, <1>33, <1>34, <1>35, <1>36, <1>37, <1>38
  DEF Next, Control, Processing, Consumer, InCall, Stopping

\* Type correctness.
THEOREM TypeCorrect == Spec => []TypeOK
<1>1. TypeOK <=> FlagsTypeOK /\ DataTypeOK
  BY DEF TypeOK, DataTypeOK
<1>2. TypeOK /\ Bounded /\ [Next]_vars => (TypeOK /\ Bounded)'
  BY <1>1, FlagsStep, BoundedStep, DataStep DEF TypeOK, DataTypeOK
<1> QED
  BY <1>2, TypedInit, PTL DEF Spec

-----------------------------------------------------------------------------
(* Who owns which cloud                                                    *)

LEMMA Types == Spec => [](DataTypeOK /\ Bounded)
<1>1. TypeOK => DataTypeOK
  BY DEF TypeOK, DataTypeOK
<1>2. DataTypeOK /\ Bounded /\ [Next]_vars => (DataTypeOK /\ Bounded)'
  BY DataStep, BoundedStep
<1> QED
  BY <1>1, <1>2, TypedInit, PTL DEF Spec

\* CloudOwnership is inductive: it says of newPC, too, that no cloud handed
\* out or published is newer, so that publishing it keeps the order.
LEMMA OwnershipStep ==
    DataTypeOK /\ Bounded /\ CloudOwnership /\ [Next]_vars => CloudOwnership'
<1> SUFFICES ASSUME DataTypeOK, Bounded, CloudOwnership, [Next]_vars
             PROVE  CloudOwnership'
  OBVIOUS
<1> USE BoundsAssumption
        DEF CloudOwnership, Clouds, capturer, control, clouds
<1>1. CASE Loop
  BY <1>1 DEF Loop
<1>2. CASE AwaitRequest
  BY <1>2 DEF AwaitRequest
<1>3. CASE FallAsleep
  BY <1>3 DEF FallAsleep
<1>4. CASE CheckEof
  BY <1>4 DEF CheckEof
<1>5. CASE CaptureAll
  BY <1>5 DEF CaptureAll
<1>6. CASE CaptureFails
  BY <1>6 DEF CaptureFails
<1>7. CASE CaptureHitsEof
  BY <1>7 DEF CaptureHitsEof
<1>8. CASE NewCloud
  <2>0. made \in 0 .. MaxClouds /\ where \in [Clouds -> {"unmade", "source", "caller", "freed"}]
    BY DEF DataTypeOK, CloudsTypeOK
  <2> QED
    BY <1>8, <2>0 DEF NewCloud, Bounded, DataTypeOK, CapturerTypeOK, CloudsTypeOK
<1>9. CASE AbandonNewCloud
  BY <1>9 DEF AbandonNewCloud, Freed, DataTypeOK, CapturerTypeOK, ControlTypeOK, CloudsTypeOK
<1>10. CASE EnqueueFrames
  BY <1>10 DEF EnqueueFrames
<1>11. CASE GoOn
  BY <1>11 DEF GoOn
<1>12. CASE Install
  BY <1>12 DEF Install, Freed, DataTypeOK, CapturerTypeOK, ControlTypeOK, CloudsTypeOK
<1>13. CASE WaitForProcessed
  BY <1>13 DEF WaitForProcessed
<1>14. CASE CamerasReady
  BY <1>14 DEF CamerasReady
<1>15. CASE Merge
  BY <1>15 DEF Merge, GettersNotified
<1>16. ASSUME NEW c \in Cameras, Dequeue(c) PROVE CloudOwnership'
  BY <1>16 DEF Dequeue
<1>17. ASSUME NEW c \in Cameras, Generate(c) PROVE CloudOwnership'
  BY <1>17 DEF Generate
<1>18. ASSUME NEW c \in Cameras, GenerateFails(c) PROVE CloudOwnership'
  BY <1>18 DEF GenerateFails
<1>19. ASSUME NEW c \in Cameras, ProcessingExits(c) PROVE CloudOwnership'
  BY <1>19 DEF ProcessingExits
<1>20. ASSUME NEW t \in Consumers, Call(t) PROVE CloudOwnership'
  BY <1>20 DEF Call, Goto
<1>21. ASSUME NEW t \in Consumers, Request(t) PROVE CloudOwnership'
  BY <1>21 DEF Request, RequestNew, ControlNotified, Goto
<1>22. ASSUME NEW t \in Consumers, Take(t) PROVE CloudOwnership'
  BY <1>22 DEF Take, Goto, DataTypeOK, CapturerTypeOK, ControlTypeOK, CloudsTypeOK
<1>23. ASSUME NEW t \in Consumers, TestFails(t) PROVE CloudOwnership'
  BY <1>23 DEF TestFails, Goto
<1>24. ASSUME NEW t \in Consumers, GetterSleeps(t) PROVE CloudOwnership'
  BY <1>24 DEF GetterSleeps, Goto
<1>25. ASSUME NEW t \in Consumers, AvailableReturns(t) PROVE CloudOwnership'
  BY <1>25 DEF AvailableReturns, Goto
<1>26. CASE Start
  BY <1>26 DEF Start
<1>27. CASE StartAborts
  BY <1>27 DEF StartAborts, Owner
<1>28. CASE Stop
  BY <1>28 DEF Stop, Owner
<1>29. CASE Free
  BY <1>29 DEF Free, Owner
<1>30. CASE StopSetsStopped
  BY <1>30 DEF StopSetsStopped, Owner
<1>31. CASE StopReleasesGetters
  BY <1>31 DEF StopReleasesGetters, GettersNotified, Owner
<1>32. CASE StopReleasesControl
  BY <1>32 DEF StopReleasesControl, ControlNotified, Owner
<1>33. CASE StopJoinsControl
  BY <1>33 DEF StopJoinsControl, Owner
<1>34. CASE StopStopsCameras
  BY <1>34 DEF StopStopsCameras, Owner
<1>35. CASE StopFinishes
  BY <1>35 DEF StopFinishes, Owner, NoPoints
<1>36. CASE Destroy
  BY <1>36 DEF Destroy, Owner, Freed, DataTypeOK, CapturerTypeOK, ControlTypeOK, CloudsTypeOK
<1>37. CASE SpuriousWakeup
  BY <1>37 DEF SpuriousWakeup, Goto
<1>38. CASE UNCHANGED vars
  BY <1>38 DEF vars
<1> QED
  BY <1>1, <1>2, <1>3, <1>4, <1>5, <1>6, <1>7, <1>8, <1>9, <1>10, <1>11, <1>12, <1>13, <1>14, <1>15, <1>16, <1>17, <1>18, <1>19, <1>20, <1>21, <1>22, <1>23, <1>24, <1>25, <1>26, <1>27, <1>28, <1>29, <1>30, <1>31, <1>32, <1>33, <1>34, <1>35, <1>36, <1>37, <1>38
  DEF Next, Control, Processing, Consumer, InCall, Stopping

\* At any time, what the capturer points to is its own and newer than all it
\* has handed out.
THEOREM Ownership == Spec => []CloudOwnership
<1>1. Init => CloudOwnership
  BY DEF Init, CloudOwnership, Clouds
<1> QED
  BY <1>1, OwnershipStep, Types, PTL DEF Spec

-----------------------------------------------------------------------------
(* The capturer is a source of clouds                                      *)

LEMMA SourceStep ==
    DataTypeOK /\ Bounded /\ CloudOwnership /\ [Next]_vars
        => [Source!Next]_<<where, last>>
<1> SUFFICES ASSUME DataTypeOK, Bounded, CloudOwnership, [Next]_vars,
                    ~UNCHANGED <<where, last>>
             PROVE  Source!Next
  OBVIOUS
<1> USE BoundsAssumption DEF Source!Next, Source!Clouds, Clouds, clouds
<1>1. CASE NewCloud
  <2>1. made + 1 \in Clouds
    BY <1>1 DEF NewCloud, Bounded, DataTypeOK, CloudsTypeOK
  <2>2. Source!Make(made + 1)
    BY <1>1, <2>1 DEF NewCloud, Source!Make, CloudOwnership, DataTypeOK, CloudsTypeOK
  <2> QED
    BY <2>1, <2>2
<1>2. CASE AbandonNewCloud
  <2>1. newPC \in Clouds
    BY <1>2 DEF AbandonNewCloud, Freed, DataTypeOK, ControlTypeOK, CloudsTypeOK
  <2>2. Source!Discard(newPC)
    BY <1>2, <2>1 DEF AbandonNewCloud, Freed, Source!Discard, CloudOwnership
  <2> QED
    BY <2>1, <2>2
<1>3. CASE Install
  <2>1. mergedPC \in Clouds
    BY <1>3 DEF Install, Freed, DataTypeOK, CapturerTypeOK
  <2>2. Source!Discard(mergedPC)
    BY <1>3, <2>1 DEF Install, Freed, Source!Discard, CloudOwnership
  <2> QED
    BY <2>1, <2>2
<1>4. ASSUME NEW t \in Consumers, Take(t) PROVE Source!Next
  <2>1. mergedPC \in Clouds
    BY <1>4 DEF Take, DataTypeOK, CapturerTypeOK
  <2>2. Source!Deliver(mergedPC)
    BY <1>4, <2>1 DEF Take, Source!Deliver, CloudOwnership
  <2> QED
    BY <2>1, <2>2
<1>5. CASE Destroy
  <2>1. mergedPC \in Clouds
    BY <1>5 DEF Destroy, Freed, DataTypeOK, CapturerTypeOK
  <2>2. Source!Discard(mergedPC)
    BY <1>5, <2>1 DEF Destroy, Freed, Source!Discard, CloudOwnership
  <2> QED
    BY <2>1, <2>2
<1>6. CASE UNCHANGED vars
  BY <1>6 DEF vars
<1>7. CASE \/ Loop \/ AwaitRequest \/ FallAsleep \/ CheckEof \/ CaptureAll
           \/ CaptureFails \/ CaptureHitsEof \/ EnqueueFrames \/ GoOn
           \/ WaitForProcessed \/ CamerasReady \/ Merge
  BY <1>7 DEF Loop, AwaitRequest, FallAsleep, CheckEof, CaptureAll, CaptureFails,
     CaptureHitsEof, EnqueueFrames, GoOn, WaitForProcessed, CamerasReady, Merge
<1>8. ASSUME NEW c \in Cameras, Processing(c) PROVE FALSE
  BY <1>8 DEF Processing, Dequeue, Generate, GenerateFails, ProcessingExits
<1>9. ASSUME NEW t \in Consumers,
             \/ Call(t) \/ Request(t) \/ TestFails(t) \/ GetterSleeps(t)
             \/ AvailableReturns(t)
      PROVE FALSE
  BY <1>9 DEF Call, Request, TestFails, GetterSleeps, AvailableReturns
<1>10. CASE \/ Start \/ StartAborts \/ Stop \/ Free \/ StopSetsStopped
            \/ StopReleasesGetters \/ StopReleasesControl \/ StopJoinsControl
            \/ StopStopsCameras \/ StopFinishes \/ SpuriousWakeup
  BY <1>10 DEF Start, StartAborts, Stop, Free, StopSetsStopped, StopReleasesGetters,
     StopReleasesControl, StopJoinsControl, StopStopsCameras, StopFinishes,
     SpuriousWakeup
<1> QED
  BY <1>1, <1>2, <1>3, <1>4, <1>5, <1>6, <1>7, <1>8, <1>9, <1>10
  DEF Next, Control, Consumer, InCall, Stopping

\* Every behaviour of the threads of the capturer is one of a source that
\* hands out each cloud at most once, in order, and never frees it after.
THEOREM Implements == Spec => ImplementsSource
<1>1. Init => Source!Init
  BY DEF Init, Source!Init, Source!Clouds, Clouds
<1> QED
  BY <1>1, SourceStep, Types, Ownership, PTL DEF ImplementsSource, Source!Spec, Spec
-----------------------------------------------------------------------------
(* The threads and the flags they share.  None of the properties below is   *)
(* inductive by itself; Inv is, and says in six parts why they hold.        *)

\* mergedPC_mutex is held exactly between the steps that take and release it.
MutexHeld ==
    /\ lock = "control" <=> ctl \in {"fallAsleep", "waitCamera", "merge"}
    /\ \A t \in Consumers :
        lock = t <=> cons[t] \in {"getFallAsleep", "availFallAsleep"}

\* What stop() has done already when it is where it is.  While the capturer is
\* not started nothing is left in mergedPC_is_fresh for the next start().
Phases ==
    /\ playing <=> ctl # "off"
    /\ main \in {"stopCameras", "joinCameras", "destroy", "gone"} => ~playing
    /\ ~stopped => main \in {"idle", "stopping", "destroy", "gone"}
    /\ ~playing /\ main \in {"idle", "stopping", "destroy", "gone"} => ~fresh

\* The control thread makes a cloud only for a request, and there is none
\* while a cloud waits to be read.
OneRequest ==
    ~stopped =>
        /\ ~(fresh /\ wantNew)
        /\ ctl \in {"checkEof", "capture", "captured", "saveMetadata", "enqueued",
                    "lockMerged", "waitCamera", "merge"} => wantNew

Pointers ==
    /\ newPC # 0 <=> ctl \in {"saveMetadata", "enqueued", "lockMerged"}
    /\ ctl \in {"waitCamera", "merge"} => mergedPC # 0

\* Camera c has no frame to process and no flag left over from one.
NoFrame(c) == queue[c] = 0 /\ proc[c] # "generate" /\ c \notin done

\* The frame of camera c for cloud i is in one place only: the queue, the
\* processing thread or current_pcl_pointcloud; or it is lost.
InFlight(c, i) ==
    \/ NoFrame(c)
    \/ queue[c] = i /\ proc[c] # "generate" /\ c \notin done
    \/ queue[c] = 0 /\ proc[c] = "generate" /\ work[c] = i /\ c \notin done
    \/ queue[c] = 0 /\ proc[c] # "generate" /\ c \in done /\ current[c] = i

Merged(c) == NoFrame(c) /\ current[c] = mergedPC

\* Between two clouds no frame is under way; in between there is at most one
\* per camera, that of the cloud being made, and the control thread has
\* collected those of the cameras it has waited for.
OneFrameEach ==
    /\ \/ ctl \in {"loop", "awaitRequest", "fallAsleep", "asleep", "checkEof",
                   "capture", "captured", "saveMetadata"}
       \/ ~playing /\ main = "idle"
       => \A c \in Cameras : NoFrame(c)
    /\ ctl \in {"enqueued", "lockMerged"} => \A c \in Cameras : InFlight(c, newPC)
    /\ ctl = "waitCamera" =>
        \A c \in Cameras : IF c < cam THEN Merged(c) ELSE InFlight(c, mergedPC)
    /\ ctl = "merge" => \A c \in Cameras : Merged(c)

\* Until the second start() a published cloud that is not fresh is the one
\* being filled, or the control thread makes no more.
NoneDropped ==
    /\ starts = 0 => ctl = "off" /\ mergedPC = 0
    /\ starts <= 1 /\ mergedPC # 0 /\ ~fresh =>
        ctl \in {"waitCamera", "merge", "exited", "off"}

LEMMA MutexStep ==
    ASSUME DataTypeOK, MutexHeld, Phases, [Next]_vars PROVE MutexHeld'
<1>0. /\ \A t \in Consumers : t # "nobody" /\ t # "control"
      /\ cons \in [Consumers -> {"idle", "getRequest", "get", "getFallAsleep",
                               "getAsleep", "getAgain", "availRequest", "avail",
                               "availFallAsleep", "availAsleep"}]
  BY ConsumersAssumption DEF DataTypeOK, ApplicationTypeOK
<1> USE <1>0 DEF MutexHeld, Phases, capturer, control, cameras, application, clouds
<1>1. CASE Control
  BY <1>1 DEF Control, Loop, AwaitRequest, FallAsleep, CheckEof, CaptureAll,
     CaptureFails, CaptureHitsEof, NewCloud, AbandonNewCloud, EnqueueFrames, GoOn,
     Install, WaitForProcessed, CamerasReady, Merge, GettersNotified
<1>2. ASSUME NEW c \in Cameras, Processing(c) PROVE MutexHeld'
  BY <1>2 DEF Processing, Dequeue, Generate, GenerateFails, ProcessingExits
<1>3. ASSUME NEW t \in Consumers, Consumer(t) PROVE MutexHeld'
  <2>1. CASE Call(t)
    BY <1>3, <2>1 DEF Call, Goto
  <2>2. CASE Request(t)
    BY <1>3, <2>2 DEF Request, RequestNew, ControlNotified, Goto
  <2>3. CASE Take(t)
    BY <1>3, <2>3 DEF Take, Goto
  <2>4. CASE TestFails(t)
    BY <1>3, <2>4 DEF TestFails, Goto
  <2>5. CASE GetterSleeps(t)
    BY <1>3, <2>5 DEF GetterSleeps, Goto
  <2>6. CASE AvailableReturns(t)
    BY <1>3, <2>6 DEF AvailableReturns, Goto
  <2> QED
    BY <1>3, <2>1, <2>2, <2>3, <2>4, <2>5, <2>6 DEF Consumer, InCall
<1>4. CASE Start \/ StartAborts \/ Stop \/ Free
  BY <1>4 DEF Start, StartAborts, Stop, Free
<1>5. CASE Stopping
  BY <1>5 DEF Stopping, StopSetsStopped, StopReleasesGetters, StopReleasesControl,
     StopJoinsControl, StopStopsCameras, StopFinishes, Destroy, GettersNotified,
     ControlNotified
<1>6. CASE SpuriousWakeup
  BY <1>6 DEF SpuriousWakeup, Goto
<1>7. CASE UNCHANGED vars
  BY <1>7 DEF vars
<1> QED
  BY <1>1, <1>2, <1>3, <1>4, <1>5, <1>6, <1>7 DEF Next

LEMMA PhasesStep ==
    ASSUME Phases, [Next]_vars PROVE Phases'
<1> USE DEF Phases, capturer, control, cameras, application, clouds
<1>1. CASE Control
  BY <1>1 DEF Control, Loop, AwaitRequest, FallAsleep, CheckEof, CaptureAll,
     CaptureFails, CaptureHitsEof, NewCloud, AbandonNewCloud, EnqueueFrames, GoOn,
     Install, WaitForProcessed, CamerasReady, Merge, GettersNotified
<1>2. ASSUME NEW c \in Cameras, Processing(c) PROVE Phases'
  BY <1>2 DEF Processing, Dequeue, Generate, GenerateFails, ProcessingExits
<1>3. ASSUME NEW t \in Consumers, Consumer(t) PROVE Phases'
  BY <1>3 DEF Consumer, InCall, Call, Request, RequestNew, ControlNotified, Take,
     TestFails, GetterSleeps, AvailableReturns
<1>4. CASE Start \/ StartAborts \/ Stop \/ Free
  BY <1>4 DEF Start, StartAborts, Stop, Free, Owner
<1>5. CASE Stopping
  BY <1>5 DEF Stopping, StopSetsStopped, StopReleasesGetters, StopReleasesControl,
     StopJoinsControl, StopStopsCameras, StopFinishes, Destroy, ControlNotified, Owner
<1>6. CASE SpuriousWakeup
  BY <1>6 DEF SpuriousWakeup
<1>7. CASE UNCHANGED vars
  BY <1>7 DEF vars
<1> QED
  BY <1>1, <1>2, <1>3, <1>4, <1>5, <1>6, <1>7 DEF Next

LEMMA RequestsStep ==
    ASSUME OneRequest, Phases, [Next]_vars PROVE OneRequest'
<1> USE DEF OneRequest, Phases, capturer, control, cameras, application, clouds
<1>1. CASE Control
  BY <1>1 DEF Control, Loop, AwaitRequest, FallAsleep, CheckEof, CaptureAll,
     CaptureFails, CaptureHitsEof, NewCloud, AbandonNewCloud, EnqueueFrames, GoOn,
     Install, WaitForProcessed, CamerasReady, Merge
<1>2. ASSUME NEW c \in Cameras, Processing(c) PROVE OneRequest'
  BY <1>2 DEF Processing, Dequeue, Generate, GenerateFails, ProcessingExits
<1>3. ASSUME NEW t \in Consumers, Consumer(t) PROVE OneRequest'
  BY <1>3 DEF Consumer, InCall, Call, Request, RequestNew, ControlNotified, Take,
     TestFails, GetterSleeps, AvailableReturns
<1>4. CASE Start \/ StartAborts \/ Stop \/ Free
  BY <1>4 DEF Start, StartAborts, Stop, Free, Owner
<1>5. CASE Stopping
  BY <1>5 DEF Stopping, StopSetsStopped, StopReleasesGetters, StopReleasesControl,
     StopJoinsControl, StopStopsCameras, StopFinishes, Destroy, ControlNotified, Owner
<1>6. CASE SpuriousWakeup
  BY <1>6 DEF SpuriousWakeup
<1>7. CASE UNCHANGED vars
  BY <1>7 DEF vars
<1> QED
  BY <1>1, <1>2, <1>3, <1>4, <1>5, <1>6, <1>7 DEF Next

LEMMA PointersStep ==
    ASSUME Pointers, MutexHeld, Phases, DataTypeOK, [Next]_vars PROVE Pointers'
<1> USE DEF Pointers, MutexHeld, Phases, capturer, control, cameras, application, clouds
<1>1. CASE Control
  BY <1>1 DEF Control, Loop, AwaitRequest, FallAsleep, CheckEof, CaptureAll,
     CaptureFails, CaptureHitsEof, NewCloud, AbandonNewCloud, EnqueueFrames, GoOn,
     Install, WaitForProcessed, CamerasReady, Merge, DataTypeOK, CloudsTypeOK
<1>2. ASSUME NEW c \in Cameras, Processing(c) PROVE Pointers'
  BY <1>2 DEF Processing, Dequeue, Generate, GenerateFails, ProcessingExits
<1>3. ASSUME NEW t \in Consumers, Consumer(t) PROVE Pointers'
  BY <1>3 DEF Consumer, InCall, Call, Request, RequestNew, ControlNotified, Take,
     TestFails, GetterSleeps, AvailableReturns
<1>4. CASE Start \/ StartAborts \/ Stop \/ Free
  BY <1>4 DEF Start, StartAborts, Stop, Free, Owner
<1>5. CASE Stopping
  BY <1>5 DEF Stopping, StopSetsStopped, StopReleasesGetters, StopReleasesControl,
     StopJoinsControl, StopStopsCameras, StopFinishes, Destroy, ControlNotified, Owner
<1>6. CASE SpuriousWakeup
  BY <1>6 DEF SpuriousWakeup
<1>7. CASE UNCHANGED vars
  BY <1>7 DEF vars
<1> QED
  BY <1>1, <1>2, <1>3, <1>4, <1>5, <1>6, <1>7 DEF Next

\* A processing thread only moves a frame on from place to place.
LEMMA FramesStep ==
    ASSUME DataTypeOK, OneFrameEach, MutexHeld, Phases, Pointers, [Next]_vars
    PROVE  OneFrameEach'
<1> USE DEF OneFrameEach, NoFrame, InFlight, Merged, capturer, control, cameras,
            application, clouds
<1>1. CASE Loop \/ AwaitRequest \/ FallAsleep \/ CheckEof \/ CaptureAll
           \/ CaptureFails \/ CaptureHitsEof \/ NewCloud \/ AbandonNewCloud
  BY <1>1 DEF Phases, Loop, AwaitRequest, FallAsleep, CheckEof, CaptureAll,
     CaptureFails, CaptureHitsEof, NewCloud, AbandonNewCloud
<1>2. CASE EnqueueFrames
  BY <1>2 DEF EnqueueFrames, Phases
<1>3. CASE GoOn \/ Install
  BY <1>3 DEF GoOn, Install, Phases, Cameras
<1>4. CASE WaitForProcessed
  BY <1>4 DEF WaitForProcessed, Phases, Cameras, Pointers
<1>5. CASE CamerasReady
  BY <1>5, NumCamerasAssumption DEF CamerasReady, Phases, Cameras, DataTypeOK,
     ControlTypeOK
<1>6. CASE Merge
  BY <1>6 DEF Merge, Phases
<1>7. ASSUME NEW c \in Cameras, Processing(c) PROVE OneFrameEach'
  <2>0. /\ queue \in [Cameras -> 0 .. MaxClouds]
        /\ work \in [Cameras -> 0 .. MaxClouds]
        /\ current \in [Cameras -> 0 .. MaxClouds]
        /\ proc \in [Cameras -> {"off", "dequeue", "generate", "exited"}]
    BY DEF DataTypeOK, CamerasTypeOK
  <2>1. \A i \in 0 .. MaxClouds : \A d \in Cameras :
          InFlight(d, i) => InFlight(d, i)'
    BY <1>7, <2>0 DEF Processing, Dequeue, Generate, GenerateFails, ProcessingExits
  <2>2. \A d \in Cameras : NoFrame(d) => NoFrame(d)' /\ current'[d] = current[d]
    BY <1>7, <2>0 DEF Processing, Dequeue, Generate, GenerateFails, ProcessingExits
  <2>3. UNCHANGED <<ctl, cam, newPC, mergedPC, playing, main>>
    BY <1>7 DEF Processing, Dequeue, Generate, GenerateFails, ProcessingExits
  <2>4. newPC \in 0 .. MaxClouds /\ mergedPC \in 0 .. MaxClouds
    BY DEF DataTypeOK, ControlTypeOK, CapturerTypeOK
  <2> QED
    BY <2>1, <2>2, <2>3, <2>4
<1>8. ASSUME NEW t \in Consumers, Consumer(t) PROVE OneFrameEach'
  BY <1>8 DEF Consumer, InCall, Call, Request, RequestNew, ControlNotified, Take,
     TestFails, GetterSleeps, AvailableReturns, MutexHeld
<1>9. CASE Start \/ StartAborts \/ Stop \/ Free
  BY <1>9 DEF Start, StartAborts, Stop, Free, Owner, Phases
<1>10. CASE StopFinishes
  BY <1>10 DEF StopFinishes, Owner, Phases, NoPoints
<1>11. CASE \/ StopSetsStopped \/ StopReleasesGetters \/ StopReleasesControl
            \/ StopJoinsControl \/ StopStopsCameras \/ Destroy
  BY <1>11 DEF StopSetsStopped, StopReleasesGetters, StopReleasesControl,
     StopJoinsControl, StopStopsCameras, Destroy, ControlNotified, Owner, Phases
<1>12. CASE SpuriousWakeup
  BY <1>12 DEF SpuriousWakeup
<1>13. CASE UNCHANGED vars
  BY <1>13 DEF vars
<1> QED
  BY <1>1, <1>2, <1>3, <1>4, <1>5, <1>6, <1>7, <1>8, <1>9, <1>10, <1>11, <1>12, <1>13
  DEF Next, Control, Stopping

\* Merge notifies whoever sleeps, and nobody is falling asleep while the
\* control thread holds the mutex.
LEMMA WakeupStep ==
    ASSUME DataTypeOK, MutexHeld, Phases, OneRequest, NoWakeupLost, [Next]_vars
    PROVE  NoWakeupLost'
<1>0. cons \in [Consumers -> {"idle", "getRequest", "get", "getFallAsleep",
                               "getAsleep", "getAgain", "availRequest", "avail",
                               "availFallAsleep", "availAsleep"}]
  BY DEF DataTypeOK, ApplicationTypeOK
<1> USE <1>0 DEF NoWakeupLost, Phases, capturer, control, cameras, application, clouds
<1>1. CASE Control /\ ~Merge
  BY <1>1 DEF Control, Loop, AwaitRequest, FallAsleep, CheckEof, CaptureAll,
     CaptureFails, CaptureHitsEof, NewCloud, AbandonNewCloud, EnqueueFrames, GoOn,
     Install, WaitForProcessed, CamerasReady
<1>2. CASE Merge
  <2>1. \A t \in Consumers : cons[t] # "getFallAsleep"
    BY <1>2, ConsumersAssumption DEF Merge, MutexHeld
  <2>2. \A t \in Consumers : cons'[t] \notin {"getFallAsleep", "getAsleep"}
    BY <1>2, <2>1 DEF Merge, GettersNotified
  <2> QED
    BY <1>2, <2>2 DEF Merge
<1>3. ASSUME NEW c \in Cameras, Processing(c) PROVE NoWakeupLost'
  BY <1>3 DEF Processing, Dequeue, Generate, GenerateFails, ProcessingExits
<1>4. ASSUME NEW t \in Consumers, Consumer(t) PROVE NoWakeupLost'
  <2>1. CASE Call(t)
    BY <1>4, <2>1 DEF Call, Goto
  <2>2. CASE Request(t)
    BY <1>4, <2>2 DEF Request, RequestNew, ControlNotified, Goto, MutexHeld
  <2>3. CASE Take(t)
    BY <1>4, <2>3 DEF Take, Goto
  <2>4. CASE TestFails(t)
    BY <1>4, <2>4 DEF TestFails, Goto
  <2>5. CASE GetterSleeps(t)
    BY <1>4, <2>5 DEF GetterSleeps, Goto
  <2>6. CASE AvailableReturns(t)
    BY <1>4, <2>6 DEF AvailableReturns, Goto
  <2> QED
    BY <1>4, <2>1, <2>2, <2>3, <2>4, <2>5, <2>6 DEF Consumer, InCall
<1>5. CASE Start \/ StartAborts \/ Stop \/ Free
  BY <1>5 DEF Start, StartAborts, Stop, Free, Owner
<1>6. CASE Stopping
  BY <1>6 DEF Stopping, StopSetsStopped, StopReleasesGetters, StopReleasesControl,
     StopJoinsControl, StopStopsCameras, StopFinishes, Destroy, Owner
<1>7. CASE SpuriousWakeup
  BY <1>7 DEF SpuriousWakeup, Goto
<1>8. CASE UNCHANGED vars
  BY <1>8 DEF vars
<1> QED
  BY <1>1, <1>2, <1>3, <1>4, <1>5, <1>6, <1>7, <1>8 DEF Next, Control

LEMMA FreshStep ==
    ASSUME DataTypeOK, MutexHeld, Phases, OneRequest, Pointers, OneFrameEach,
           FreshIsComplete, [Next]_vars
    PROVE  FreshIsComplete'
<1> USE DEF FreshIsComplete, Complete, capturer, control, cameras, application, clouds
<1>1. CASE Control /\ ~Merge
  <2>1. CASE CheckEof
    BY <2>1 DEF CheckEof
  <2>2. CASE Install
    <3>1. ~stopped => ~fresh
      BY <2>2 DEF Install, OneRequest
    <3> QED
      BY <2>2, <3>1 DEF Install
  <2>3. CASE Loop \/ AwaitRequest \/ FallAsleep \/ CaptureAll \/ CaptureFails
             \/ CaptureHitsEof \/ NewCloud \/ AbandonNewCloud \/ EnqueueFrames
             \/ GoOn \/ WaitForProcessed \/ CamerasReady
    <3>1. UNCHANGED <<fresh, stopped, mergedPC, content>>
      BY <2>3 DEF Loop, AwaitRequest, FallAsleep, CaptureAll, CaptureFails,
         CaptureHitsEof, NewCloud, AbandonNewCloud, EnqueueFrames, GoOn,
         WaitForProcessed, CamerasReady
    <3> QED
      BY <3>1
  <2> QED
    BY <1>1, <2>1, <2>2, <2>3 DEF Control
<1>2. CASE Merge
  <2>1. mergedPC \in Clouds
    BY <1>2 DEF Merge, Pointers, DataTypeOK, CapturerTypeOK, Clouds
  <2>2. current = [c \in Cameras |-> mergedPC]
    <3>1. \A c \in Cameras : current[c] = mergedPC
      BY <1>2 DEF Merge, OneFrameEach, Merged
    <3>2. current \in [Cameras -> 0 .. MaxClouds]
      BY DEF DataTypeOK, CamerasTypeOK
    <3> QED
      BY <3>1, <3>2
  <2>3. content'[mergedPC'] = [c \in Cameras |-> mergedPC'] /\ mergedPC' # 0
    BY <1>2, <2>1, <2>2 DEF Merge, DataTypeOK, CloudsTypeOK, Clouds
  <2> QED
    BY <2>3
<1>3. ASSUME NEW c \in Cameras, Processing(c) PROVE FreshIsComplete'
  BY <1>3 DEF Processing, Dequeue, Generate, GenerateFails, ProcessingExits
<1>4. ASSUME NEW t \in Consumers, Consumer(t) PROVE FreshIsComplete'
  BY <1>4 DEF Consumer, InCall, Call, Request, Take, TestFails, GetterSleeps,
     AvailableReturns
<1>5. CASE Start \/ StartAborts \/ Stop \/ Free
  BY <1>5 DEF Start, StartAborts, Stop, Free, Phases
<1>6. CASE Stopping
  BY <1>6 DEF Stopping, StopSetsStopped, StopReleasesGetters, StopReleasesControl,
     StopJoinsControl, StopStopsCameras, StopFinishes, Destroy, Phases
<1>7. CASE SpuriousWakeup
  BY <1>7 DEF SpuriousWakeup
<1>8. CASE UNCHANGED vars
  BY <1>8 DEF vars
<1> QED
  BY <1>1, <1>2, <1>3, <1>4, <1>5, <1>6, <1>7, <1>8 DEF Next, Control

\* Install is the one step that could lose a cloud.
LEMMA LeakStep ==
    ASSUME DataTypeOK, Bounded, MutexHeld, Phases, Pointers, CloudOwnership,
           NoneDropped, NoLeakBeforeRestart, [Next]_vars
    PROVE  (NoneDropped /\ NoLeakBeforeRestart)'
<1>0. /\ where \in [Clouds -> {"unmade", "source", "caller", "freed"}]
      /\ mergedPC \in 0 .. MaxClouds /\ newPC \in 0 .. MaxClouds
      /\ starts \in Nat /\ made \in 0 .. MaxClouds /\ MaxClouds \in Nat
  BY BoundsAssumption DEF DataTypeOK, CloudsTypeOK, CapturerTypeOK, ControlTypeOK, ApplicationTypeOK
<1> USE <1>0 DEF NoneDropped, NoLeakBeforeRestart, Clouds, capturer, control, cameras,
            application, clouds
<1>1. CASE Loop \/ AwaitRequest \/ FallAsleep \/ CheckEof \/ CaptureAll
           \/ CaptureFails \/ CaptureHitsEof \/ EnqueueFrames \/ GoOn
           \/ WaitForProcessed \/ CamerasReady \/ Merge
  BY <1>1 DEF Loop, AwaitRequest, FallAsleep, CheckEof, CaptureAll, CaptureFails,
     CaptureHitsEof, EnqueueFrames, GoOn, WaitForProcessed, CamerasReady, Merge
<1>2. CASE NewCloud
  BY <1>2 DEF NewCloud, Pointers, Bounded
<1>3. CASE AbandonNewCloud
  BY <1>3 DEF AbandonNewCloud, Freed, Pointers
<1>4. CASE Install
  BY <1>4 DEF Install, Freed, Pointers
<1>5. ASSUME NEW c \in Cameras, Processing(c) PROVE (NoneDropped /\ NoLeakBeforeRestart)'
  BY <1>5 DEF Processing, Dequeue, Generate, GenerateFails, ProcessingExits
<1>6. ASSUME NEW t \in Consumers, Take(t) PROVE (NoneDropped /\ NoLeakBeforeRestart)'
  BY <1>6 DEF Take
<1>7. ASSUME NEW t \in Consumers,
             \/ Call(t) \/ Request(t) \/ TestFails(t) \/ GetterSleeps(t)
             \/ AvailableReturns(t)
      PROVE (NoneDropped /\ NoLeakBeforeRestart)'
  BY <1>7 DEF Call, Request, RequestNew, ControlNotified, TestFails, GetterSleeps,
     AvailableReturns
<1>8. CASE Start \/ StartAborts \/ Stop \/ Free
  BY <1>8 DEF Start, StartAborts, Stop, Free, Phases
<1>9. CASE StopSetsStopped \/ StopReleasesGetters \/ StopReleasesControl
           \/ StopJoinsControl \/ StopStopsCameras \/ StopFinishes
  BY <1>9 DEF StopSetsStopped, StopReleasesGetters, StopReleasesControl,
     StopJoinsControl, StopStopsCameras, StopFinishes, ControlNotified, Phases
<1>10. CASE Destroy
  BY <1>10 DEF Destroy, Freed
<1>11. CASE SpuriousWakeup
  BY <1>11 DEF SpuriousWakeup
<1>12. CASE UNCHANGED vars
  BY <1>12 DEF vars
<1> QED
  BY <1>1, <1>2, <1>3, <1>4, <1>5, <1>6, <1>7, <1>8, <1>9, <1>10, <1>11, <1>12
  DEF Next, Control, Consumer, InCall, Stopping

\* All of it together.
Inv ==
    /\ MutexHeld /\ Phases /\ OneRequest /\ Pointers /\ OneFrameEach
    /\ NoneDropped /\ NoWakeupLost /\ FreshIsComplete /\ NoLeakBeforeRestart

LEMMA InvInit == Init => Inv
<1> SUFFICES ASSUME Init PROVE Inv
  OBVIOUS
<1> USE DEF Init, NoPoints
<1>1. MutexHeld
  BY ConsumersAssumption DEF MutexHeld
<1>2. Phases /\ OneRequest /\ Pointers
  BY DEF Phases, OneRequest, Pointers
<1>3. OneFrameEach
  BY DEF OneFrameEach, NoFrame
<1>4. NoneDropped /\ NoLeakBeforeRestart
  BY DEF NoneDropped, NoLeakBeforeRestart
<1>5. NoWakeupLost /\ FreshIsComplete
  BY DEF NoWakeupLost, FreshIsComplete
<1> QED
  BY <1>1, <1>2, <1>3, <1>4, <1>5 DEF Inv

LEMMA Invariant == Spec => []Inv
<1>1. DataTypeOK /\ Bounded /\ CloudOwnership /\ Inv /\ [Next]_vars => Inv'
  BY MutexStep, PhasesStep, RequestsStep, PointersStep, FramesStep, WakeupStep,
     FreshStep, LeakStep DEF Inv
<1> QED
  BY <1>1, InvInit, Types, Ownership, PTL DEF Spec

\* What get_pointcloud() can take while the capturer runs is a cloud with the
\* points of its own capture from every camera, for any number of them.
THEOREM FreshClouds == Spec => []FreshIsComplete
<1>1. Inv => FreshIsComplete
  BY DEF Inv
<1> QED
  BY <1>1, Invariant, PTL

\* While the capturer runs, no getter sleeps through a fresh cloud and the
\* control thread does not sleep through a request.
THEOREM Wakeups == Spec => []NoWakeupLost
<1>1. Inv => NoWakeupLost
  BY DEF Inv
<1> QED
  BY <1>1, Invariant, PTL

\* Until the capturer is started a second time it points to every cloud it owns.
THEOREM NoLeak == Spec => []NoLeakBeforeRestart
<1>1. Inv => NoLeakBeforeRestart
  BY DEF Inv
<1> QED
  BY <1>1, Invariant, PTL

\* Only Install and Destroy could overwrite it, and OneRequest and Phases say
\* that there is nothing unread then.
LEMMA UnreadStep ==
    ASSUME DataTypeOK, Bounded, CloudOwnership, Inv, [Next]_vars
    PROVE  UnreadIsKept
<1> SUFFICES ASSUME fresh, ~stopped, mergedPC # 0
             PROVE  \/ mergedPC' = mergedPC /\ where'[mergedPC] = "source"
                    \/ where'[mergedPC] = "caller" /\ last' = mergedPC
  BY DEF UnreadIsKept
<1>0. /\ where \in [Clouds -> {"unmade", "source", "caller", "freed"}]
      /\ mergedPC \in Clouds /\ mergedPC <= made /\ where[mergedPC] = "source"
      /\ made \in 0 .. MaxClouds
      /\ MaxClouds \in Nat
  BY BoundsAssumption DEF DataTypeOK, CloudsTypeOK, CapturerTypeOK, Clouds, CloudOwnership
<1> USE <1>0 DEF capturer, control, cameras, application, clouds
<1>1. CASE NewCloud
  BY <1>1 DEF NewCloud, Clouds
<1>2. CASE AbandonNewCloud \/ Install
  BY <1>2 DEF AbandonNewCloud, Install, Inv, OneRequest
<1>3. ASSUME NEW t \in Consumers, Take(t)
      PROVE  where'[mergedPC] = "caller" /\ last' = mergedPC
  BY <1>3 DEF Take
<1>4. CASE Destroy
  BY <1>4 DEF Destroy, Inv, Phases
<1>5. CASE \/ Loop \/ AwaitRequest \/ FallAsleep \/ CheckEof \/ CaptureAll
           \/ CaptureFails \/ CaptureHitsEof \/ EnqueueFrames \/ GoOn
           \/ WaitForProcessed \/ CamerasReady \/ Merge
  BY <1>5 DEF Loop, AwaitRequest, FallAsleep, CheckEof, CaptureAll, CaptureFails,
     CaptureHitsEof, EnqueueFrames, GoOn, WaitForProcessed, CamerasReady, Merge
<1>6. ASSUME NEW c \in Cameras, Processing(c) PROVE UNCHANGED <<mergedPC, where>>
  BY <1>6 DEF Processing, Dequeue, Generate, GenerateFails, ProcessingExits
<1>7. ASSUME NEW t \in Consumers,
             \/ Call(t) \/ Request(t) \/ TestFails(t) \/ GetterSleeps(t)
             \/ AvailableReturns(t)
      PROVE UNCHANGED <<mergedPC, where>>
  BY <1>7 DEF Call, Request, TestFails, GetterSleeps, AvailableReturns
<1>8. CASE \/ Start \/ StartAborts \/ Stop \/ Free \/ StopSetsStopped
           \/ StopReleasesGetters \/ StopReleasesControl \/ StopJoinsControl
           \/ StopStopsCameras \/ StopFinishes \/ SpuriousWakeup
  BY <1>8 DEF Start, StartAborts, Stop, Free, StopSetsStopped, StopReleasesGetters,
     StopReleasesControl, StopJoinsControl, StopStopsCameras, StopFinishes,
     SpuriousWakeup
<1>9. CASE UNCHANGED vars
  BY <1>9 DEF vars
<1> QED
  BY <1>1, <1>2, <1>3, <1>4, <1>5, <1>6, <1>7, <1>8, <1>9
  DEF Next, Control, Consumer, InCall, Stopping

\* A cloud that waits to be read stays until the application takes it, as long
\* as the capturer runs.
THEOREM UnreadKept == Spec => NoUnreadOverwritten
BY UnreadStep, Invariant, Types, Ownership, PTL DEF Spec, NoUnreadOverwritten

LEMMA EofStep == ASSUME FlagsTypeOK, Inv, [Next]_vars PROVE EofWhenDrained
<1> SUFFICES ASSUME eof' # eof PROVE ~fresh \/ stopped
  BY DEF EofWhenDrained
<1>1. CheckEof
  BY DEF Next, vars, capturer, Control, Loop, AwaitRequest, FallAsleep, CaptureAll, CaptureFails,
     CaptureHitsEof, NewCloud, AbandonNewCloud, EnqueueFrames, GoOn, Install,
     WaitForProcessed, CamerasReady, Merge, Processing, Dequeue, Generate,
     GenerateFails, ProcessingExits, Consumer, InCall, Call, Request, Take, TestFails,
     GetterSleeps, AvailableReturns, Start, StartAborts, Stop, Free, Stopping,
     StopSetsStopped, StopReleasesGetters, StopReleasesControl, StopJoinsControl,
     StopStopsCameras, StopFinishes, Destroy, SpuriousWakeup
<1> QED
  BY <1>1 DEF CheckEof, Inv, OneRequest

\* eof() becomes true only when no cloud waits to be read.
THEOREM EofLast == Spec => NoCloudBehindEof
BY EofStep, Invariant, TypeCorrect, PTL DEF Spec, NoCloudBehindEof, TypeOK
==============================================================================

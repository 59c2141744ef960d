-------------------------- MODULE RS2Capture_proofs --------------------------
(***************************************************************************)
(* Proofs about the RealSense capturer, for every number of cameras,       *)
(* consumers, clouds and calls.                                            *)
(***************************************************************************)
EXTENDS RS2Capture, TLAPS

-----------------------------------------------------------------------------
(* Types, the Booleans apart: the solver that reasons about arithmetic is  *)
(* weak on them.                                                           *)

FlagsTypeOK ==
    /\ stopped \in BOOLEAN /\ stopping \in BOOLEAN /\ eof \in BOOLEAN
    /\ fresh \in BOOLEAN /\ wantNew \in BOOLEAN
    /\ running \in BOOLEAN /\ freeing \in BOOLEAN

ControlTypeOK ==
    /\ mergedPC \in 0 .. MaxClouds /\ newPC \in 0 .. MaxClouds
    /\ ctl \in {"off", "loop", "awaitRequest", "fallAsleep", "asleep", "checkEof",
                "capture", "captured", "saveMetadata", "enqueued", "lockMerged",
                "waitCamera", "waitFallAsleep", "waitAsleep", "exited"}
    /\ cam \in 1 .. NumCameras + 1

CamerasTypeOK ==
    /\ endOfStream \subseteq Cameras /\ alive \subseteq Cameras /\ done \subseteq Cameras
    /\ queue \in [Cameras -> 0 .. MaxClouds]
    /\ work \in [Cameras -> 0 .. MaxClouds]
    /\ current \in [Cameras -> 0 .. MaxClouds]

ApplicationTypeOK ==
    /\ cons \in [Consumers -> {"idle", "getRequest", "get", "getFallAsleep",
                               "getAsleep", "getAgain", "availRequest", "avail",
                               "availFallAsleep", "availAsleep"}]
    /\ main \in {"idle", "drain", "joinCameras", "stopControl", "releaseGetters",
                 "releaseControl", "join", "destroy", "gone"}
    /\ starts \in 0 .. MaxStarts /\ stops \in 0 .. MaxStops /\ calls \in 0 .. MaxCalls

CloudsTypeOK ==
    /\ made \in 0 .. MaxClouds /\ last \in 0 .. MaxClouds
    /\ where \in [Clouds -> {"unmade", "source", "caller", "freed", "astray"}]
    /\ content \in [Clouds -> [Cameras -> 0 .. MaxClouds]]

\* CaptureAll has tested the bound for NewCloud.
Bounded == ctl = "captured" => made < MaxClouds

DataTypeOK ==
    /\ ControlTypeOK /\ CamerasTypeOK /\ ApplicationTypeOK /\ CloudsTypeOK /\ Bounded

LEMMA TypeParts == TypeOK /\ Bounded <=> FlagsTypeOK /\ DataTypeOK
BY DEF TypeOK, FlagsTypeOK, DataTypeOK, ControlTypeOK, CamerasTypeOK,
   ApplicationTypeOK, CloudsTypeOK

LEMMA TypedInit == Init => FlagsTypeOK /\ DataTypeOK
<1> SUFFICES ASSUME Init PROVE FlagsTypeOK /\ DataTypeOK
  OBVIOUS
<1>1. FlagsTypeOK
  BY DEF Init, FlagsTypeOK
<1> USE RS2Assumption DEF Init, Cameras, Clouds, NoPoints
<1>2. ControlTypeOK /\ CamerasTypeOK
  BY DEF ControlTypeOK, CamerasTypeOK
<1>3. ApplicationTypeOK /\ CloudsTypeOK /\ Bounded
  BY DEF ApplicationTypeOK, CloudsTypeOK, Bounded
<1> QED
  BY <1>1, <1>2, <1>3 DEF DataTypeOK

LEMMA FlagsStep == ASSUME FlagsTypeOK, [Next]_vars PROVE FlagsTypeOK'
<1> USE DEF FlagsTypeOK, slot, control, cameras, owner
<1>1. CASE Control
  <2>1. CASE Loop \/ AwaitRequest \/ CheckEof \/ CaptureAll \/ CaptureFails \/ StreamEnds
    BY <2>1 DEF Loop, AwaitRequest, CheckEof, CaptureAll, CaptureFails, StreamEnds
  <2>2. CASE NewCloud \/ AbandonNewCloud \/ EnqueueFrames \/ GoOn
    BY <2>2 DEF NewCloud, AbandonNewCloud, EnqueueFrames, GoOn
  <2>3. CASE Install \/ WaitForProcessed \/ WaitSleeps \/ Merge
    BY <2>3 DEF Install, WaitForProcessed, WaitSleeps, Merge
  <2> QED BY <1>1, <2>1, <2>2, <2>3 DEF Control
<1>2. ASSUME NEW c \in Cameras, Processing(c) PROVE FlagsTypeOK'
  BY <1>2 DEF Processing, Dequeue, Generate, ProcessingExits
<1>3. ASSUME NEW t \in Consumers, Consumer(t) PROVE FlagsTypeOK'
  BY <1>3 DEF Consumer, InCall, Call, Request, Take, GetterSleeps, AvailableReturns
<1>4. CASE Start \/ Stop
  BY <1>4 DEF Start, Stop
<1>5. CASE Stopping
  BY <1>5 DEF Stopping, StopDrains, StopJoinsProcessing, StopSetsStopped,
     StopReleasesGetters, StopReleasesControl, StopJoinsControl, Destroy
<1>6. CASE SpuriousWakeup
  BY <1>6 DEF SpuriousWakeup
<1>7. CASE UNCHANGED vars
  BY <1>7 DEF vars
<1> QED
  BY <1>1, <1>2, <1>3, <1>4, <1>5, <1>6, <1>7 DEF Next

LEMMA ControlStep ==
    ASSUME DataTypeOK, [Next]_vars PROVE ControlTypeOK' /\ Bounded'
<1> USE RS2Assumption
        DEF DataTypeOK, ControlTypeOK, CloudsTypeOK, Bounded, Cameras, slot, control,
            cameras, owner, clouds
<1>1. CASE Control
  BY <1>1 DEF Control, Loop, AwaitRequest, CheckEof, CaptureAll, CaptureFails,
     StreamEnds, NewCloud, AbandonNewCloud, EnqueueFrames, GoOn, Install,
     WaitForProcessed, WaitSleeps, Merge
<1>2. ASSUME NEW c \in Cameras, Processing(c) PROVE ControlTypeOK' /\ Bounded'
  BY <1>2 DEF Processing, Dequeue, Generate, ProcessingExits
<1>3. ASSUME NEW t \in Consumers, Consumer(t) PROVE ControlTypeOK' /\ Bounded'
  BY <1>3 DEF Consumer, InCall, Call, Request, Take, GetterSleeps, AvailableReturns,
     ControlNotified
<1>4. CASE Start \/ Stop
  BY <1>4 DEF Start, Stop
<1>5. CASE Stopping
  BY <1>5 DEF Stopping, StopDrains, StopJoinsProcessing, StopSetsStopped,
     StopReleasesGetters, StopReleasesControl, StopJoinsControl, Destroy, ControlNotified
<1>6. CASE SpuriousWakeup
  BY <1>6 DEF SpuriousWakeup
<1>7. CASE UNCHANGED vars
  BY <1>7 DEF vars
<1> QED
  BY <1>1, <1>2, <1>3, <1>4, <1>5, <1>6, <1>7 DEF Next

LEMMA CamerasStep == ASSUME DataTypeOK, [Next]_vars PROVE CamerasTypeOK'
<1> USE RS2Assumption
        DEF DataTypeOK, ControlTypeOK, CamerasTypeOK, NoPoints, cameras, frames
<1>1. CASE Control
  BY <1>1 DEF Control, Loop, AwaitRequest, CheckEof, CaptureAll, CaptureFails,
     StreamEnds, NewCloud, AbandonNewCloud, EnqueueFrames, GoOn, Install,
     WaitForProcessed, WaitSleeps, Merge
<1>2. ASSUME NEW c \in Cameras, Processing(c) PROVE CamerasTypeOK'
  <2>1. CASE Dequeue(c)
    BY <2>1 DEF Dequeue
  <2>2. CASE Generate(c)
    BY <2>2 DEF Generate
  <2>3. CASE ProcessingExits(c)
    BY <2>3 DEF ProcessingExits
  <2> QED
    BY <1>2, <2>1, <2>2, <2>3 DEF Processing
<1>3. ASSUME NEW t \in Consumers, Consumer(t) PROVE CamerasTypeOK'
  BY <1>3 DEF Consumer, InCall, Call, Request, Take, GetterSleeps, AvailableReturns
<1>4. CASE Start \/ Stop
  BY <1>4 DEF Start, Stop
<1>5. CASE Stopping
  BY <1>5 DEF Stopping, StopDrains, StopJoinsProcessing, StopSetsStopped,
     StopReleasesGetters, StopReleasesControl, StopJoinsControl, Destroy
<1>6. CASE SpuriousWakeup
  BY <1>6 DEF SpuriousWakeup
<1>7. CASE UNCHANGED vars
  BY <1>7 DEF vars
<1> QED
  BY <1>1, <1>2, <1>3, <1>4, <1>5, <1>6, <1>7 DEF Next

LEMMA ApplicationStep == ASSUME DataTypeOK, [Next]_vars PROVE ApplicationTypeOK'
<1> USE RS2Assumption DEF DataTypeOK, ApplicationTypeOK, owner, Goto
<1>1. CASE Control
  BY <1>1 DEF Control, Loop, AwaitRequest, CheckEof, CaptureAll, CaptureFails,
     StreamEnds, NewCloud, AbandonNewCloud, EnqueueFrames, GoOn, Install,
     WaitForProcessed, WaitSleeps, Merge, GettersNotified
<1>2. ASSUME NEW c \in Cameras, Processing(c) PROVE ApplicationTypeOK'
  BY <1>2 DEF Processing, Dequeue, Generate, ProcessingExits
<1>3. ASSUME NEW t \in Consumers, Consumer(t) PROVE ApplicationTypeOK'
  <2>1. CASE Call(t)
    BY <2>1 DEF Call
  <2>2. CASE Request(t)
    BY <2>2 DEF Request
  <2>3. CASE Take(t)
    BY <2>3 DEF Take
  <2>4. CASE GetterSleeps(t)
    BY <2>4 DEF GetterSleeps
  <2>5. CASE AvailableReturns(t)
    BY <2>5 DEF AvailableReturns
  <2> QED
    BY <1>3, <2>1, <2>2, <2>3, <2>4, <2>5 DEF Consumer, InCall
<1>4. CASE Start \/ Stop
  BY <1>4 DEF Start, Stop
<1>5. CASE Stopping
  BY <1>5 DEF Stopping, StopDrains, StopJoinsProcessing, StopSetsStopped,
     StopReleasesGetters, StopReleasesControl, StopJoinsControl, Destroy, GettersNotified
<1>6. CASE SpuriousWakeup
  BY <1>6 DEF SpuriousWakeup
<1>7. CASE UNCHANGED vars
  BY <1>7 DEF vars
<1> QED
  BY <1>1, <1>2, <1>3, <1>4, <1>5, <1>6, <1>7 DEF Next

LEMMA CloudsStep == ASSUME DataTypeOK, [Next]_vars PROVE CloudsTypeOK'
<1> USE RS2Assumption
        DEF DataTypeOK, ControlTypeOK, CamerasTypeOK, CloudsTypeOK, Bounded, Clouds,
            Given, clouds
<1>1. CASE NewCloud
  BY <1>1 DEF NewCloud
<1>2. CASE AbandonNewCloud \/ Install
  BY <1>2 DEF AbandonNewCloud, Install
<1>3. CASE Merge
  BY <1>3 DEF Merge
<1>4. CASE \/ Loop \/ AwaitRequest \/ CheckEof \/ CaptureAll \/ CaptureFails
           \/ StreamEnds \/ EnqueueFrames \/ GoOn \/ WaitForProcessed \/ WaitSleeps
  BY <1>4 DEF Loop, AwaitRequest, CheckEof, CaptureAll, CaptureFails, StreamEnds,
     EnqueueFrames, GoOn, WaitForProcessed, WaitSleeps
<1>5. ASSUME NEW c \in Cameras, Processing(c) PROVE CloudsTypeOK'
  BY <1>5 DEF Processing, Dequeue, Generate, ProcessingExits
<1>6. ASSUME NEW t \in Consumers, Consumer(t) PROVE CloudsTypeOK'
  BY <1>6 DEF Consumer, InCall, Call, Request, Take, GetterSleeps, AvailableReturns
<1>7. CASE Start \/ Stop
  BY <1>7 DEF Start, Stop
<1>8. CASE Stopping
  BY <1>8 DEF Stopping, StopDrains, StopJoinsProcessing, StopSetsStopped,
     StopReleasesGetters, StopReleasesControl, StopJoinsControl, Destroy
<1>9. CASE SpuriousWakeup
  BY <1>9 DEF SpuriousWakeup
<1>10. CASE UNCHANGED vars
  BY <1>10 DEF vars
<1> QED
  BY <1>1, <1>2, <1>3, <1>4, <1>5, <1>6, <1>7, <1>8, <1>9, <1>10 DEF Next, Control

LEMMA Typed == Spec => [](FlagsTypeOK /\ DataTypeOK)
<1>1. FlagsTypeOK /\ DataTypeOK /\ [Next]_vars => (FlagsTypeOK /\ DataTypeOK)'
  BY FlagsStep, ControlStep, CamerasStep, ApplicationStep, CloudsStep DEF DataTypeOK
<1> QED
  BY <1>1, TypedInit, PTL DEF Spec

\* Type correctness.
THEOREM TypeCorrect == Spec => []TypeOK
BY Typed, TypeParts, PTL

-----------------------------------------------------------------------------
(* Until stop() is called for the first time.  Then there has been one     *)
(* start() at most, and the control thread leaves its loop only at the end *)
(* of a stream.                                                            *)

Busy == {"checkEof", "capture", "captured", "saveMetadata", "enqueued", "lockMerged",
         "waitCamera", "waitFallAsleep", "waitAsleep"}
Waiting == {"waitCamera", "waitFallAsleep", "waitAsleep"}

\* What the control thread does it does for a request, and there is none
\* while a cloud waits to be read.
OneRequest ==
    /\ main = "idle"
    /\ stopped => ctl = "exited"
    /\ ctl = "off" => ~fresh
    /\ ~(fresh /\ wantNew)
    /\ ctl \in Busy => wantNew

\* Who owns which cloud.  mergedPC may point to one that was handed out, but
\* not while it is being filled or waits to be read.
Pointers ==
    /\ last <= made /\ mergedPC <= made
    /\ \A i \in Clouds : where[i] = "unmade" <=> i > made
    /\ newPC # 0 <=> ctl \in {"saveMetadata", "enqueued", "lockMerged"}
    /\ newPC # 0 =>
        newPC = made /\ where[newPC] = "source" /\ last < newPC /\ mergedPC < newPC
    /\ fresh \/ ctl \in Waiting =>
        mergedPC # 0 /\ where[mergedPC] = "source" /\ last < mergedPC

BeforeStop == stops = 0 => OneRequest /\ Pointers

LEMMA BeforeStopInit == Init => BeforeStop
BY RS2Assumption DEF Init, BeforeStop, OneRequest, Pointers, Clouds, Waiting, Busy

LEMMA RequestsStep ==
    ASSUME stops \in Nat, stops = 0 => OneRequest, [Next]_vars
    PROVE  (stops = 0 => OneRequest)'
<1> USE DEF OneRequest, Busy, slot, control, cameras, owner
<1>1. CASE Control
  BY <1>1 DEF Control, Loop, AwaitRequest, CheckEof, CaptureAll, CaptureFails,
     StreamEnds, NewCloud, AbandonNewCloud, EnqueueFrames, GoOn, Install,
     WaitForProcessed, WaitSleeps, Merge
<1>2. ASSUME NEW c \in Cameras, Processing(c) PROVE (stops = 0 => OneRequest)'
  BY <1>2 DEF Processing, Dequeue, Generate, ProcessingExits
<1>3. ASSUME NEW t \in Consumers, Consumer(t) PROVE (stops = 0 => OneRequest)'
  BY <1>3 DEF Consumer, InCall, Call, Request, Take, GetterSleeps, AvailableReturns,
     ControlNotified
<1>4. CASE Start
  BY <1>4 DEF Start, Playing
<1>5. CASE Stop
  BY <1>5 DEF Stop
<1>6. CASE Stopping
  BY <1>6 DEF Stopping, StopDrains, StopJoinsProcessing, StopSetsStopped,
     StopReleasesGetters, StopReleasesControl, StopJoinsControl, Destroy
<1>7. CASE SpuriousWakeup
  BY <1>7 DEF SpuriousWakeup
<1>8. CASE UNCHANGED vars
  BY <1>8 DEF vars
<1> QED
  BY <1>1, <1>2, <1>3, <1>4, <1>5, <1>6, <1>7, <1>8 DEF Next

LEMMA PointersStep ==
    ASSUME DataTypeOK, BeforeStop, [Next]_vars
    PROVE  (stops = 0 => Pointers)'
<1>0. /\ where \in [Clouds -> {"unmade", "source", "caller", "freed", "astray"}]
      /\ mergedPC \in 0 .. MaxClouds /\ newPC \in 0 .. MaxClouds
      /\ made \in 0 .. MaxClouds /\ last \in 0 .. MaxClouds /\ MaxClouds \in Nat
      /\ stops \in Nat
  BY RS2Assumption DEF DataTypeOK, ControlTypeOK, ApplicationTypeOK, CloudsTypeOK
<1> USE <1>0 DEF BeforeStop, Pointers, Waiting, Clouds, slot, control, cameras, owner,
            clouds
<1>1. CASE NewCloud
  BY <1>1 DEF NewCloud, DataTypeOK, Bounded
<1>2. CASE AbandonNewCloud
  BY <1>2 DEF AbandonNewCloud, OneRequest
<1>3. CASE Install
  BY <1>3 DEF Install, OneRequest, Busy
<1>4. CASE \/ Loop \/ AwaitRequest \/ CheckEof \/ CaptureAll \/ CaptureFails
           \/ StreamEnds \/ EnqueueFrames \/ GoOn \/ WaitForProcessed \/ WaitSleeps
           \/ Merge
  BY <1>4 DEF Loop, AwaitRequest, CheckEof, CaptureAll, CaptureFails, StreamEnds,
     EnqueueFrames, GoOn, WaitForProcessed, WaitSleeps, Merge
<1>5. ASSUME NEW c \in Cameras, Processing(c) PROVE (stops = 0 => Pointers)'
  BY <1>5 DEF Processing, Dequeue, Generate, ProcessingExits
<1>6. ASSUME NEW t \in Consumers, Take(t) PROVE (stops = 0 => Pointers)'
  BY <1>6 DEF Take, MergedFree, Given, OneRequest, Busy
<1>7. ASSUME NEW t \in Consumers,
             Call(t) \/ Request(t) \/ GetterSleeps(t) \/ AvailableReturns(t)
      PROVE  (stops = 0 => Pointers)'
  BY <1>7 DEF Call, Request, GetterSleeps, AvailableReturns, ControlNotified
<1>8. CASE Start
  BY <1>8 DEF Start, Playing
<1>9. CASE Stop
  BY <1>9 DEF Stop
<1>10. CASE Stopping
  BY <1>10 DEF Stopping, StopDrains, StopJoinsProcessing, StopSetsStopped,
     StopReleasesGetters, StopReleasesControl, StopJoinsControl, Destroy, OneRequest
<1>11. CASE SpuriousWakeup
  BY <1>11 DEF SpuriousWakeup
<1>12. CASE UNCHANGED vars
  BY <1>12 DEF vars
<1> QED
  BY <1>1, <1>2, <1>3, <1>4, <1>5, <1>6, <1>7, <1>8, <1>9, <1>10, <1>11, <1>12
  DEF Next, Control, Consumer, InCall

LEMMA BeforeStopInvariant == Spec => []BeforeStop
<1>1. DataTypeOK /\ BeforeStop /\ [Next]_vars => BeforeStop'
  <2>1. DataTypeOK => stops \in Nat
    BY RS2Assumption DEF DataTypeOK, ApplicationTypeOK
  <2> QED
    BY <2>1, RequestsStep, PointersStep DEF BeforeStop
<1> QED
  BY <1>1, BeforeStopInit, Typed, PTL DEF Spec

LEMMA UnreadStep ==
    ASSUME FlagsTypeOK, DataTypeOK, BeforeStop, [Next]_vars PROVE UnreadIsKept
<1> SUFFICES ASSUME fresh, stops = 0
             PROVE  \/ mergedPC' = mergedPC /\ where'[mergedPC] = "source" /\ fresh'
                    \/ where'[mergedPC] = "caller" /\ last' = mergedPC
  BY DEF UnreadIsKept
<1>0. /\ where \in [Clouds -> {"unmade", "source", "caller", "freed", "astray"}]
      /\ mergedPC \in Clouds /\ where[mergedPC] = "source" /\ mergedPC <= made
      /\ made \in 0 .. MaxClouds /\ MaxClouds \in Nat
      /\ main = "idle" /\ ctl \notin Busy /\ fresh = TRUE
  BY RS2Assumption DEF FlagsTypeOK, DataTypeOK, ControlTypeOK, CloudsTypeOK, Clouds,
     BeforeStop, OneRequest, Pointers
<1> USE <1>0 DEF Busy, slot, control, cameras, owner, clouds
<1>1. CASE Control
  BY <1>1 DEF Control, Loop, AwaitRequest, CheckEof, CaptureAll, CaptureFails,
     StreamEnds, NewCloud, AbandonNewCloud, EnqueueFrames, GoOn, Install,
     WaitForProcessed, WaitSleeps, Merge
<1>2. ASSUME NEW c \in Cameras, Processing(c) PROVE UNCHANGED <<mergedPC, where, fresh>>
  BY <1>2 DEF Processing, Dequeue, Generate, ProcessingExits
<1>3. ASSUME NEW t \in Consumers, Take(t)
      PROVE  where'[mergedPC] = "caller" /\ last' = mergedPC
  BY <1>3 DEF Take, Given, Clouds
<1>4. ASSUME NEW t \in Consumers,
             Call(t) \/ Request(t) \/ GetterSleeps(t) \/ AvailableReturns(t)
      PROVE  UNCHANGED <<mergedPC, where, fresh>>
  BY <1>4 DEF Call, Request, GetterSleeps, AvailableReturns
<1>5. CASE Start \/ Stop \/ SpuriousWakeup
  BY <1>5 DEF Start, Stop, SpuriousWakeup
<1>6. CASE Stopping
  BY <1>6 DEF Stopping, StopDrains, StopJoinsProcessing, StopSetsStopped,
     StopReleasesGetters, StopReleasesControl, StopJoinsControl, Destroy
<1>7. CASE UNCHANGED vars
  BY <1>7 DEF vars
<1> QED
  BY <1>1, <1>2, <1>3, <1>4, <1>5, <1>6, <1>7 DEF Next, Consumer, InCall

\* Until stop() is called a cloud that waits to be read stays until the
\* application takes it.
THEOREM UnreadKept == Spec => NoUnreadOverwritten
BY UnreadStep, BeforeStopInvariant, Typed, PTL DEF Spec, NoUnreadOverwritten

LEMMA SourceStep ==
    ASSUME DataTypeOK, BeforeStop, [Next]_vars
    PROVE  stops > 0 \/ [Source!Next]_<<where, last>>
<1>0. /\ where \in [Clouds -> {"unmade", "source", "caller", "freed", "astray"}]
      /\ mergedPC \in 0 .. MaxClouds /\ newPC \in 0 .. MaxClouds
      /\ made \in 0 .. MaxClouds /\ last \in 0 .. MaxClouds /\ MaxClouds \in Nat
      /\ stops \in Nat
  BY RS2Assumption DEF DataTypeOK, ControlTypeOK, ApplicationTypeOK, CloudsTypeOK
<1> SUFFICES ASSUME stops = 0, ~UNCHANGED <<where, last>> PROVE Source!Next
  BY <1>0
<1>00. OneRequest /\ Pointers
  BY DEF BeforeStop
<1> USE <1>0, <1>00 DEF Source!Next, Source!Clouds, Clouds, clouds
<1>1. CASE NewCloud
  <2>1. made + 1 \in Clouds
    BY <1>1 DEF NewCloud, DataTypeOK, Bounded
  <2>2. Source!Make(made + 1)
    BY <1>1, <2>1 DEF NewCloud, Source!Make, Pointers
  <2> QED
    BY <2>1, <2>2
<1>2. CASE AbandonNewCloud \/ Install
  BY <1>2 DEF AbandonNewCloud, Install, OneRequest, Busy
<1>3. ASSUME NEW t \in Consumers, Take(t) PROVE Source!Next
  <2>1. mergedPC \in Clouds /\ where[mergedPC] = "source" /\ last < mergedPC
    BY <1>3 DEF Take, Pointers
  <2>2. Source!Deliver(mergedPC)
    BY <1>3, <2>1 DEF Take, Given, Source!Deliver
  <2> QED
    BY <2>1, <2>2
<1>4. CASE \/ Loop \/ AwaitRequest \/ CheckEof \/ CaptureAll \/ CaptureFails
           \/ StreamEnds \/ EnqueueFrames \/ GoOn \/ WaitForProcessed \/ WaitSleeps
           \/ Merge
  BY <1>4 DEF Loop, AwaitRequest, CheckEof, CaptureAll, CaptureFails, StreamEnds,
     EnqueueFrames, GoOn, WaitForProcessed, WaitSleeps, Merge
<1>5. ASSUME NEW c \in Cameras, Processing(c) PROVE FALSE
  BY <1>5 DEF Processing, Dequeue, Generate, ProcessingExits
<1>6. ASSUME NEW t \in Consumers,
             Call(t) \/ Request(t) \/ GetterSleeps(t) \/ AvailableReturns(t)
      PROVE  FALSE
  BY <1>6 DEF Call, Request, GetterSleeps, AvailableReturns
<1>7. CASE Start \/ Stop \/ Stopping \/ SpuriousWakeup
  BY <1>7 DEF Start, Stop, SpuriousWakeup, Stopping, StopDrains, StopJoinsProcessing,
     StopSetsStopped, StopReleasesGetters, StopReleasesControl, StopJoinsControl,
     Destroy, OneRequest
<1>8. CASE UNCHANGED vars
  BY <1>8 DEF vars
<1> QED
  BY <1>1, <1>2, <1>3, <1>4, <1>5, <1>6, <1>7, <1>8 DEF Next, Control, Consumer, InCall

\* Until stop() is called the RealSense capturer hands out each cloud at most
\* once, in order, and frees none that it has handed out.
THEOREM SourceBeforeStop == Spec => SourceUntilStop
<1>1. DataTypeOK /\ BeforeStop /\ [Next]_vars
        => [stops > 0 \/ Source!Next]_<<where, last>>
  BY SourceStep
<1> QED
  BY <1>1, BeforeStopInvariant, Typed, PTL DEF Spec, SourceUntilStop

-----------------------------------------------------------------------------
(* What is in a cloud.  This needs that a new camera finds processing_done *)
(* false, which the code does not see to.                                  *)

\* Camera c has no frame to process and no flag left over from one.
NoFrame(c) == queue[c] = 0 /\ work[c] = 0 /\ c \notin done

\* The frame of camera c for cloud i is in one place only, or it is lost.
InFlight(c, i) ==
    \/ NoFrame(c)
    \/ queue[c] = i /\ work[c] = 0 /\ c \notin done
    \/ queue[c] = 0 /\ work[c] = i /\ c \notin done
    \/ queue[c] = 0 /\ work[c] = 0 /\ c \in done /\ current[c] = i

\* As in K4ACapture_proofs: at most one frame per camera is under way, that of
\* the cloud being made, and those of the cameras before cam are merged.
OneFrameEach ==
    /\ ctl \notin {"enqueued", "lockMerged"} \cup Waiting =>
        \A c \in Cameras : NoFrame(c)
    /\ ctl \in {"enqueued", "lockMerged"} => \A c \in Cameras : InFlight(c, newPC)
    /\ ctl \in Waiting =>
        \A c \in Cameras :
            IF c < cam THEN NoFrame(c) /\ current[c] = mergedPC
                       ELSE InFlight(c, mergedPC)
    /\ ctl \in {"waitFallAsleep", "waitAsleep"} => cam \in Cameras

Filled == stops = 0 => OneFrameEach /\ (fresh => Complete(mergedPC))

LEMMA FilledInit == Init => Filled
BY DEF Init, Filled, OneFrameEach, NoFrame, NoPoints, Waiting

\* A processing thread only moves a frame on from place to place.
LEMMA ProcessingMoves ==
    ASSUME CamerasTypeOK, NEW c \in Cameras, Processing(c)
    PROVE  /\ \A i \in 0 .. MaxClouds : \A d \in Cameras :
                InFlight(d, i) => InFlight(d, i)'
           /\ \A d \in Cameras : NoFrame(d) => NoFrame(d)' /\ current'[d] = current[d]
           /\ UNCHANGED <<cam, newPC, slot, stops>>
           /\ ctl' = ctl \/ (ctl = "waitAsleep" /\ ctl' = "waitCamera")
<1> USE DEF CamerasTypeOK, InFlight, NoFrame
<1>1. \A i \in 0 .. MaxClouds : \A d \in Cameras : InFlight(d, i) => InFlight(d, i)'
  BY DEF Processing, Dequeue, Generate, ProcessingExits
<1>2. \A d \in Cameras : NoFrame(d) => NoFrame(d)' /\ current'[d] = current[d]
  BY DEF Processing, Dequeue, Generate, ProcessingExits
<1>3. UNCHANGED <<cam, newPC, slot, stops>>
  BY DEF Processing, Dequeue, Generate, ProcessingExits, control, slot, owner
<1>4. ctl' = ctl \/ (ctl = "waitAsleep" /\ ctl' = "waitCamera")
  BY DEF Processing, Dequeue, Generate, ProcessingExits, control
<1> QED
  BY <1>1, <1>2, <1>3, <1>4

LEMMA FramesStep ==
    ASSUME DoneAtCreation = {{}}, DataTypeOK, BeforeStop, Filled, [Next]_vars
    PROVE  (stops = 0 => OneFrameEach)'
<1>0. /\ queue \in [Cameras -> 0 .. MaxClouds]
      /\ work \in [Cameras -> 0 .. MaxClouds]
      /\ current \in [Cameras -> 0 .. MaxClouds]
      /\ newPC \in 0 .. MaxClouds /\ mergedPC \in 0 .. MaxClouds
      /\ cam \in 1 .. NumCameras + 1 /\ stops \in Nat /\ NumCameras \in Nat
  BY RS2Assumption DEF DataTypeOK, ControlTypeOK, CamerasTypeOK, ApplicationTypeOK
<1> USE <1>0 DEF BeforeStop, Filled, OneFrameEach, NoFrame, InFlight, Waiting, slot,
            control, cameras, frames, owner, clouds
<1>1. CASE \/ Loop \/ AwaitRequest \/ CheckEof \/ CaptureAll \/ CaptureFails
           \/ StreamEnds \/ NewCloud \/ GoOn
  BY <1>1 DEF Loop, AwaitRequest, CheckEof, CaptureAll, CaptureFails, StreamEnds,
     NewCloud, GoOn
<1>2. CASE AbandonNewCloud
  BY <1>2 DEF AbandonNewCloud, OneRequest
<1>3. CASE EnqueueFrames
  BY <1>3 DEF EnqueueFrames
<1>4. CASE Install
  BY <1>4 DEF Install, OneRequest, Cameras
<1>5. CASE WaitForProcessed
  BY <1>5 DEF WaitForProcessed, Pointers, Cameras
<1>6. CASE WaitSleeps
  BY <1>6 DEF WaitSleeps
<1>7. CASE Merge
  BY <1>7 DEF Merge, Cameras
<1>8. ASSUME NEW c \in Cameras, Processing(c) PROVE (stops = 0 => OneFrameEach)'
  BY <1>8, ProcessingMoves DEF DataTypeOK
<1>9. ASSUME NEW t \in Consumers, Consumer(t) PROVE (stops = 0 => OneFrameEach)'
  BY <1>9 DEF Consumer, InCall, Call, Request, Take, GetterSleeps, AvailableReturns,
     ControlNotified
<1>10. CASE Start
  BY <1>10 DEF Start, Playing
<1>11. CASE Stop
  BY <1>11 DEF Stop
<1>12. CASE Stopping
  BY <1>12 DEF Stopping, StopDrains, StopJoinsProcessing, StopSetsStopped,
     StopReleasesGetters, StopReleasesControl, StopJoinsControl, Destroy, OneRequest
<1>13. CASE SpuriousWakeup
  BY <1>13 DEF SpuriousWakeup
<1>14. CASE UNCHANGED vars
  BY <1>14 DEF vars
<1> QED
  BY <1>1, <1>2, <1>3, <1>4, <1>5, <1>6, <1>7, <1>8, <1>9, <1>10, <1>11, <1>12,
     <1>13, <1>14 DEF Next, Control

LEMMA FreshStep ==
    ASSUME DataTypeOK, BeforeStop, Filled, [Next]_vars
    PROVE  (stops = 0 /\ fresh => Complete(mergedPC))'
<1>0. stops \in Nat
  BY RS2Assumption DEF DataTypeOK, ApplicationTypeOK
<1> USE <1>0 DEF Filled, Complete, slot, control, cameras, owner, clouds
<1>1. CASE Install
  BY <1>1 DEF Install, BeforeStop, OneRequest, Busy
<1>2. CASE Merge
  <2> SUFFICES ASSUME stops = 0 PROVE (Complete(mergedPC))'
    BY <1>2 DEF Merge
  <2>1. mergedPC \in Clouds
    BY <1>2 DEF Merge, BeforeStop, Pointers, Waiting, DataTypeOK, ControlTypeOK, Clouds
  <2>2. current = [c \in Cameras |-> mergedPC]
    <3>1. \A c \in Cameras : current[c] = mergedPC
      BY <1>2, RS2Assumption DEF Merge, OneFrameEach, Waiting, Cameras, DataTypeOK,
         ControlTypeOK
    <3>2. current \in [Cameras -> 0 .. MaxClouds]
      BY DEF DataTypeOK, CamerasTypeOK
    <3> QED
      BY <3>1, <3>2
  <2> QED
    BY <1>2, <2>1, <2>2 DEF Merge, DataTypeOK, CloudsTypeOK
<1>3. CASE \/ Loop \/ AwaitRequest \/ CheckEof \/ CaptureAll \/ CaptureFails
           \/ StreamEnds \/ NewCloud \/ AbandonNewCloud \/ EnqueueFrames \/ GoOn
           \/ WaitForProcessed \/ WaitSleeps
  BY <1>3 DEF Loop, AwaitRequest, CheckEof, CaptureAll, CaptureFails, StreamEnds,
     NewCloud, AbandonNewCloud, EnqueueFrames, GoOn, WaitForProcessed, WaitSleeps
<1>4. ASSUME NEW c \in Cameras, Processing(c) PROVE UNCHANGED <<slot, content, stops>>
  BY <1>4 DEF Processing, Dequeue, Generate, ProcessingExits
<1>5. ASSUME NEW t \in Consumers, Consumer(t)
      PROVE  UNCHANGED <<mergedPC, content, stops>> /\ (fresh' => fresh)
  <2>1. CASE Take(t)
    BY <2>1 DEF Take
  <2>2. CASE Call(t) \/ Request(t) \/ GetterSleeps(t) \/ AvailableReturns(t)
    BY <2>2 DEF Call, Request, GetterSleeps, AvailableReturns
  <2> QED
    BY <1>5, <2>1, <2>2 DEF Consumer, InCall
<1>6. CASE Start \/ SpuriousWakeup
  BY <1>6 DEF Start, SpuriousWakeup
<1>9. CASE Stop
  BY <1>9 DEF Stop
<1>7. CASE Stopping
  BY <1>7 DEF Stopping, StopDrains, StopJoinsProcessing, StopSetsStopped,
     StopReleasesGetters, StopReleasesControl, StopJoinsControl, Destroy, BeforeStop,
     OneRequest
<1>8. CASE UNCHANGED vars
  BY <1>8 DEF vars
<1> QED
  BY <1>1, <1>2, <1>3, <1>4, <1>5, <1>6, <1>7, <1>8, <1>9 DEF Next, Control

\* When the flag of a new camera is false, what get_pointcloud() can take until
\* stop() is called has the points of its own capture from every camera.
THEOREM FreshClouds ==
    ASSUME DoneAtCreation = {{}} PROVE Spec => []FreshIsComplete
<1>1. DataTypeOK /\ BeforeStop /\ Filled /\ [Next]_vars => Filled'
  BY FramesStep, FreshStep DEF Filled
<1>2. BeforeStop /\ Filled => FreshIsComplete
  BY DEF BeforeStop, Pointers, Filled, FreshIsComplete
<1> QED
  BY <1>1, <1>2, FilledInit, BeforeStopInvariant, Typed, PTL DEF Spec
==============================================================================

----------------------------- MODULE K4ACapture -----------------------------
(***************************************************************************)
(* The Kinect capturer: cwipc_kinect/src/K4ABaseCapture.hpp and the part   *)
(* of K4ABaseCamera.hpp it drives.                                         *)
(*                                                                         *)
(* Three kinds of thread meet in one object:                               *)
(*   - the control thread (_control_thread_main) makes one cloud per       *)
(*     request: capture a frame of every camera, hand the frames to the    *)
(*     processing threads, wait for those, merge, publish in mergedPC;     *)
(*   - one processing thread per camera turns a frame into points;         *)
(*   - application threads call get_pointcloud() and                       *)
(*     pointcloud_available(), and one of them, the owner ("main" below),  *)
(*     calls start(), stop() and the destructor.                           *)
(*                                                                         *)
(* A thread waiting on a condition variable goes through the steps the     *)
(* library goes through: take the mutex, test the predicate, and, if it is *)
(* false, sleep, which gives the mutex up.  Test and sleep are separate    *)
(* steps, because stop() changes the predicate and notifies without        *)
(* holding the mutex.  Between two tests of the flags every step is one    *)
(* critical section or one unlocked access.                                *)
(*                                                                         *)
(* A frame carries the number of the cloud it was captured for; a cloud's  *)
(* points are the frame numbers merged into it, 0 for a camera that had    *)
(* nothing (current_pcl_pointcloud == nullptr).                            *)
(***************************************************************************)
EXTENDS Naturals, FiniteSets

CONSTANTS
    NumCameras,         \* cameras in the configuration
    Consumers,          \* application threads calling get() and available()
    MaxClouds,          \* bound: clouds made in a behaviour
    MaxStarts,          \* bound: calls of start()
    MaxCalls,           \* bound: calls of get() and available() together
    Faults              \* what the environment may do wrong, see below

ASSUME NumCamerasAssumption == NumCameras \in Nat \ {0}
ASSUME BoundsAssumption ==
    MaxClouds \in Nat /\ MaxStarts \in Nat /\ MaxCalls \in Nat
ASSUME ConsumersAssumption == {"nobody", "control"} \cap Consumers = {}
\* "start": a camera refuses to start.  "capture": a capture times out.
\* "generate": the SDK cannot transform a frame.  "eof": a recording ends.
ASSUME FaultsAssumption == Faults \subseteq {"start", "capture", "generate", "eof"}

Cameras == 1 .. NumCameras
Clouds == 1 .. MaxClouds

VARIABLES
    \* the capturer object
    stopped, eof,       \* bool stopped, _eof
    mergedPC,           \* the merged cloud, 0 for nullptr
    fresh,              \* mergedPC_is_fresh
    wantNew,            \* mergedPC_want_new
    lock,               \* who holds mergedPC_mutex
    playing,            \* control_thread != nullptr
    \* the control thread
    ctl,                \* where it is
    newPC,              \* its local newPC, 0 for none
    cam,                \* the camera it is waiting for
    \* the cameras
    streaming,          \* !camera_stopped
    endOfStream,        \* the cameras whose end_of_stream_reached is true
    queue,              \* processing_frame_queue (one place), 0 when empty
    proc,               \* where the processing thread is
    work,               \* its local processing_frameset
    current,            \* current_pcl_pointcloud
    done,               \* the cameras whose processing_done is true
    \* the application
    cons,               \* where each consumer is
    main,               \* where the owner is
    freeing,            \* the destructor was called
    starts, calls,      \* counts, for the bounds
    \* history
    made,               \* clouds made so far
    where,              \* the owner of each cloud
    content,            \* the points of each cloud
    last                \* the last cloud handed out

capturer == <<stopped, eof, mergedPC, fresh, wantNew, lock, playing>>
control == <<ctl, newPC, cam>>
cameras == <<streaming, endOfStream, queue, proc, work, current, done>>
application == <<cons, main, freeing, starts, calls>>
clouds == <<made, where, content, last>>
vars == <<capturer, control, cameras, application, clouds>>

NoPoints == [c \in Cameras |-> 0]

\* A cloud with the points of its own capture from every camera.
Complete(i) == content[i] = [c \in Cameras |-> i]

Init ==
    /\ stopped = FALSE /\ eof = FALSE /\ mergedPC = 0
    /\ fresh = FALSE /\ wantNew = FALSE /\ lock = "nobody" /\ playing = FALSE
    /\ ctl = "off" /\ newPC = 0 /\ cam = 1
    /\ streaming = FALSE /\ endOfStream = {}
    /\ queue = NoPoints /\ work = NoPoints
    /\ current = NoPoints /\ done = {}
    /\ proc = [c \in Cameras |-> "off"]
    /\ cons = [t \in Consumers |-> "idle"]
    /\ main = "idle" /\ freeing = FALSE /\ starts = 0 /\ calls = 0
    /\ made = 0 /\ where = [i \in Clouds |-> "unmade"]
    /\ content = [i \in Clouds |-> NoPoints] /\ last = 0

-----------------------------------------------------------------------------
(* Condition variables and clouds                                          *)

\* mergedPC_want_new_cv.notify_all(): only the control thread waits on it,
\* and it has to take the mutex again before it tests the predicate.
ControlNotified == IF ctl = "asleep" THEN "awaitRequest" ELSE ctl

\* MUTANT: notify_one(), which may wake an available() that takes nothing.
OneGetterNotified ==
    LET asleep == {t \in Consumers : cons[t] \in {"getAsleep", "availAsleep"}}
    IN  IF asleep = {} THEN cons
        ELSE [cons EXCEPT ![CHOOSE t \in asleep : TRUE] =
                IF @ = "getAsleep" THEN "get" ELSE "avail"]

\* mergedPC_is_fresh_cv.notify_all()
GettersNotified ==
    [t \in Consumers |->
        CASE cons[t] = "getAsleep" -> "get"
          [] cons[t] = "availAsleep" -> "avail"
          [] OTHER -> cons[t]]

\* MUTANT: a request is made also while a cloud is waiting to be read.
RequestRegardless ==
    /\ lock = "nobody"
    /\ wantNew' = TRUE
    /\ ctl' = ControlNotified

\* _request_new_pointcloud(): a critical section of its own.
RequestNew ==
    /\ lock = "nobody"
    /\ \/ /\ ~wantNew /\ ~fresh
          /\ wantNew' = TRUE
          /\ ctl' = ControlNotified
       \/ /\ wantNew \/ fresh
          /\ UNCHANGED <<wantNew, ctl>>

Freed(i) == [where EXCEPT ![i] = "freed"]

-----------------------------------------------------------------------------
(* The control thread                                                      *)

\* while (!stopped)
Loop ==
    /\ ctl = "loop"
    /\ ctl' = IF stopped THEN "exited" ELSE "awaitRequest"
    /\ UNCHANGED <<capturer, newPC, cam, cameras, application, clouds>>

\* mergedPC_want_new_cv.wait(): take the mutex and test the predicate.
AwaitRequest ==
    /\ ctl = "awaitRequest" /\ lock = "nobody"
    /\ \/ /\ wantNew
          /\ ctl' = "checkEof"
          /\ UNCHANGED lock
       \/ /\ ~wantNew
          /\ lock' = "control"
          /\ ctl' = "fallAsleep"
    /\ UNCHANGED <<stopped, eof, mergedPC, fresh, wantNew, playing>>
    /\ UNCHANGED <<newPC, cam, cameras, application, clouds>>

FallAsleep ==
    /\ ctl = "fallAsleep"
    /\ lock' = "nobody"
    /\ ctl' = "asleep"
    /\ UNCHANGED <<stopped, eof, mergedPC, fresh, wantNew, playing>>
    /\ UNCHANGED <<newPC, cam, cameras, application, clouds>>

CheckEof ==
    /\ ctl = "checkEof"
    /\ \/ /\ endOfStream # {}
          /\ eof' = TRUE
          /\ stopped' = TRUE
          /\ ctl' = "exited"
       \/ /\ endOfStream = {}
          /\ ctl' = IF stopped THEN "exited" ELSE "capture"
          /\ UNCHANGED <<eof, stopped>>
    /\ UNCHANGED <<mergedPC, fresh, wantNew, lock, playing>>
    /\ UNCHANGED <<newPC, cam, cameras, application, clouds>>

\* _capture_all_cameras(), all cameras deliver a frame for cloud made + 1.
\* (Which frames those are, and their timestamps, is not modelled here.)
CaptureAll ==
    /\ ctl = "capture" /\ streaming /\ endOfStream = {} /\ made < MaxClouds
    /\ ctl' = "captured"
    /\ UNCHANGED <<capturer, newPC, cam, cameras, application, clouds>>

\* A camera that does not stream, or times out, makes the capture fail.  So
\* does the bound: from then on the cameras have no more frames.
CaptureFails ==
    /\ ctl = "capture"
    /\ ~streaming \/ "capture" \in Faults \/ made = MaxClouds
    /\ ctl' = "loop"
    /\ UNCHANGED <<capturer, newPC, cam, cameras, application, clouds>>

\* MUTANT: the cameras are counted from 0.
CaptureHitsEofFromZero ==
    /\ ctl = "capture" /\ streaming /\ "eof" \in Faults
    /\ \E c \in 0 .. NumCameras - 1 : endOfStream' = endOfStream \cup {c}
    /\ ctl' = "loop"
    /\ UNCHANGED <<capturer, newPC, cam, application, clouds>>
    /\ UNCHANGED <<streaming, queue, proc, work, current, done>>

CaptureHitsEof ==
    /\ ctl = "capture" /\ streaming /\ "eof" \in Faults
    /\ \E c \in Cameras : endOfStream' = endOfStream \cup {c}
    /\ ctl' = "loop"
    /\ UNCHANGED <<capturer, newPC, cam, application, clouds>>
    /\ UNCHANGED <<streaming, queue, proc, work, current, done>>

\* if (stopped) break; newPC = cwipc_from_pcl(...)
NewCloud ==
    /\ ctl = "captured"
    /\ \/ /\ stopped
          /\ ctl' = "exited"
          /\ UNCHANGED <<newPC, clouds>>
       \/ /\ ~stopped
          /\ ctl' = "saveMetadata"
          /\ made' = made + 1
          /\ newPC' = made + 1
          /\ where' = [where EXCEPT ![made + 1] = "source"]
          /\ UNCHANGED <<content, last>>
    /\ UNCHANGED <<capturer, cam, cameras, application>>

\* MUTANT: break without free().
AbandonWithoutFree ==
    /\ ctl \in {"saveMetadata", "enqueued"} /\ stopped
    /\ newPC' = 0
    /\ ctl' = "exited"
    /\ UNCHANGED <<capturer, cam, cameras, application, clouds>>

\* if (stopped) { newPC->free(); break; }
AbandonNewCloud ==
    /\ ctl \in {"saveMetadata", "enqueued"} /\ stopped
    /\ where' = Freed(newPC)
    /\ newPC' = 0
    /\ ctl' = "exited"
    /\ UNCHANGED <<capturer, cam, cameras, application, made, content, last>>

\* process_pointcloud_from_frameset() for every camera: try_enqueue, and
\* when the queue is full the frame is dropped.
EnqueueFrames ==
    /\ ctl = "saveMetadata" /\ ~stopped
    /\ queue' = [c \in Cameras |-> IF queue[c] = 0 THEN newPC ELSE queue[c]]
    /\ ctl' = "enqueued"
    /\ UNCHANGED <<capturer, newPC, cam, application, clouds>>
    /\ UNCHANGED <<streaming, endOfStream, proc, work, current, done>>

GoOn ==
    /\ ctl = "enqueued" /\ ~stopped
    /\ ctl' = "lockMerged"
    /\ UNCHANGED <<capturer, newPC, cam, cameras, application, clouds>>

\* Take mergedPC_mutex, to keep it until the cloud is published, and install
\* newPC.  (Nothing else happens up to the next if (stopped) break.)
Install ==
    /\ ctl = "lockMerged" /\ lock = "nobody"
    /\ where' = IF mergedPC # 0 /\ fresh THEN Freed(mergedPC) ELSE where
    /\ mergedPC' = newPC
    /\ newPC' = 0
    /\ \/ stopped /\ ctl' = "exited" /\ UNCHANGED <<lock, cam>>
       \/ ~stopped /\ ctl' = "waitCamera" /\ lock' = "control" /\ cam' = 1
    /\ UNCHANGED <<stopped, eof, fresh, wantNew, playing>>
    /\ UNCHANGED <<cameras, application, made, content, last>>

\* MUTANT: the flag is not reset.
WaitWithoutReset ==
    /\ ctl = "waitCamera" /\ cam \in Cameras
    /\ cam \in done
    /\ cam' = cam + 1
    /\ UNCHANGED <<capturer, ctl, newPC, cameras, application, clouds>>

\* wait_for_pointcloud_processed().  The processing thread sets the flag and
\* notifies while it holds processing_mutex, so waiting is being disabled.
WaitForProcessed ==
    /\ ctl = "waitCamera" /\ cam \in Cameras
    /\ cam \in done
    /\ done' = done \ {cam}
    /\ cam' = cam + 1
    /\ UNCHANGED <<capturer, ctl, newPC, application, clouds>>
    /\ UNCHANGED <<streaming, endOfStream, queue, proc, work, current>>

\* All cameras are ready.  if (stopped) break releases the mutex.
CamerasReady ==
    /\ ctl = "waitCamera" /\ cam > NumCameras
    /\ \/ stopped /\ ctl' = "exited" /\ lock' = "nobody"
       \/ ~stopped /\ ctl' = "merge" /\ UNCHANGED lock
    /\ UNCHANGED <<stopped, eof, mergedPC, fresh, wantNew, playing>>
    /\ UNCHANGED <<newPC, cam, cameras, application, clouds>>

\* _merge_camera_pointclouds(), publish, release the mutex.
Merge ==
    /\ ctl = "merge"
    /\ content' = [content EXCEPT ![mergedPC] = current]
    /\ fresh' = TRUE
    /\ wantNew' = FALSE
    /\ cons' = GettersNotified
    /\ lock' = "nobody"
    /\ ctl' = "loop"
    /\ UNCHANGED <<stopped, eof, mergedPC, playing, newPC, cam, cameras>>
    /\ UNCHANGED <<main, freeing, starts, calls, made, where, last>>

Control ==
    \/ Loop \/ AwaitRequest \/ FallAsleep \/ CheckEof
    \/ CaptureAll \/ CaptureFails \/ CaptureHitsEof
    \/ NewCloud \/ AbandonNewCloud \/ EnqueueFrames \/ GoOn
    \/ Install \/ WaitForProcessed \/ CamerasReady \/ Merge

-----------------------------------------------------------------------------
(* The processing thread of camera c                                       *)

\* processing_frame_queue.wait_dequeue_timed() returns a frame.
Dequeue(c) ==
    /\ proc[c] = "dequeue" /\ queue[c] # 0 /\ c \notin endOfStream
    /\ work' = [work EXCEPT ![c] = queue[c]]
    /\ queue' = [queue EXCEPT ![c] = 0]
    /\ proc' = [proc EXCEPT ![c] = "generate"]
    /\ UNCHANGED <<capturer, control, application, clouds>>
    /\ UNCHANGED <<streaming, endOfStream, current, done>>

\* MUTANT: processing_done is not set.
GenerateUnannounced(c) ==
    /\ proc[c] = "generate"
    /\ current' = [current EXCEPT ![c] = work[c]]
    /\ work' = [work EXCEPT ![c] = 0]
    /\ proc' = [proc EXCEPT ![c] = "dequeue"]
    /\ UNCHANGED <<capturer, control, application, clouds>>
    /\ UNCHANGED <<streaming, endOfStream, queue, done>>

\* The frame becomes a point cloud and wait_for_pointcloud_processed() is told.
Generate(c) ==
    /\ proc[c] = "generate"
    /\ current' = [current EXCEPT ![c] = work[c]]
    /\ done' = done \cup {c}
    /\ work' = [work EXCEPT ![c] = 0]
    /\ proc' = [proc EXCEPT ![c] = "dequeue"]
    /\ UNCHANGED <<capturer, control, application, clouds>>
    /\ UNCHANGED <<streaming, endOfStream, queue>>

\* new_pointcloud == nullptr: nobody is told.
GenerateFails(c) ==
    /\ proc[c] = "generate" /\ "generate" \in Faults
    /\ work' = [work EXCEPT ![c] = 0]
    /\ proc' = [proc EXCEPT ![c] = "dequeue"]
    /\ UNCHANGED <<capturer, control, application, clouds>>
    /\ UNCHANGED <<streaming, endOfStream, queue, current, done>>

\* while (!camera_stopped), end_of_stream_reached, or the NULL that
\* stop_camera() puts into the queue.
ProcessingExits(c) ==
    /\ proc[c] = "dequeue" /\ (~streaming \/ c \in endOfStream)
    /\ proc' = [proc EXCEPT ![c] = "exited"]
    /\ UNCHANGED <<capturer, control, application, clouds>>
    /\ UNCHANGED <<streaming, endOfStream, queue, work, current, done>>

Processing(c) ==
    Dequeue(c) \/ Generate(c) \/ GenerateFails(c) \/ ProcessingExits(c)

-----------------------------------------------------------------------------
(* get_pointcloud() and pointcloud_available() in application thread t.    *)
(* When the capturer is not playing both return at once, and so does not    *)
(* change anything here.                                                   *)

Goto(t, place) == cons' = [cons EXCEPT ![t] = place]

Call(t) ==
    /\ cons[t] = "idle" /\ playing /\ ~freeing /\ calls < MaxCalls
    /\ calls' = calls + 1
    /\ Goto(t, "getRequest") \/ Goto(t, "availRequest")
    /\ UNCHANGED <<capturer, control, cameras, main, freeing, starts, clouds>>

\* _request_new_pointcloud(), at the beginning of both and at the end of get.
Request(t) ==
    /\ cons[t] \in {"getRequest", "availRequest", "getAgain"}
    /\ RequestNew
    /\ Goto(t, CASE cons[t] = "getRequest" -> "get"
                 [] cons[t] = "availRequest" -> "avail"
                 [] cons[t] = "getAgain" -> "idle")
    /\ UNCHANGED <<stopped, eof, mergedPC, fresh, lock, playing, newPC, cam>>
    /\ UNCHANGED <<cameras, main, freeing, starts, calls, clouds>>

\* MUTANT: mergedPC keeps pointing to the cloud that was handed out.
TakeKeepsPointer(t) ==
    /\ cons[t] = "get" /\ lock = "nobody" /\ fresh
    /\ fresh' = FALSE
    /\ where' = IF mergedPC # 0 THEN [where EXCEPT ![mergedPC] = "caller"] ELSE where
    /\ last' = IF mergedPC # 0 THEN mergedPC ELSE last
    /\ Goto(t, "getAgain")
    /\ UNCHANGED <<stopped, eof, mergedPC, wantNew, lock, playing, control, cameras>>
    /\ UNCHANGED <<main, freeing, starts, calls, made, content>>

\* mergedPC_is_fresh_cv.wait() takes the mutex and finds the predicate true:
\* mergedPC, which may be nullptr, is the caller's now.
Take(t) ==
    /\ cons[t] = "get" /\ lock = "nobody" /\ fresh
    /\ fresh' = FALSE
    /\ mergedPC' = 0
    /\ where' = IF mergedPC # 0 THEN [where EXCEPT ![mergedPC] = "caller"] ELSE where
    /\ last' = IF mergedPC # 0 THEN mergedPC ELSE last
    /\ Goto(t, "getAgain")
    /\ UNCHANGED <<stopped, eof, wantNew, lock, playing, control, cameras>>
    /\ UNCHANGED <<main, freeing, starts, calls, made, content>>

\* It finds it false: prepare to sleep, then give up the mutex.
TestFails(t) ==
    /\ cons[t] \in {"get", "avail"} /\ lock = "nobody" /\ ~fresh
    /\ lock' = t
    /\ Goto(t, IF cons[t] = "get" THEN "getFallAsleep" ELSE "availFallAsleep")
    /\ UNCHANGED <<stopped, eof, mergedPC, fresh, wantNew, playing>>
    /\ UNCHANGED <<control, cameras, main, freeing, starts, calls, clouds>>

GetterSleeps(t) ==
    /\ cons[t] \in {"getFallAsleep", "availFallAsleep"}
    /\ lock' = "nobody"
    /\ Goto(t, IF cons[t] = "getFallAsleep" THEN "getAsleep" ELSE "availAsleep")
    /\ UNCHANGED <<stopped, eof, mergedPC, fresh, wantNew, playing>>
    /\ UNCHANGED <<control, cameras, main, freeing, starts, calls, clouds>>

\* available() returns true, or (after at most a second) what fresh is then.
AvailableReturns(t) ==
    /\ \/ cons[t] = "avail" /\ lock = "nobody" /\ fresh
       \/ cons[t] = "availFallAsleep"
       \/ cons[t] = "availAsleep" /\ lock = "nobody"
    /\ lock' = "nobody"
    /\ Goto(t, "idle")
    /\ UNCHANGED <<stopped, eof, mergedPC, fresh, wantNew, playing>>
    /\ UNCHANGED <<control, cameras, main, freeing, starts, calls, clouds>>

InCall(t) ==
    \/ Request(t) \/ Take(t) \/ TestFails(t) \/ GetterSleeps(t)
    \/ AvailableReturns(t)

Consumer(t) == Call(t) \/ InCall(t)

-----------------------------------------------------------------------------
(* start(), stop() and the destructor, called by the owner of the capturer *)

Owner(place) == main' = place

\* start() returns true.  What _start_cameras() returns is not looked at, so
\* a camera that refuses leaves all of them without threads.
Start ==
    /\ main = "idle" /\ ~playing /\ ~freeing /\ starts < MaxStarts
    /\ starts' = starts + 1
    /\ \/ streaming' = TRUE
       \/ "start" \in Faults /\ streaming' = FALSE
    /\ proc' = [c \in Cameras |-> IF streaming' THEN "dequeue" ELSE "off"]
    /\ stopped' = FALSE
    /\ playing' = TRUE
    /\ ctl' = "loop"
    /\ UNCHANGED <<eof, mergedPC, fresh, wantNew, lock, newPC, cam>>
    /\ UNCHANGED <<endOfStream, queue, work, current, done>>
    /\ UNCHANGED <<cons, main, freeing, calls, clouds>>

\* start() returns false: cameras were created but not all are connected.
StartAborts ==
    /\ main = "idle" /\ ~playing /\ ~freeing /\ starts < MaxStarts
    /\ "start" \in Faults
    /\ starts' = starts + 1
    /\ Owner("stopping")
    /\ UNCHANGED <<capturer, control, cameras, cons, freeing, calls, clouds>>

Stop ==
    /\ main = "idle" /\ playing
    /\ Owner("stopping")
    /\ UNCHANGED <<capturer, control, cameras, cons, freeing, starts, calls, clouds>>

\* The destructor.  No application thread is inside the capturer any more.
Free ==
    /\ main = "idle" /\ ~freeing
    /\ \A t \in Consumers : cons[t] = "idle"
    /\ freeing' = TRUE
    /\ Owner(IF playing THEN "stopping" ELSE "destroy")
    /\ UNCHANGED <<capturer, control, cameras, cons, starts, calls, clouds>>

\* _stop_cameras(), up to the join without the mutex.
StopSetsStopped ==
    /\ main = "stopping"
    /\ stopped' = TRUE
    /\ Owner("releaseGetters")
    /\ UNCHANGED <<eof, mergedPC, fresh, wantNew, lock, playing, control>>
    /\ UNCHANGED <<cameras, cons, freeing, starts, calls, clouds>>

StopReleasesGetters ==
    /\ main = "releaseGetters"
    /\ fresh' = TRUE
    /\ wantNew' = FALSE
    /\ cons' = GettersNotified
    /\ Owner("releaseControl")
    /\ UNCHANGED <<stopped, eof, mergedPC, lock, playing, control>>
    /\ UNCHANGED <<cameras, freeing, starts, calls, clouds>>

StopReleasesControl ==
    /\ main = "releaseControl"
    /\ wantNew' = TRUE
    /\ ctl' = ControlNotified
    /\ Owner("join")
    /\ UNCHANGED <<stopped, eof, mergedPC, fresh, lock, playing, newPC, cam>>
    /\ UNCHANGED <<cameras, cons, freeing, starts, calls, clouds>>

\* control_thread->join(); control_thread = nullptr
StopJoinsControl ==
    /\ main = "join" /\ (ctl = "exited" \/ ~playing)
    /\ ctl' = "off"
    /\ playing' = FALSE
    /\ Owner("stopCameras")
    /\ UNCHANGED <<stopped, eof, mergedPC, fresh, wantNew, lock, newPC, cam>>
    /\ UNCHANGED <<cameras, cons, freeing, starts, calls, clouds>>

\* K4ACamera::stop_camera() for every camera: camera_stopped = true ...
StopStopsCameras ==
    /\ main = "stopCameras"
    /\ streaming' = FALSE
    /\ Owner("joinCameras")
    /\ UNCHANGED <<capturer, control, cons, freeing, starts, calls, clouds>>
    /\ UNCHANGED <<endOfStream, queue, proc, work, current, done>>

\* ... join their threads; the flags are reset and the cameras are deleted.
StopFinishes ==
    /\ main = "joinCameras"
    /\ \A c \in Cameras : proc[c] \in {"off", "exited"}
    /\ fresh' = FALSE
    /\ wantNew' = FALSE
    /\ endOfStream' = {}
    /\ queue' = NoPoints /\ work' = NoPoints
    /\ current' = NoPoints /\ done' = {}
    /\ proc' = [c \in Cameras |-> "off"]
    /\ Owner(IF freeing THEN "destroy" ELSE "idle")
    /\ UNCHANGED <<stopped, eof, mergedPC, lock, playing, control, streaming>>
    /\ UNCHANGED <<cons, freeing, starts, calls, clouds>>

\* ~K4ABaseCapture(), after _unload_cameras()
Destroy ==
    /\ main = "destroy"
    /\ where' = IF mergedPC # 0 THEN Freed(mergedPC) ELSE where
    /\ mergedPC' = 0
    /\ Owner("gone")
    /\ UNCHANGED <<stopped, eof, fresh, wantNew, lock, playing, control, cameras>>
    /\ UNCHANGED <<cons, freeing, starts, calls, made, content, last>>

Stopping ==
    \/ StopSetsStopped \/ StopReleasesGetters \/ StopReleasesControl
    \/ StopJoinsControl \/ StopStopsCameras \/ StopFinishes \/ Destroy

-----------------------------------------------------------------------------
\* A condition variable may return without having been notified.
SpuriousWakeup ==
    /\ \/ ctl = "asleep" /\ ctl' = "awaitRequest" /\ UNCHANGED cons
       \/ \E t \in Consumers :
            /\ cons[t] \in {"getAsleep", "availAsleep"}
            /\ Goto(t, IF cons[t] = "getAsleep" THEN "get" ELSE "avail")
            /\ UNCHANGED ctl
    /\ UNCHANGED <<capturer, newPC, cam, cameras, main, freeing, starts, calls, clouds>>

Next ==
    \/ Control
    \/ \E c \in Cameras : Processing(c)
    \/ \E t \in Consumers : Consumer(t)
    \/ Start \/ StartAborts \/ Stop \/ Free \/ Stopping
    \/ SpuriousWakeup

Spec == Init /\ [][Next]_vars

(* Fairness.  Every thread runs on, and a mutex that is released again and *)
(* again is some time granted to whoever waits for it (SF).  A camera that *)
(* times out now and then delivers frames in between (SF of CaptureAll).   *)
(* Nothing makes the application call anything, or a wakeup spurious.      *)
LiveSpec ==
    /\ Spec
    /\ SF_vars(Control) /\ SF_vars(CaptureAll)
    /\ \A c \in Cameras : WF_vars(Processing(c))
    /\ \A t \in Consumers : SF_vars(InCall(t))
    /\ WF_vars(Stopping)

-----------------------------------------------------------------------------
(* Safety                                                                  *)

FlagsTypeOK ==
    /\ stopped \in BOOLEAN /\ eof \in BOOLEAN /\ fresh \in BOOLEAN
    /\ wantNew \in BOOLEAN /\ playing \in BOOLEAN
    /\ streaming \in BOOLEAN /\ freeing \in BOOLEAN

CapturerTypeOK ==
    /\ mergedPC \in 0 .. MaxClouds
    /\ lock \in {"nobody", "control"} \cup Consumers

ControlTypeOK ==
    /\ ctl \in {"off", "loop", "awaitRequest", "fallAsleep", "asleep", "checkEof",
                "capture", "captured", "saveMetadata", "enqueued", "lockMerged",
                "waitCamera", "merge", "exited"}
    /\ newPC \in 0 .. MaxClouds
    /\ cam \in 1 .. NumCameras + 1

CamerasTypeOK ==
    /\ endOfStream \subseteq Cameras /\ done \subseteq Cameras
    /\ queue \in [Cameras -> 0 .. MaxClouds]
    /\ work \in [Cameras -> 0 .. MaxClouds]
    /\ current \in [Cameras -> 0 .. MaxClouds]
    /\ proc \in [Cameras -> {"off", "dequeue", "generate", "exited"}]

ApplicationTypeOK ==
    /\ cons \in [Consumers -> {"idle", "getRequest", "get", "getFallAsleep",
                               "getAsleep", "getAgain", "availRequest", "avail",
                               "availFallAsleep", "availAsleep"}]
    /\ main \in {"idle", "stopping", "releaseGetters", "releaseControl", "join",
                 "stopCameras", "joinCameras", "destroy", "gone"}
    /\ starts \in 0 .. MaxStarts /\ calls \in 0 .. MaxCalls

CloudsTypeOK ==
    /\ made \in 0 .. MaxClouds /\ last \in 0 .. MaxClouds
    /\ where \in [Clouds -> {"unmade", "source", "caller", "freed"}]
    /\ content \in [Clouds -> [Cameras -> 0 .. MaxClouds]]

TypeOK ==
    /\ FlagsTypeOK /\ CapturerTypeOK /\ ControlTypeOK
    /\ CamerasTypeOK /\ ApplicationTypeOK /\ CloudsTypeOK

\* The clouds the object points to are its own and are newer than every
\* cloud it has handed out, and a cloud being made is newer than the one
\* that is published.  So get_pointcloud() can neither hand out a cloud that
\* was freed or handed out before nor go back in time.
CloudOwnership ==
    /\ last <= made
    /\ \A i \in Clouds : where[i] = "unmade" <=> i > made
    /\ mergedPC # 0 =>
        last < mergedPC /\ mergedPC <= made /\ where[mergedPC] = "source"
    /\ newPC # 0 =>
        last < newPC /\ newPC = made /\ where[newPC] = "source" /\ mergedPC < newPC

\* A cloud that get_pointcloud() may take has the points of its own capture
\* from every camera: the control thread has waited for all the processing
\* threads, and none of their flags was left over from an earlier cloud.
FreshIsComplete == fresh /\ ~stopped => mergedPC # 0 /\ Complete(mergedPC)

\* Outside stop() no wakeup is lost: no getter sleeps on a fresh cloud, and
\* the control thread does not sleep on a request.
NoWakeupLost ==
    ~stopped =>
        /\ fresh => \A t \in Consumers : cons[t] \notin {"getFallAsleep", "getAsleep"}
        /\ wantNew => ctl \notin {"fallAsleep", "asleep"}

\* The capturer does not lose track of a cloud while it is started once: each
\* cloud it owns is one it still points to, so the destructor frees the last.
\* (After a restart it may: stop() makes an unread cloud look read, and the
\* control thread then drops it without freeing it.)
NoLeakBeforeRestart ==
    starts <= 1 => \A i \in Clouds : where[i] = "source" => i \in {newPC, mergedPC}

\* An unread cloud is never overwritten or freed while the capturer runs: it
\* stays until the application takes it.
UnreadIsKept ==
    fresh /\ ~stopped /\ mergedPC # 0 =>
        \/ mergedPC' = mergedPC /\ where'[mergedPC] = "source"
        \/ where'[mergedPC] = "caller" /\ last' = mergedPC
NoUnreadOverwritten == [][UnreadIsKept]_vars

\* eof() becomes true only when no cloud is waiting to be read, so that
\* "while not eof(): get()" does not lose the last cloud of a recording.
EofWhenDrained == ~eof /\ eof' => ~fresh \/ stopped
NoCloudBehindEof == [][EofWhenDrained]_vars

\* The capturer, all threads together, is a source of clouds.
Source == INSTANCE CloudSource WITH
    where <- where, last <- last, MaxClouds <- MaxClouds
ImplementsSource == Source!Spec

-----------------------------------------------------------------------------
(* Liveness, under LiveSpec                                                *)

\* A thread in get_pointcloud() gets an answer, unless the capturer stops,
\* also when others call get_pointcloud() and pointcloud_available() too and
\* take the cloud it was woken up for.
GetReturns ==
    \A t \in Consumers : cons[t] = "getRequest" ~> cons[t] = "idle" \/ stopped

\* stop() and the destructor return, unless the control thread was between
\* its test and its sleep when they notified it.
StopReturnsIfHeard ==
    main = "stopping" ~>
        main \in {"idle", "gone"} \/ (main = "join" /\ ctl = "asleep")

\* stop() and the destructor return.
StopReturns == main = "stopping" ~> main \in {"idle", "gone"}
=============================================================================

----------------------------- MODULE RS2Capture -----------------------------
(***************************************************************************)
(* The RealSense capturer: cwipc_realsense2/src/RS2BaseCapture.hpp and the  *)
(* part of RS2BaseCamera.cpp it drives.  The threads are those of          *)
(* K4ACapture, and so are most of their steps.  What differs, and matters: *)
(*   - get_pointcloud() leaves mergedPC pointing to the cloud it returns;  *)
(*   - stop() stops the cameras first, while the control thread still runs,*)
(*     and releases a control thread that waits for a camera by setting    *)
(*     processing_done, without the mutex of that flag;                    *)
(*   - stop() leaves mergedPC_is_fresh and mergedPC_want_new true;         *)
(*   - processing_done has no initial value;                               *)
(*   - every error of the pipeline, a timeout too, ends the stream.        *)
(*                                                                         *)
(* Here the mutexes are not variables of their own: a thread that holds    *)
(* one across a step is in a place that says so, see MergedFree.           *)
(***************************************************************************)
EXTENDS Naturals, FiniteSets

CONSTANTS
    NumCameras,         \* cameras in the configuration
    Consumers,          \* application threads calling get() and available()
    MaxClouds,          \* bound: clouds made in a behaviour
    MaxStarts,          \* bound: calls of start()
    MaxStops,           \* bound: calls of stop() and the destructor
    MaxCalls,           \* bound: calls of get() and available() together
    DoneAtCreation      \* what processing_done may be in a new camera: sets
                        \* of cameras that find it true

Cameras == 1 .. NumCameras
Clouds == 1 .. MaxClouds

ASSUME RS2Assumption ==
    /\ NumCameras \in Nat \ {0}
    /\ MaxClouds \in Nat /\ MaxStarts \in Nat /\ MaxStops \in Nat /\ MaxCalls \in Nat
    /\ DoneAtCreation # {} /\ DoneAtCreation \subseteq SUBSET Cameras

VARIABLES
    stopped, stopping, eof,     \* the Booleans of those names
    mergedPC, fresh, wantNew,   \* as in K4ACapture
    ctl, newPC, cam,            \* the control thread
    running,                    \* !camera_stopped
    endOfStream,                \* cameras whose end_of_stream_reached is true
    queue,                      \* processing_frame_queue, keeps the newest
    alive,                      \* cameras with a running processing thread
    work,                       \* the frame it is processing, 0 if none
    current,                    \* current_pcl_pointcloud, by capture number
    done,                       \* cameras whose processing_done is true
    cons, main, freeing,        \* the application
    starts, stops, calls,       \* counts, for the bounds
    made, where, content, last  \* history, as in K4ACapture

slot == <<mergedPC, fresh, wantNew>>
control == <<ctl, newPC, cam>>
frames == <<queue, alive, work, current, done>>
cameras == <<running, endOfStream, frames>>
owner == <<main, freeing, starts, stops>>
clouds == <<made, where, content, last>>
vars == <<stopped, stopping, eof, slot, control, cameras, cons, owner, calls, clouds>>

NoPoints == [c \in Cameras |-> 0]
Complete(i) == content[i] = [c \in Cameras |-> i]

Init ==
    /\ stopped = FALSE /\ stopping = FALSE /\ eof = FALSE
    /\ mergedPC = 0 /\ fresh = FALSE /\ wantNew = FALSE
    /\ ctl = "off" /\ newPC = 0 /\ cam = 1
    /\ running = FALSE /\ endOfStream = {} /\ alive = {} /\ done = {}
    /\ queue = NoPoints /\ work = NoPoints /\ current = NoPoints
    /\ cons = [t \in Consumers |-> "idle"]
    /\ main = "idle" /\ freeing = FALSE
    /\ starts = 0 /\ stops = 0 /\ calls = 0
    /\ made = 0 /\ where = [i \in Clouds |-> "unmade"]
    /\ content = [i \in Clouds |-> NoPoints] /\ last = 0

-----------------------------------------------------------------------------
\* is_playing()
Playing == ctl # "off"

\* Nobody holds mergedPC_mutex: the control thread holds it while it falls
\* asleep on a request, and from installing a cloud to publishing it.
MergedFree ==
    /\ ctl \notin {"fallAsleep", "waitCamera", "waitFallAsleep", "waitAsleep"}
    /\ \A t \in Consumers : cons[t] \notin {"getFallAsleep", "availFallAsleep"}

\* The control thread does not hold processing_mutex of camera c.
ProcessingFree(c) == ~(ctl = "waitFallAsleep" /\ cam = c)

ControlNotified == IF ctl = "asleep" THEN "awaitRequest" ELSE ctl

\* MUTANT: notify_one(), which may wake an available() that takes nothing.
OneGetterNotified ==
    LET asleep == {t \in Consumers : cons[t] \in {"getAsleep", "availAsleep"}}
    IN  IF asleep = {} THEN cons
        ELSE [cons EXCEPT ![CHOOSE t \in asleep : TRUE] =
                IF @ = "getAsleep" THEN "get" ELSE "avail"]

\* mergedPC_is_fresh_cv.notify_all()
GettersNotified ==
    [t \in Consumers |->
        CASE cons[t] = "getAsleep" -> "get"
          [] cons[t] = "availAsleep" -> "avail"
          [] OTHER -> cons[t]]

\* What becomes of a cloud that the capturer frees, or hands out.  One that
\* is not the capturer's any more goes astray: the application or the heap
\* has it already.
Given(i, to) ==
    [where EXCEPT ![i] = IF where[i] = "source" THEN to ELSE "astray"]

-----------------------------------------------------------------------------
(* The control thread                                                      *)

\* while (!stopped && !stopping)
Loop ==
    /\ ctl = "loop"
    /\ ctl' = IF stopped \/ stopping THEN "exited" ELSE "awaitRequest"
    /\ UNCHANGED <<stopped, stopping, eof, slot, newPC, cam, cameras>>
    /\ UNCHANGED <<cons, owner, calls, clouds>>

AwaitRequest ==
    /\ \/ ctl = "awaitRequest" /\ MergedFree
          /\ ctl' = IF wantNew THEN "checkEof" ELSE "fallAsleep"
       \/ ctl = "fallAsleep" /\ ctl' = "asleep"
    /\ UNCHANGED <<stopped, stopping, eof, slot, newPC, cam, cameras>>
    /\ UNCHANGED <<cons, owner, calls, clouds>>

CheckEof ==
    /\ ctl = "checkEof"
    /\ eof' = (eof \/ endOfStream # {})
    /\ stopped' = (stopped \/ endOfStream # {})
    /\ ctl' = IF stopped' THEN "exited" ELSE "capture"
    /\ UNCHANGED <<stopping, slot, newPC, cam, cameras, cons, owner, calls, clouds>>

CaptureAll ==
    /\ ctl = "capture" /\ running /\ endOfStream = {} /\ made < MaxClouds
    /\ ctl' = "captured"
    /\ UNCHANGED <<stopped, stopping, eof, slot, newPC, cam, cameras>>
    /\ UNCHANGED <<cons, owner, calls, clouds>>

\* camera_stopped, or a frameset without a depth frame.
CaptureFails ==
    /\ ctl = "capture"
    /\ ctl' = "loop"
    /\ UNCHANGED <<stopped, stopping, eof, slot, newPC, cam, cameras>>
    /\ UNCHANGED <<cons, owner, calls, clouds>>

\* MUTANT: the cameras are counted from 0.
StreamOfCameraZeroEnds ==
    /\ ctl = "capture" /\ running
    /\ \E c \in 0 .. NumCameras - 1 : endOfStream' = endOfStream \cup {c}
    /\ ctl' = "loop"
    /\ UNCHANGED <<stopped, stopping, eof, slot, newPC, cam, running, frames>>
    /\ UNCHANGED <<cons, owner, calls, clouds>>

\* _wait_for_frames_from_pipeline() throws, for a timeout as for the end of
\* a recording.
StreamEnds ==
    /\ ctl = "capture" /\ running
    /\ \E c \in Cameras : endOfStream' = endOfStream \cup {c}
    /\ ctl' = "loop"
    /\ UNCHANGED <<stopped, stopping, eof, slot, newPC, cam, running, frames>>
    /\ UNCHANGED <<cons, owner, calls, clouds>>

NewCloud ==
    /\ ctl = "captured"
    /\ \/ /\ stopped
          /\ ctl' = "exited"
          /\ UNCHANGED <<newPC, clouds>>
       \/ /\ ~stopped
          /\ ctl' = "saveMetadata"
          /\ made' = made + 1
          /\ newPC' = made + 1
          /\ where' = [where EXCEPT ![made + 1] = "source"]
          /\ UNCHANGED <<content, last>>
    /\ UNCHANGED <<stopped, stopping, eof, slot, cam, cameras, cons, owner, calls>>

AbandonNewCloud ==
    /\ ctl \in {"saveMetadata", "enqueued"} /\ stopped
    /\ where' = Given(newPC, "freed")
    /\ newPC' = 0
    /\ ctl' = "exited"
    /\ UNCHANGED <<stopped, stopping, eof, slot, cam, cameras, cons, owner, calls>>
    /\ UNCHANGED <<made, content, last>>

\* The frame queues are rs2::frame_queue(1): a frame that was not processed
\* yet makes place for the new one.
EnqueueFrames ==
    /\ ctl = "saveMetadata" /\ ~stopped
    /\ queue' = [c \in Cameras |-> newPC]
    /\ ctl' = "enqueued"
    /\ UNCHANGED <<stopped, stopping, eof, slot, newPC, cam, running, endOfStream>>
    /\ UNCHANGED <<alive, work, current, done, cons, owner, calls, clouds>>

GoOn ==
    /\ ctl = "enqueued" /\ ~stopped
    /\ ctl' = "lockMerged"
    /\ UNCHANGED <<stopped, stopping, eof, slot, newPC, cam, cameras>>
    /\ UNCHANGED <<cons, owner, calls, clouds>>

Install ==
    /\ ctl = "lockMerged" /\ MergedFree
    /\ where' = IF mergedPC # 0 /\ fresh THEN Given(mergedPC, "freed") ELSE where
    /\ mergedPC' = newPC
    /\ newPC' = 0
    /\ cam' = 1
    /\ ctl' = IF stopped THEN "exited" ELSE "waitCamera"
    /\ UNCHANGED <<stopped, stopping, eof, fresh, wantNew, cameras>>
    /\ UNCHANGED <<cons, owner, calls, made, content, last>>

\* MUTANT: the flag is not reset.
WaitWithoutReset ==
    /\ ctl = "waitCamera" /\ cam \in Cameras /\ work[cam] = 0 /\ cam \in done
    /\ cam' = cam + 1
    /\ UNCHANGED <<stopped, stopping, eof, slot, ctl, newPC, cameras>>
    /\ UNCHANGED <<cons, owner, calls, clouds>>

\* wait_for_pointcloud_processed(): take processing_mutex, which the
\* processing thread holds while it works, and find the flag true ...
WaitForProcessed ==
    /\ ctl = "waitCamera" /\ cam \in Cameras /\ work[cam] = 0 /\ cam \in done
    /\ done' = done \ {cam}
    /\ cam' = cam + 1
    /\ UNCHANGED <<stopped, stopping, eof, slot, ctl, newPC, running, endOfStream>>
    /\ UNCHANGED <<queue, alive, work, current, cons, owner, calls, clouds>>

\* ... or false, and sleep, with a test and a sleep that stop() can get between.
WaitSleeps ==
    /\ \/ /\ ctl = "waitCamera" /\ cam \in Cameras /\ work[cam] = 0 /\ cam \notin done
          /\ ctl' = "waitFallAsleep"
       \/ ctl = "waitFallAsleep" /\ ctl' = "waitAsleep"
    /\ UNCHANGED <<stopped, stopping, eof, slot, newPC, cam, cameras>>
    /\ UNCHANGED <<cons, owner, calls, clouds>>

\* _merge_camera_pointclouds() and publish, whatever stopped is.
Merge ==
    /\ ctl = "waitCamera" /\ cam > NumCameras
    /\ content' = [content EXCEPT ![mergedPC] = current]
    /\ fresh' = TRUE
    /\ wantNew' = FALSE
    /\ cons' = GettersNotified
    /\ ctl' = "loop"
    /\ UNCHANGED <<stopped, stopping, eof, mergedPC, newPC, cam, cameras>>
    /\ UNCHANGED <<owner, calls, made, where, last>>

Control ==
    \/ Loop \/ AwaitRequest \/ CheckEof \/ CaptureAll \/ CaptureFails \/ StreamEnds
    \/ NewCloud \/ AbandonNewCloud \/ EnqueueFrames \/ GoOn \/ Install
    \/ WaitForProcessed \/ WaitSleeps \/ Merge

-----------------------------------------------------------------------------
(* The processing thread of camera c                                       *)

Dequeue(c) ==
    /\ c \in alive /\ work[c] = 0 /\ queue[c] # 0 /\ c \notin endOfStream
    /\ ProcessingFree(c)
    /\ work' = [work EXCEPT ![c] = queue[c]]
    /\ queue' = [queue EXCEPT ![c] = 0]
    /\ UNCHANGED <<stopped, stopping, eof, slot, control, running, endOfStream>>
    /\ UNCHANGED <<alive, current, done, cons, owner, calls, clouds>>

Generate(c) ==
    /\ work[c] # 0
    /\ current' = [current EXCEPT ![c] = work[c]]
    /\ work' = [work EXCEPT ![c] = 0]
    /\ done' = done \cup {c}
    /\ ctl' = IF ctl = "waitAsleep" /\ cam = c THEN "waitCamera" ELSE ctl
    /\ UNCHANGED <<stopped, stopping, eof, slot, newPC, cam, running, endOfStream>>
    /\ UNCHANGED <<queue, alive, cons, owner, calls, clouds>>

ProcessingExits(c) ==
    /\ c \in alive /\ work[c] = 0
    /\ ~running \/ c \in endOfStream
    /\ alive' = alive \ {c}
    /\ UNCHANGED <<stopped, stopping, eof, slot, control, running, endOfStream>>
    /\ UNCHANGED <<queue, work, current, done, cons, owner, calls, clouds>>

Processing(c) == Dequeue(c) \/ Generate(c) \/ ProcessingExits(c)

-----------------------------------------------------------------------------
(* get_pointcloud() and pointcloud_available() in application thread t     *)

Goto(t, place) == cons' = [cons EXCEPT ![t] = place]

Call(t) ==
    /\ cons[t] = "idle" /\ Playing /\ ~freeing /\ calls < MaxCalls
    /\ calls' = calls + 1
    /\ Goto(t, "getRequest") \/ Goto(t, "availRequest")
    /\ UNCHANGED <<stopped, stopping, eof, slot, control, cameras, owner, clouds>>

\* MUTANT: a request is made also while a cloud is waiting to be read.
RequestRegardless(t) ==
    /\ cons[t] \in {"getRequest", "availRequest", "getAgain"} /\ MergedFree
    /\ wantNew' = TRUE
    /\ ctl' = ControlNotified
    /\ Goto(t, CASE cons[t] = "getRequest" -> "get"
                 [] cons[t] = "availRequest" -> "avail"
                 [] cons[t] = "getAgain" -> "idle")
    /\ UNCHANGED <<stopped, stopping, eof, mergedPC, fresh, newPC, cam, cameras>>
    /\ UNCHANGED <<owner, calls, clouds>>

\* _request_new_pointcloud()
Request(t) ==
    /\ cons[t] \in {"getRequest", "availRequest", "getAgain"} /\ MergedFree
    /\ wantNew' = (wantNew \/ ~fresh)
    /\ ctl' = IF wantNew' # wantNew THEN ControlNotified ELSE ctl
    /\ Goto(t, CASE cons[t] = "getRequest" -> "get"
                 [] cons[t] = "availRequest" -> "avail"
                 [] cons[t] = "getAgain" -> "idle")
    /\ UNCHANGED <<stopped, stopping, eof, mergedPC, fresh, newPC, cam, cameras>>
    /\ UNCHANGED <<owner, calls, clouds>>

\* MUTANT: mergedPC_is_fresh stays true.
TakeStaysFresh(t) ==
    /\ cons[t] = "get" /\ MergedFree /\ fresh
    /\ where' = IF mergedPC # 0 THEN Given(mergedPC, "caller") ELSE where
    /\ last' = IF mergedPC # 0 THEN mergedPC ELSE last
    /\ Goto(t, "getAgain")
    /\ UNCHANGED <<stopped, stopping, eof, slot, control, cameras>>
    /\ UNCHANGED <<owner, calls, made, content>>

\* mergedPC is the caller's now, and stays in mergedPC.
Take(t) ==
    /\ cons[t] = "get" /\ MergedFree /\ fresh
    /\ fresh' = FALSE
    /\ where' = IF mergedPC # 0 THEN Given(mergedPC, "caller") ELSE where
    /\ last' = IF mergedPC # 0 THEN mergedPC ELSE last
    /\ Goto(t, "getAgain")
    /\ UNCHANGED <<stopped, stopping, eof, mergedPC, wantNew, control, cameras>>
    /\ UNCHANGED <<owner, calls, made, content>>

GetterSleeps(t) ==
    /\ \/ cons[t] = "get" /\ MergedFree /\ ~fresh /\ Goto(t, "getFallAsleep")
       \/ cons[t] = "avail" /\ MergedFree /\ ~fresh /\ Goto(t, "availFallAsleep")
       \/ cons[t] = "getFallAsleep" /\ Goto(t, "getAsleep")
       \/ cons[t] = "availFallAsleep" /\ Goto(t, "availAsleep")
    /\ UNCHANGED <<stopped, stopping, eof, slot, control, cameras>>
    /\ UNCHANGED <<owner, calls, clouds>>

AvailableReturns(t) ==
    /\ \/ cons[t] = "avail" /\ MergedFree /\ fresh
       \/ cons[t] = "availFallAsleep"
       \/ cons[t] = "availAsleep" /\ MergedFree
    /\ Goto(t, "idle")
    /\ UNCHANGED <<stopped, stopping, eof, slot, control, cameras>>
    /\ UNCHANGED <<owner, calls, clouds>>

InCall(t) == Request(t) \/ Take(t) \/ GetterSleeps(t) \/ AvailableReturns(t)
Consumer(t) == Call(t) \/ InCall(t)

-----------------------------------------------------------------------------
(* start(), stop() and the destructor                                      *)

\* New cameras.  start() does not look at what _start_cameras() returns:
\* it may have failed, and then no camera has a processing thread.
Start ==
    /\ main = "idle" /\ ~Playing /\ ~freeing /\ starts < MaxStarts
    /\ starts' = starts + 1
    /\ stopped' = FALSE /\ stopping' = FALSE
    /\ \/ running' = TRUE /\ alive' = Cameras
       \/ running' = FALSE /\ alive' = {}
    /\ done' \in DoneAtCreation
    /\ ctl' = "loop"
    /\ UNCHANGED <<eof, slot, newPC, cam, endOfStream, queue, work, current>>
    /\ UNCHANGED <<cons, main, freeing, stops, calls, clouds>>

\* MUTANT: camera_stopped is not set.
StopLeavesCamerasRunning ==
    /\ main = "idle" /\ ~freeing /\ stops < MaxStops
    /\ stops' = stops + 1
    /\ \/ UNCHANGED freeing
       \/ freeing' = TRUE /\ \A t \in Consumers : cons[t] = "idle"
    /\ stopping' = TRUE
    /\ main' = "drain"
    /\ UNCHANGED <<stopped, eof, slot, control, running, endOfStream, frames>>
    /\ UNCHANGED <<cons, starts, calls, clouds>>

\* stop(), playing or not, a start() that fails half-way (which makes the
\* same calls), and the destructor, which no thread may be inside of.
Stop ==
    /\ main = "idle" /\ ~freeing /\ stops < MaxStops
    /\ stops' = stops + 1
    /\ \/ UNCHANGED freeing
       \/ freeing' = TRUE /\ \A t \in Consumers : cons[t] = "idle"
    /\ stopping' = TRUE
    /\ running' = FALSE
    /\ main' = "drain"
    /\ UNCHANGED <<stopped, eof, slot, control, endOfStream, frames>>
    /\ UNCHANGED <<cons, starts, calls, clouds>>

\* RS2BaseCamera::stop_camera() of every camera: empty the queue ...
StopDrains ==
    /\ main = "drain"
    /\ queue' = NoPoints
    /\ main' = "joinCameras"
    /\ UNCHANGED <<stopped, stopping, eof, slot, control, running, endOfStream>>
    /\ UNCHANGED <<alive, work, current, done, cons, freeing, starts, stops, calls, clouds>>

\* ... join the thread, set processing_done and notify, without the mutex.
StopJoinsProcessing ==
    /\ main = "joinCameras" /\ alive = {}
    /\ done' = Cameras
    /\ ctl' = IF ctl = "waitAsleep" THEN "waitCamera" ELSE ctl
    /\ main' = "stopControl"
    /\ UNCHANGED <<stopped, stopping, eof, slot, newPC, cam, running, endOfStream>>
    /\ UNCHANGED <<queue, alive, work, current, cons, freeing, starts, stops, calls, clouds>>

StopSetsStopped ==
    /\ main = "stopControl"
    /\ stopped' = TRUE
    /\ main' = "releaseGetters"
    /\ UNCHANGED <<stopping, eof, slot, control, cameras>>
    /\ UNCHANGED <<cons, freeing, starts, stops, calls, clouds>>

StopReleasesGetters ==
    /\ main = "releaseGetters"
    /\ fresh' = TRUE
    /\ wantNew' = FALSE
    /\ cons' = GettersNotified
    /\ main' = "releaseControl"
    /\ UNCHANGED <<stopped, stopping, eof, mergedPC, control, cameras>>
    /\ UNCHANGED <<freeing, starts, stops, calls, clouds>>

StopReleasesControl ==
    /\ main = "releaseControl"
    /\ wantNew' = TRUE
    /\ ctl' = ControlNotified
    /\ main' = "join"
    /\ UNCHANGED <<stopped, stopping, eof, mergedPC, fresh, newPC, cam, cameras>>
    /\ UNCHANGED <<cons, freeing, starts, stops, calls, clouds>>

\* Join the control thread, delete the cameras.
StopJoinsControl ==
    /\ main = "join" /\ ctl \in {"exited", "off"}
    /\ ctl' = "off"
    /\ endOfStream' = {} /\ done' = {}
    /\ queue' = NoPoints /\ work' = NoPoints /\ current' = NoPoints
    /\ main' = IF freeing THEN "destroy" ELSE "idle"
    /\ UNCHANGED <<stopped, stopping, eof, slot, newPC, cam, running, alive>>
    /\ UNCHANGED <<cons, freeing, starts, stops, calls, clouds>>

\* ~RS2BaseCapture(), after _unload_cameras()
Destroy ==
    /\ main = "destroy"
    /\ where' = IF mergedPC # 0 THEN Given(mergedPC, "freed") ELSE where
    /\ mergedPC' = 0
    /\ main' = "gone"
    /\ UNCHANGED <<stopped, stopping, eof, fresh, wantNew, control, cameras>>
    /\ UNCHANGED <<cons, freeing, starts, stops, calls, made, content, last>>

Stopping ==
    \/ StopDrains \/ StopJoinsProcessing \/ StopSetsStopped \/ StopReleasesGetters
    \/ StopReleasesControl \/ StopJoinsControl \/ Destroy

SpuriousWakeup ==
    /\ \/ ctl = "asleep" /\ ctl' = "awaitRequest" /\ UNCHANGED cons
       \/ ctl = "waitAsleep" /\ ctl' = "waitCamera" /\ UNCHANGED cons
       \/ \E t \in Consumers :
            /\ cons[t] \in {"getAsleep", "availAsleep"}
            /\ Goto(t, IF cons[t] = "getAsleep" THEN "get" ELSE "avail")
            /\ UNCHANGED ctl
    /\ UNCHANGED <<stopped, stopping, eof, slot, newPC, cam, cameras>>
    /\ UNCHANGED <<owner, calls, clouds>>

Next ==
    \/ Control
    \/ \E c \in Cameras : Processing(c)
    \/ \E t \in Consumers : Consumer(t)
    \/ Start \/ Stop \/ Stopping
    \/ SpuriousWakeup

Spec == Init /\ [][Next]_vars

(* Fairness.  Every thread runs on, and is some time granted a mutex that  *)
(* others take and release (SF).  A camera that delivers framesets without *)
(* a depth frame now and then also delivers complete ones (SF of           *)
(* CaptureAll).  No fairness makes a stream end, the application call      *)
(* anything, or a wakeup spurious.                                         *)
LiveSpec ==
    /\ Spec
    /\ SF_vars(Control) /\ SF_vars(CaptureAll)
    /\ \A c \in Cameras : SF_vars(Processing(c))
    /\ \A t \in Consumers : SF_vars(InCall(t))
    /\ WF_vars(Stopping)

-----------------------------------------------------------------------------
TypeOK ==
    /\ {stopped, stopping, eof, fresh, wantNew, running, freeing} \subseteq BOOLEAN
    /\ mergedPC \in 0 .. MaxClouds /\ newPC \in 0 .. MaxClouds
    /\ ctl \in {"off", "loop", "awaitRequest", "fallAsleep", "asleep", "checkEof",
                "capture", "captured", "saveMetadata", "enqueued", "lockMerged",
                "waitCamera", "waitFallAsleep", "waitAsleep", "exited"}
    /\ cam \in 1 .. NumCameras + 1
    /\ endOfStream \subseteq Cameras /\ alive \subseteq Cameras /\ done \subseteq Cameras
    /\ {queue, work, current} \subseteq [Cameras -> 0 .. MaxClouds]
    /\ cons \in [Consumers -> {"idle", "getRequest", "get", "getFallAsleep",
                               "getAsleep", "getAgain", "availRequest", "avail",
                               "availFallAsleep", "availAsleep"}]
    /\ main \in {"idle", "drain", "joinCameras", "stopControl", "releaseGetters",
                 "releaseControl", "join", "destroy", "gone"}
    /\ starts \in 0 .. MaxStarts /\ stops \in 0 .. MaxStops /\ calls \in 0 .. MaxCalls
    /\ made \in 0 .. MaxClouds /\ last \in 0 .. MaxClouds
    /\ where \in [Clouds -> {"unmade", "source", "caller", "freed", "astray"}]
    /\ content \in [Clouds -> [Cameras -> 0 .. MaxClouds]]

\* The rest holds until stop() is called for the first time, also when that
\* is before start().

\* A cloud that can be taken has the points of its own capture from every
\* camera ("After this, current_pcl_pointcloud ... will be valid",
\* wait_for_pointcloud_processed() in RS2BaseCamera.hpp).
FreshIsComplete ==
    fresh /\ stops = 0 => mergedPC # 0 /\ Complete(mergedPC)

\* A cloud nobody has read is not overwritten or freed: it stays until the
\* application takes it.
UnreadIsKept ==
    fresh /\ stops = 0 =>
        \/ mergedPC' = mergedPC /\ where'[mergedPC] = "source" /\ fresh'
        \/ where'[mergedPC] = "caller" /\ last' = mergedPC
NoUnreadOverwritten == [][UnreadIsKept]_vars

\* The capturer, all threads together, is a source of clouds in the sense of
\* CloudSource: it hands out each cloud at most once, in order, and frees none
\* that it has handed out, although mergedPC still points to that one.
Source == INSTANCE CloudSource WITH
    where <- where, last <- last, MaxClouds <- MaxClouds
SourceUntilStop == [][stops > 0 \/ Source!Next]_<<where, last>>

\* It is one at all times, so that what get_pointcloud() returns is the
\* caller's ("The caller is now the owner of this point cloud").
ImplementsSource == Source!Spec

-----------------------------------------------------------------------------
(* Liveness, under LiveSpec                                                *)

\* A thread in get_pointcloud() gets an answer, unless the capturer stops
\* (also because a stream has ended) or its cameras have not started.
GetReturns ==
    \A t \in Consumers :
        cons[t] = "getRequest" ~> cons[t] = "idle" \/ stopped \/ ~running

\* stop() and the destructor return, unless the control thread was between a
\* test and the sleep after it when they notified it, of a request or of a
\* processed frame, both without the mutex.
StopReturnsIfHeard ==
    main = "drain" ~>
        \/ main \in {"idle", "gone"}
        \/ main = "join" /\ ctl \in {"asleep", "waitAsleep"}
=============================================================================

------------------------------ MODULE FrameSync ------------------------------
(***************************************************************************)
(* Which frames are merged into one cloud, when recordings are played back *)
(* or, for the Orbbec, cameras deliver frames with timestamps of their own.*)
(*                                                                         *)
(* One cloud: _capture_all_cameras() calls wait_for_captured_frameset() of *)
(* each camera in turn.  The first one, the sync master if there is one in *)
(* a Kinect recording, gives its next frame, and the timestamp; the others *)
(* read on until they have one that is not older.  The three capturers     *)
(* differ in what they do about a camera that is ahead already:            *)
(*   - "kinect" (K4APlaybackCapture.cpp, K4APlaybackCamera.cpp) may use    *)
(*     current_captured_frameset again;                                    *)
(*   - "realsense" (RS2BaseCapture.hpp, RS2BaseCamera.cpp, and             *)
(*     RS2PlaybackCapture.cpp for the start) may use the frame before it;  *)
(*   - "orbbec" (OrbbecBaseCapture.hpp, OrbbecBaseCamera.hpp) reads on.    *)
(* seek() is called by an application thread at any time.                  *)
(*                                                                         *)
(* A recording is a set of timestamps.  As history, a frame also has the   *)
(* number of seeks of its camera before it was read.                       *)
(***************************************************************************)
EXTENDS Integers, FiniteSets, FiniteSetsExt

CONSTANTS
    Kinds,              \* the capturers that are looked at
    NumCameras,
    MaxTime,            \* bound: timestamps of frames are 2 .. MaxTime
    MaxSeeks,           \* bound: calls of seek()
    FrameFaults         \* what may go wrong: "read", a recording cannot be
                        \* read; "depth", a frame has no depth image

\* What is assumed of them: MCCapture has TLC check it.
ConstantsOK ==
    /\ Kinds \subseteq {"kinect", "realsense", "orbbec"}
    /\ NumCameras \in Nat \ {0} /\ MaxTime \in Nat /\ MaxSeeks \in Nat
    /\ FrameFaults \subseteq {"read", "depth"}

Cameras == 1 .. NumCameras
Times == 2 .. MaxTime
None == [at |-> 0, epoch |-> 0]
Frames == [at : Times, epoch : 0 .. MaxSeeks] \cup {None}
NoFrames == [c \in Cameras |-> None]
NoCloud == [timestamp |-> 0, frames |-> NoFrames, since |-> [c \in Cameras |-> 0]]

VARIABLES
    kind, master,       \* the capturer, its sync master or 0
    recording,          \* the timestamps of each camera's recording
    unread,             \* those still to come
    current, previous,  \* current_, previous_captured_frameset
    ended,              \* cameras whose end_of_stream_reached is true
    phase,              \* what the control thread does
    left,               \* the cameras it still has to wait for
    reading,            \* it is in the loop of the camera whose turn it is
    timestamp,          \* of the first camera, 0 before that
    earliest,           \* earliest_recording_timestamp_seen
    seekTo, seekAt,     \* seek(): timestamp and the camera it has come to
    epoch, seeks,       \* history: seeks of each camera, calls of seek()
    since,              \* history: epoch when this capture began
    flawed,             \* history: faults that have happened
    cloud               \* the last cloud made

machine == <<current, previous, ended, phase, left, reading, timestamp, earliest>>
seeking == <<seekTo, seekAt, epoch, seeks>>
vars == <<kind, master, recording, unread, machine, seeking, since, flawed, cloud>>

Init ==
    /\ kind \in Kinds
    /\ master \in IF kind = "kinect" THEN {0} \cup Cameras ELSE {0}
    /\ recording \in [Cameras -> SUBSET Times \ {{}}]
    /\ unread = recording
    /\ current = NoFrames /\ previous = NoFrames /\ ended = {}
    /\ phase = IF kind = "realsense" THEN "start" ELSE "idle"
    /\ left = IF kind = "realsense" THEN Cameras ELSE {}
    /\ reading = FALSE /\ timestamp = 0 /\ earliest = 0
    /\ seekTo = 0 /\ seekAt = 0 /\ epoch = [c \in Cameras |-> 0] /\ seeks = 0
    /\ since = [c \in Cameras |-> 0] /\ flawed = {} /\ cloud = NoCloud

-----------------------------------------------------------------------------
(* _capture_all_cameras(), and _initial_camera_synchronization() of the    *)
(* RealSense playback, which goes around twice ("start", "align").         *)

\* The cameras take turns, the master first.
Turn(c) == c \in left /\ c = IF master \in left THEN master ELSE Min(left)

\* The control thread has seen a request, and no camera at its end.
Begin ==
    /\ phase = "idle" /\ ended = {}
    /\ phase' = "capture"
    /\ left' = Cameras
    /\ timestamp' = 0
    /\ since' = epoch
    /\ UNCHANGED <<kind, master, recording, unread, current, previous, ended>>
    /\ UNCHANGED <<reading, earliest, seeking, flawed, cloud>>

\* wait_for_captured_frameset() of camera c returns result.  At the start
\* the newest of the first timestamps is looked for.
Returns(c, result) ==
    /\ reading' = FALSE
    /\ timestamp' = CASE phase = "start" -> Max({timestamp, result})
                      [] phase = "capture" /\ timestamp = 0 -> result
                      [] OTHER -> timestamp
    /\ earliest' = IF phase = "start" /\ earliest = 0 THEN result ELSE earliest
    /\ IF left = {c}
       THEN CASE phase = "start" -> phase' = "align" /\ left' = Cameras
              [] phase = "align" -> phase' = "idle" /\ left' = {}
              [] phase = "capture" -> phase' = "captured" /\ left' = {}
       ELSE phase' = phase /\ left' = left \ {c}

\* The timestamp the camera is asked not to be older than.
Wanted == IF phase = "start" THEN 0 ELSE timestamp

\* A frame the camera has already and that will do.
Reusable(c) ==
    LET held == CASE kind = "kinect" -> current[c]
                  [] kind = "realsense" -> previous[c]
                  [] kind = "orbbec" -> None
    IN  IF Wanted > 0 /\ held.at > Wanted THEN {held} ELSE {}

Reuse(c) ==
    /\ Turn(c) /\ ~reading
    /\ \E held \in Reusable(c) :
        /\ current' = [current EXCEPT ![c] = held]
        /\ Returns(c, held.at)
    /\ UNCHANGED <<kind, master, recording, unread, previous, ended>>
    /\ UNCHANGED <<seeking, since, flawed, cloud>>

\* Camera c has to read.  (A RealSense recording is paused during seek().)
Reads(c) ==
    /\ Turn(c) /\ (reading \/ Reusable(c) = {})
    /\ kind = "realsense" => seekAt = 0

\* One frame: f is the next.
NextFrame(c, f) ==
    /\ unread[c] # {}
    /\ f = [at |-> Min(unread[c]), epoch |-> epoch[c]]
    /\ unread' = [unread EXCEPT ![c] = @ \ {f.at}]

\* The very first frame of a RealSense camera is only remembered.
IsFirst(c) == kind = "realsense" /\ current[c] = None /\ previous[c] = None

ReadFirst(c) ==
    /\ Reads(c) /\ IsFirst(c)
    /\ \E f \in Frames :
        /\ NextFrame(c, f)
        /\ previous' = [previous EXCEPT ![c] = f]
    /\ reading' = TRUE
    /\ UNCHANGED <<kind, master, recording, current, ended, phase, left>>
    /\ UNCHANGED <<timestamp, earliest, seeking, since, flawed, cloud>>

\* The frame will do: any, for the first camera.
Fits(f) ==
    \/ Wanted = 0
    \/ IF kind = "kinect" THEN f.at > Wanted ELSE f.at >= Wanted

\* MUTANT: the first frame that comes is used.
ReadRegardless(c) ==
    /\ Reads(c) /\ ~IsFirst(c)
    /\ \E f \in Frames :
        /\ NextFrame(c, f)
        /\ previous' = IF kind = "realsense" /\ current[c] # None
                       THEN [previous EXCEPT ![c] = current[c]] ELSE previous
        /\ current' = [current EXCEPT ![c] = f]
        /\ Returns(c, f.at)
    /\ UNCHANGED <<kind, master, recording, ended, seeking, since, flawed, cloud>>

\* What _capture_next_valid_frame() leaves out, frames without colour or
\* depth, is not in the recording.
Read(c) ==
    /\ Reads(c) /\ ~IsFirst(c)
    /\ \E f \in Frames :
        /\ NextFrame(c, f)
        /\ previous' = IF kind = "realsense" /\ current[c] # None
                       THEN [previous EXCEPT ![c] = current[c]] ELSE previous
        /\ current' = [current EXCEPT ![c] = f]
        /\ IF Fits(f)
           THEN Returns(c, f.at)
           ELSE reading' = TRUE /\ UNCHANGED <<phase, left, timestamp, earliest>>
    /\ UNCHANGED <<kind, master, recording, ended, seeking, since, flawed, cloud>>

\* An Orbbec frame without depth image: it is used, and its timestamp is 1.
ReadWithoutDepth(c) ==
    /\ Reads(c) /\ kind = "orbbec" /\ "depth" \in FrameFaults
    /\ \E f \in Frames :
        /\ NextFrame(c, f)
        /\ current' = [current EXCEPT ![c] = f]
    /\ Returns(c, 1)
    /\ flawed' = flawed \cup {"depth"}
    /\ UNCHANGED <<kind, master, recording, previous, ended, seeking, since, cloud>>

\* _capture_all_cameras() returns false: the other cameras keep what they
\* have captured.
GivesUp(c) ==
    /\ current' = [current EXCEPT ![c] = None]
    /\ reading' = FALSE
    /\ phase' = "idle"
    /\ left' = {}
    /\ UNCHANGED <<timestamp, earliest>>

\* K4A_STREAM_RESULT_FAILED, or an Orbbec camera that delivers nothing in
\* time.
ReadFails(c) ==
    /\ Reads(c) /\ kind # "realsense" /\ "read" \in FrameFaults
    /\ GivesUp(c)
    /\ flawed' = flawed \cup {"read"}
    /\ UNCHANGED <<kind, master, recording, unread, previous, ended, seeking, since, cloud>>

\* The end of the recording.  The Orbbec cameras do not take note of it.
RecordingEnds(c) ==
    /\ Reads(c) /\ unread[c] = {}
    /\ ended' = IF kind = "orbbec" THEN ended ELSE ended \cup {c}
    /\ IF phase = "capture"
       THEN GivesUp(c)
       ELSE Returns(c, 0) /\ current' = [current EXCEPT ![c] = None]
    /\ UNCHANGED <<kind, master, recording, unread, previous, seeking, since, flawed, cloud>>

\* MUTANT: a Kinect or Orbbec camera keeps the frame it has handed on.
MakeCloudKeepFrames ==
    /\ phase = "captured"
    /\ cloud' = [timestamp |-> timestamp, frames |-> current, since |-> since]
    /\ phase' = "idle"
    /\ UNCHANGED <<kind, master, recording, unread, current, previous, ended, left>>
    /\ UNCHANGED <<reading, timestamp, earliest, seeking, since, flawed>>

\* process_pointcloud_from_frameset() of every camera.
MakeCloud ==
    /\ phase = "captured"
    /\ cloud' = [timestamp |-> timestamp, frames |-> current, since |-> since]
    /\ current' = IF kind = "realsense" THEN current ELSE NoFrames
    /\ phase' = "idle"
    /\ UNCHANGED <<kind, master, recording, unread, previous, ended, left, reading>>
    /\ UNCHANGED <<timestamp, earliest, seeking, since, flawed>>

-----------------------------------------------------------------------------
(* seek()                                                                  *)

\* Where camera c is sent.  A RealSense recording is positioned relative to
\* its own start.
Position(c, t) ==
    IF kind = "kinect" THEN t ELSE Min(recording[c]) + t - earliest

\* The Orbbec capturers cannot seek.  A RealSense capturer is given a time
\* that is in its recordings.
Seek(t) ==
    /\ kind # "orbbec" /\ seekAt = 0 /\ seeks < MaxSeeks
    /\ kind = "realsense" =>
        /\ earliest # 0 /\ earliest <= t
        /\ \A c \in Cameras : Position(c, t) <= Max(recording[c])
    /\ seeks' = seeks + 1
    /\ seekTo' = t
    /\ seekAt' = 1
    /\ UNCHANGED <<kind, master, recording, unread, machine, epoch, since, flawed, cloud>>

\* One camera.  A Kinect recording may be too short, and the later cameras
\* then stay where they are.
SeekCamera ==
    /\ seekAt \in Cameras
    /\ IF Position(seekAt, seekTo) > Max(recording[seekAt])
       THEN /\ seekAt' = 0
            /\ UNCHANGED <<unread, epoch>>
       ELSE /\ unread' = [unread EXCEPT ![seekAt] =
                    {t \in recording[seekAt] : t >= Position(seekAt, seekTo)}]
            /\ epoch' = [epoch EXCEPT ![seekAt] = @ + 1]
            /\ seekAt' = (seekAt + 1) % (NumCameras + 1)
    /\ UNCHANGED <<kind, master, recording, machine, seekTo, seeks, since, flawed, cloud>>

Next ==
    \/ Begin \/ MakeCloud
    \/ \E c \in Cameras :
        \/ Reuse(c) \/ ReadFirst(c) \/ Read(c) \/ ReadWithoutDepth(c)
        \/ ReadFails(c) \/ RecordingEnds(c)
    \/ \E t \in Times : Seek(t)
    \/ SeekCamera

Spec == Init /\ [][Next]_vars

-----------------------------------------------------------------------------
(* Properties                                                              *)

TypeOK ==
    /\ unread \in [Cameras -> SUBSET Times]
    /\ current \in [Cameras -> Frames] /\ previous \in [Cameras -> Frames]
    /\ ended \subseteq Cameras /\ left \subseteq Cameras /\ reading \in BOOLEAN
    /\ phase \in {"start", "align", "idle", "capture", "captured"}
    /\ timestamp \in 0 .. MaxTime /\ earliest \in 0 .. MaxTime
    /\ seekAt \in 0 .. NumCameras /\ epoch \in [Cameras -> 0 .. MaxSeeks]

\* The frames of a cloud that camera c read before the seek that preceded the
\* capture of that cloud.
FromBeforeSeek == {c \in Cameras : cloud.frames[c].epoch < cloud.since[c]}

\* The frames of a cloud belong together.  None is older than the cloud says
\* it is, whatever the recordings lack, a seek() moves in the middle of a
\* capture, and earlier captures have left behind.  And a Kinect capturer
\* uses no frame from before a seek().
FramesFit ==
    /\ "depth" \notin flawed =>
        \A c \in Cameras : cloud.frames[c].at >= cloud.timestamp
    /\ kind = "kinect" /\ "read" \notin flawed => FromBeforeSeek = {}

SameEpochs == \A c \in Cameras : cloud'.frames[c].epoch = cloud.frames[c].epoch

\* As long as nobody seeks, time advances from cloud to cloud, and no frame of
\* a Kinect or Orbbec camera is used twice or after a newer one.
Advances ==
    cloud' # cloud /\ SameEpochs =>
        /\ "depth" \notin flawed => cloud'.timestamp > cloud.timestamp
        /\ kind # "realsense" =>
            \A c \in Cameras : cloud'.frames[c].at > cloud.frames[c].at
CloudsAdvance == [][Advances]_vars

\* After seek() has positioned the source, clouds come from there.
SeekIsHeeded == FromBeforeSeek = {}
=============================================================================

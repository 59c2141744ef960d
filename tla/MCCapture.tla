------------------------------ MODULE MCCapture ------------------------------
(***************************************************************************)
(* What a capturer does, for TLC: its threads (K4ACapture), which frames   *)
(* they merge (FrameSync), and the point cloud objects they make, with the *)
(* filters applied to those (PointClouds).  The three do not share state,  *)
(* so each behaviour is one of the part chosen in the initial state, and   *)
(* the others stay in their initial states.                                *)
(***************************************************************************)
EXTENDS K4ACapture, TLC

CONSTANTS
    \* FrameSync
    Kinds, MaxTime, MaxSeeks, FrameFaults,
    \* PointClouds, with as many tiles as there are cameras
    Extent, MaxObjects, MaxItems, MaxInput

VARIABLES
    part,               \* which of the parts runs
    \* FrameSync
    kind, master, recording, unread, currentFrame, previous, ended, phase, left,
    reading, timestamp, earliest, seekTo, seekAt, epoch, seeks, since, flawed,
    cloud,
    \* PointClouds
    objects, nAlloc, nDealloc, nRawAlloc, nRawDealloc, deallocated

Fra == INSTANCE FrameSync WITH current <- currentFrame
Obj == INSTANCE PointClouds

ASSUME FrameSyncAssumption == Fra!ConstantsOK
ASSUME PointCloudsAssumption == Obj!ConstantsOK

frames == <<kind, master, recording, unread, currentFrame, previous, ended, phase,
            left, reading, timestamp, earliest, seekTo, seekAt, epoch, seeks, since,
            flawed, cloud>>
pointclouds == <<objects, nAlloc, nDealloc, nRawAlloc, nRawDealloc, deallocated>>

\* (With the other parts the recordings are always the same.)
CaptureInit ==
    /\ part \in {"threads", "frames", "pointclouds"}
    /\ Init /\ Fra!Init /\ Obj!Init
    /\ part # "frames" =>
        kind = "orbbec" /\ recording = [c \in Cameras |-> Fra!Times]

CaptureNext ==
    \/ part = "threads" /\ Next /\ UNCHANGED <<part, frames, pointclouds>>
    \/ part = "frames" /\ Fra!Next /\ UNCHANGED <<part, vars, pointclouds>>
    \/ part = "pointclouds" /\ Obj!Next /\ UNCHANGED <<part, vars, frames>>

CaptureSpec == CaptureInit /\ [][CaptureNext]_<<part, vars, frames, pointclouds>>

ConsumerSymmetry == Permutations(Consumers)

-----------------------------------------------------------------------------
\* The variables of the parts have their types.
AllTypesOK == TypeOK /\ Fra!TypeOK /\ Obj!TypeOK

FramesFit == Fra!FramesFit
CloudsAdvance == Fra!CloudsAdvance
Accounted == Obj!Accounted
TileTellsCameras == Obj!TileTellsCameras
=============================================================================

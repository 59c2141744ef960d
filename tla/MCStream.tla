------------------------------- MODULE MCStream -----------------------------
(***************************************************************************)
(* The two ends of a stream of point clouds, for TLC: the threaded encoder *)
(* (Encoder) and the viewer (Viewer).  They do not share state, so each    *)
(* behaviour is one of the part chosen in the initial state, and the other *)
(* stays in its initial state.                                             *)
(***************************************************************************)
EXTENDS Encoder

CONSTANTS
    QueueSize, MaxGrabbed       \* Viewer

VARIABLES
    part,               \* which of the parts runs
    \* Viewer
    nodrop, endpaused, grabbed, srcStopped, source, queue, main, current,
    paused, singleStep, pauseLater, stopRequested, forcedrop, interrupted

Vie == INSTANCE Viewer WITH MaxClouds <- MaxGrabbed

ASSUME ViewerAssumption == Vie!ConstantsOK

encoding == vars
viewing ==
    <<nodrop, endpaused, grabbed, srcStopped, source, queue, main, current,
      paused, singleStep, pauseLater, stopRequested, forcedrop, interrupted>>
allVars == <<part, encoding, viewing>>

StreamInit ==
    /\ part \in {"encoder", "viewer"}
    /\ Init /\ Vie!Init
    /\ part = "encoder" => ~nodrop /\ ~endpaused /\ ~paused

RunsEncoder(A) == part = "encoder" /\ A /\ UNCHANGED <<part, viewing>>
RunsViewer(A) == part = "viewer" /\ A /\ UNCHANGED <<part, encoding>>

StreamNext == RunsEncoder(Next) \/ RunsViewer(Vie!Next)

\* The fairness of each of them, for the one that runs.
StreamSpec ==
    /\ StreamInit /\ [][StreamNext]_allVars
    /\ \A e \in Encoders :
        /\ WF_allVars(RunsEncoder(Filter(e)))
        /\ WF_allVars(RunsEncoder(Coder(e)))
        /\ SF_allVars(RunsEncoder(Encodes(e)))
    /\ WF_allVars(RunsEncoder(CloseNudges))
    /\ WF_allVars(RunsEncoder(CloseJoins))
    /\ WF_allVars(RunsEncoder(owner = "signal" /\ CloseSignals))
    /\ WF_allVars(RunsEncoder(Reader))
    /\ WF_allVars(RunsViewer(Vie!SourceThread))
    /\ WF_allVars(RunsViewer(Vie!MainThread))

-----------------------------------------------------------------------------
\* The variables of the parts have their types.
AllTypesOK == TypeOK /\ Vie!TypeOK

NothingSkipped == Vie!NothingSkipped
ViewerEnds == Vie!ViewerEnds
FirstIsShown == Vie!FirstIsShown
=============================================================================

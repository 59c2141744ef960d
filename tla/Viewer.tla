-------------------------------- MODULE Viewer ------------------------------
(***************************************************************************)
(* cwipc_view and cwipc_play: a point cloud source shown in a window.      *)
(*                                                                         *)
(*   source thread    SourceServer.run, scripts/_scriptsupport.py          *)
(*        |  queue    (feed)                                               *)
(*   main thread      Visualizer.run, io/visualizer.py, and then the end   *)
(*                    of main() in scripts/cwipc_view.py, cwipc_play.py    *)
(*                                                                         *)
(* The main thread takes clouds as long as the user lets it; the source    *)
(* thread waits for a place in the queue, with --nodrop as long as it      *)
(* takes.  Clouds are numbered as they are grabbed; 0 is None.             *)
(***************************************************************************)
EXTENDS Naturals, Sequences

CONSTANTS
    QueueSize,          \* maxsize of input_queue: 2, with --timestamps 1
    MaxClouds           \* bound: clouds the grabber delivers

\* What is assumed of them: MCStream has TLC check it.
ConstantsOK == QueueSize \in Nat \ {0} /\ MaxClouds \in Nat

VARIABLES
    nodrop,             \* --nodrop; always with cwipc_play
    endpaused,          \* cwipc_play: stay when the source has ended
    grabbed,            \* clouds the grabber has delivered
    srcStopped, source, \* SourceServer.stopped, where its thread is
    queue,              \* input_queue
    main,               \* where the main thread is
    current,            \* current_pc
    paused, singleStep, \* as in the code
    pauseLater,         \* timelapse_pause_at > 0
    stopRequested, forcedrop,
    interrupted         \* KeyboardInterrupt, or another exception in the loop

options == <<nodrop, endpaused>>
grabber == <<grabbed, srcStopped, source>>
controls == <<paused, singleStep, pauseLater, stopRequested>>
vars == <<options, grabber, queue, main, current, controls, forcedrop, interrupted>>

\* --paused is a single step: the first cloud is shown.
Init ==
    /\ nodrop \in BOOLEAN /\ endpaused \in BOOLEAN
    /\ endpaused => nodrop
    /\ grabbed = 0 /\ srcStopped = FALSE /\ source = "loop"
    /\ queue = <<>> /\ main = "continue" /\ current = 0
    /\ paused \in BOOLEAN /\ singleStep = paused
    /\ pauseLater = FALSE /\ stopRequested = FALSE
    /\ forcedrop = FALSE /\ interrupted = FALSE

\* producer.is_alive()
SourceIsAlive == source # "exited"

Full == Len(queue) = QueueSize

-----------------------------------------------------------------------------
(* The source thread                                                       *)

\* while not self.stopped and not self.grabber.eof()
SourceStops ==
    /\ source = "loop" /\ srcStopped
    /\ source' = "exited"
    /\ UNCHANGED <<options, grabbed, srcStopped, queue, main, current, controls>>
    /\ UNCHANGED <<forcedrop, interrupted>>

\* The recording is over, --count or --outpoint is reached, or the grabber
\* did not start.
SourceEnds ==
    /\ source = "loop" /\ ~srcStopped
    /\ source' = "exited"
    /\ UNCHANGED <<options, grabbed, srcStopped, queue, main, current, controls>>
    /\ UNCHANGED <<forcedrop, interrupted>>

SourceGrabs ==
    /\ source = "loop" /\ ~srcStopped /\ grabbed < MaxClouds
    /\ grabbed' = grabbed + 1
    /\ source' = "feed"
    /\ UNCHANGED <<options, srcStopped, queue, main, current, controls>>
    /\ UNCHANGED <<forcedrop, interrupted>>

\* feed(): how long to wait is decided before the wait.
FeedTests ==
    /\ source = "feed"
    /\ source' = IF nodrop /\ ~forcedrop THEN "put" ELSE "tryPut"
    /\ UNCHANGED <<options, grabbed, srcStopped, queue, main, current, controls>>
    /\ UNCHANGED <<forcedrop, interrupted>>

\* put(pc), or put(pc, timeout=0.5), which gives up when the queue is full.
FeedPuts ==
    /\ source \in {"put", "tryPut"}
    /\ \/ ~Full /\ queue' = Append(queue, grabbed)
       \/ Full /\ source = "tryPut" /\ UNCHANGED queue
    /\ source' = "loop"
    /\ UNCHANGED <<options, grabbed, srcStopped, main, current, controls>>
    /\ UNCHANGED <<forcedrop, interrupted>>

SourceThread == SourceStops \/ FeedTests \/ FeedPuts

-----------------------------------------------------------------------------
(* The main thread: run()                                                  *)

\* _continue_running(): at the end of the source the viewer is paused, every
\* time round.
Continue ==
    /\ main = "continue"
    /\ \/ /\ stopRequested \/ (~SourceIsAlive /\ ~endpaused)
          /\ main' = "leave"
          /\ UNCHANGED paused
       \/ /\ ~stopRequested /\ (SourceIsAlive \/ endpaused)
          /\ main' = "fetch"
          /\ paused' = (paused \/ ~SourceIsAlive)
    /\ UNCHANGED <<options, grabber, queue, current, singleStep, pauseLater>>
    /\ UNCHANGED <<stopRequested, forcedrop, interrupted>>

\* A cloud is shown if it is the first, or if not paused.
TakesNext == current = 0 \/ ~paused

\* What follows _get_next_pc(): nothing without a cloud; a single step ends.
Shown ==
    \/ /\ current' = 0
       /\ main' = "continue"
       /\ UNCHANGED <<paused, singleStep>>
    \/ /\ current' # 0
       /\ main' = "interact"
       /\ paused' = (paused \/ singleStep)
       /\ singleStep' = FALSE

\* MUTANT: a pause also keeps the first cloud from being shown.
FetchUnlessPaused ==
    /\ main = "fetch"
    /\ IF ~paused /\ queue # <<>>
         THEN current' = Head(queue) /\ queue' = Tail(queue)
         ELSE UNCHANGED <<current, queue>>
    /\ Shown
    /\ UNCHANGED <<options, grabber, pauseLater, stopRequested, forcedrop, interrupted>>

\* MUTANT: a pause discards clouds also with --nodrop.
FetchDropping ==
    /\ main = "fetch"
    /\ \/ TakesNext /\ queue # <<>> /\ current' = Head(queue) /\ queue' = Tail(queue)
       \/ TakesNext /\ queue = <<>> /\ UNCHANGED <<current, queue>>
       \/ ~TakesNext /\ queue # <<>> /\ queue' = Tail(queue) /\ UNCHANGED current
       \/ ~TakesNext /\ queue = <<>> /\ UNCHANGED <<current, queue>>
    /\ Shown
    /\ UNCHANGED <<options, grabber, pauseLater, stopRequested, forcedrop, interrupted>>

\* One round of run(): the next cloud is taken, or none comes in time; during
\* a pause clouds are discarded, with --nodrop left in the queue.
Fetch ==
    /\ main = "fetch"
    /\ \/ TakesNext /\ queue # <<>> /\ current' = Head(queue) /\ queue' = Tail(queue)
       \/ ~TakesNext /\ ~nodrop /\ queue # <<>> /\ queue' = Tail(queue) /\ UNCHANGED current
       \/ ~TakesNext /\ nodrop /\ UNCHANGED <<current, queue>>
       \/ queue = <<>> /\ UNCHANGED <<current, queue>>
    /\ Shown
    /\ UNCHANGED <<options, grabber, pauseLater, stopRequested, forcedrop, interrupted>>

\* _draw_pc(): the user has closed the window.
WindowClosed ==
    /\ main = "interact"
    /\ stopRequested' = TRUE
    /\ main' = "continue"
    /\ UNCHANGED <<options, grabber, queue, current, paused, singleStep, pauseLater>>
    /\ UNCHANGED <<forcedrop, interrupted>>

\* What the user's key, if any, does to: paused, singleStep, pauseLater,
\* stopRequested; p says whether the viewer is paused by now.
Command(p) ==
    \/ \* none, or one that changes only what is drawn
       paused' = p /\ UNCHANGED <<singleStep, stopRequested>>
    \/ \* space
       paused' = ~p /\ UNCHANGED <<singleStep, stopRequested>>
    \/ \* . (single step)
       paused' = FALSE /\ singleStep' = TRUE /\ UNCHANGED stopRequested
    \/ \* < (seek), c (reload), t (timelapse)
       paused' = FALSE /\ UNCHANGED <<singleStep, stopRequested>>
    \/ \* q, ESC
       paused' = p /\ stopRequested' = TRUE /\ UNCHANGED singleStep

\* interact_visualiser(): a pause that is due comes first.
Interact ==
    /\ main = "interact"
    /\ \/ Command(paused) /\ UNCHANGED pauseLater
       \/ pauseLater /\ Command(TRUE) /\ pauseLater' = FALSE
       \/ \* p (timelapse pause)
          /\ pauseLater' = TRUE /\ paused' = FALSE
          /\ UNCHANGED <<singleStep, stopRequested>>
    /\ main' = "continue"
    /\ UNCHANGED <<options, grabber, queue, current, forcedrop, interrupted>>

\* MUTANT: the source thread goes on waiting for a place in the queue.
LeaveKeeping ==
    /\ main = "leave"
    /\ main' = "drain"
    /\ UNCHANGED <<options, grabber, queue, current, controls, forcedrop, interrupted>>

\* The end of run(): from now on feed() drops ...
Leave ==
    /\ main = "leave"
    /\ forcedrop' = TRUE
    /\ main' = "drain"
    /\ UNCHANGED <<options, grabber, queue, current, controls, interrupted>>

\* ... and the queue is emptied.
Drain ==
    /\ main = "drain"
    /\ \/ queue # <<>> /\ queue' = Tail(queue) /\ UNCHANGED main
       \/ queue = <<>> /\ main' = "stopSource" /\ UNCHANGED queue
    /\ UNCHANGED <<options, grabber, current, controls, forcedrop, interrupted>>

-----------------------------------------------------------------------------
(* The main thread: main()                                                 *)

\* An exception leaves run(): neither forcedrop nor the queue is touched.
Interrupted ==
    /\ main # "exited" /\ ~interrupted
    /\ interrupted' = TRUE
    /\ main' = "stopSource"
    /\ UNCHANGED <<options, grabber, queue, current, controls, forcedrop>>

\* sourceServer.stop(): the grabber is stopped, then stopped = True
StopSource ==
    /\ main = "stopSource"
    /\ srcStopped' = TRUE
    /\ main' = "join"
    /\ UNCHANGED <<options, grabbed, source, queue, current, controls>>
    /\ UNCHANGED <<forcedrop, interrupted>>

JoinSource ==
    /\ main = "join" /\ source = "exited"
    /\ main' = "exited"
    /\ UNCHANGED <<options, grabber, queue, current, controls, forcedrop, interrupted>>

MainThread ==
    \/ Continue \/ Fetch \/ Interact \/ Leave \/ Drain \/ StopSource \/ JoinSource

Next ==
    \/ SourceThread \/ SourceGrabs \/ SourceEnds
    \/ MainThread \/ WindowClosed \/ Interrupted

Spec == Init /\ [][Next]_vars

\* Fairness: the two threads run on.  The grabber need not deliver or end,
\* and the user need not do anything.
LiveSpec == Spec /\ WF_vars(SourceThread) /\ WF_vars(MainThread)

-----------------------------------------------------------------------------
TypeOK ==
    /\ {nodrop, endpaused, srcStopped, paused, singleStep} \subseteq BOOLEAN
    /\ {pauseLater, stopRequested, forcedrop, interrupted} \subseteq BOOLEAN
    /\ grabbed \in 0 .. MaxClouds /\ current \in 0 .. MaxClouds
    /\ queue \in Seq(1 .. MaxClouds) /\ Len(queue) <= QueueSize
    /\ source \in {"loop", "feed", "put", "tryPut", "exited"}
    /\ main \in {"continue", "fetch", "interact", "leave", "drain", "stopSource",
                 "join", "exited"}

\* With --nodrop the viewer shows every cloud in turn, whatever the user
\* pauses and resumes: those behind the current one are in the queue or in
\* the hand of the source thread, in order, until the viewer quits.
NothingSkipped ==
    LET InHand == IF source \in {"feed", "put", "tryPut"} THEN 1 ELSE 0
    IN  nodrop /\ ~forcedrop =>
            /\ current + Len(queue) + InHand = grabbed
            /\ \A i \in 1 .. Len(queue) : queue[i] = current + i

\* When the user quits or interrupts, or the source ends and the viewer is not
\* to stay, the program ends.  Except that an interrupt does not free a source
\* thread that waits for a place in the queue.
Stuck == interrupted /\ main = "join" /\ source = "put" /\ Full
ViewerEnds ==
    stopRequested \/ interrupted \/ (~SourceIsAlive /\ ~endpaused)
        ~> main = "exited" \/ Stuck

\* cwipc_play shows something, also of a single cloud, and also when started
\* paused or when the source has ended meanwhile.
FirstIsShown ==
    endpaused /\ queue # <<>> ~> current # 0 \/ interrupted
=============================================================================

------------------------------ MODULE Forwarder -----------------------------
(***************************************************************************)
(* cwipc_forward: a point cloud source served on a TCP port.               *)
(*                                                                         *)
(*   source thread    SourceServer.run, scripts/_scriptsupport.py          *)
(*        |  inq      (feed)                                               *)
(*   encoder thread   _Sink_Encoder.run, net/sink_encoder.py, or with      *)
(*        |           --noencode _SinkPassthrough.run, net/sink_passthrough.py *)
(*        |  outq     (feed)                                               *)
(*   server thread    _Sink_NetServer.run, net/sink_netserver.py           *)
(*        |                                                                *)
(*   clients                                                               *)
(*                                                                         *)
(* and the main thread (scripts/cwipc_forward.py), which starts them,      *)
(* waits for the source thread or the user's interrupt, and stops them.    *)
(* Each thread looks at nothing but a flag or the life of the thread that  *)
(* feeds it, and all of them block: in get() on an empty queue, with       *)
(* --nodrop in put() on a full one, in sendall(), in join().               *)
(*                                                                         *)
(* Clouds are numbered; in a queue 0 stands for the None that wakes a      *)
(* reader.  One encoder, so one packet for each cloud.                     *)
(***************************************************************************)
EXTENDS Naturals, Sequences, FiniteSets

CONSTANTS
    Clients,            \* who may connect, once each
    InSize, OutSize,    \* maxsize of the two queues (2 in the code)
    MaxKept, MaxLossy   \* bounds: clouds the grabber delivers with --nodrop
                        \* and without

\* What is assumed of them: MCNetwork has TLC check it.
ConstantsOK ==
    /\ InSize \in Nat \ {0} /\ OutSize \in Nat \ {0}
    /\ MaxKept \in Nat /\ MaxLossy \in Nat

\* The two threads that call the server's stop().
Stoppers == {"main", "encoder"}

VARIABLES
    nodrop, encoding,   \* the options --nodrop and (not) --noencode
    grabbed,            \* clouds the grabber has delivered
    srcStopped, source, \* SourceServer.stopped, where its thread is
    inq,                \* input_queue of the encoder
    encStopped, enc,    \* its stopped, where its thread is
    encWork,            \* the cloud it has in hand
    outq,               \* input_queue of the server
    netStopped, net,    \* its stopped, where its thread is
    netWork,            \* the packet it has in hand
    listening,          \* its socket is open
    conns,              \* conn_sockets
    client,             \* "out", "in" or "gone"
    got,                \* the last packet each client received
    main,               \* where the main thread is
    stopper             \* where each stopper is inside the server's stop()

options == <<nodrop, encoding>>
grabber == <<grabbed, srcStopped, source>>
encoder == <<inq, encStopped, enc, encWork>>
server == <<netStopped, net, netWork, listening, conns>>
clients == <<client, got>>
vars == <<options, grabber, encoder, outq, server, clients, main, stopper>>

Init ==
    /\ nodrop \in BOOLEAN /\ encoding \in BOOLEAN
    /\ grabbed = 0 /\ srcStopped = FALSE /\ source = "off"
    /\ inq = <<>> /\ encStopped = FALSE /\ enc = "off" /\ encWork = 0
    /\ outq = <<>> /\ netStopped = FALSE /\ net = "off" /\ netWork = 0
    /\ listening = TRUE /\ conns = {}
    /\ client = [c \in Clients |-> "out"] /\ got = [c \in Clients |-> 0]
    /\ main = "startSource" /\ stopper = [s \in Stoppers |-> "out"]

\* producer.is_alive(): the producer of both sinks is the source thread.
ProducerAlive == source \notin {"off", "exited"}

InFull == Len(inq) = InSize
OutFull == Len(outq) = OutSize

-----------------------------------------------------------------------------
(* The source thread                                                       *)

MaxGrabbed == IF nodrop THEN MaxKept ELSE MaxLossy

\* while not self.stopped and not self.grabber.eof()
SourceStops ==
    /\ source = "loop" /\ srcStopped
    /\ source' = "exited"
    /\ UNCHANGED <<options, grabbed, srcStopped, encoder, outq, server>>
    /\ UNCHANGED <<clients, main, stopper>>

\* The recording is over, or --count clouds have been grabbed.
GrabberEnds ==
    /\ source = "loop" /\ ~srcStopped
    /\ source' = "exited"
    /\ UNCHANGED <<options, grabbed, srcStopped, encoder, outq, server>>
    /\ UNCHANGED <<clients, main, stopper>>

\* grab_pc() returns a cloud; or None, when nothing is available or the
\* grabber was stopped, and the loop goes round.
SourceGrabs ==
    /\ source = "loop" /\ ~srcStopped /\ grabbed < MaxGrabbed
    /\ grabbed' = grabbed + 1
    /\ source' = "feed"
    /\ UNCHANGED <<options, srcStopped, encoder, outq, server, clients, main, stopper>>

\* viewer.feed(pc): put, and without --nodrop give up when the queue is full.
SourceFeeds ==
    /\ source = "feed"
    /\ \/ ~InFull /\ inq' = Append(inq, grabbed)
       \/ InFull /\ ~nodrop /\ UNCHANGED inq
    /\ source' = "loop"
    /\ UNCHANGED <<options, grabbed, srcStopped, encStopped, enc, encWork>>
    /\ UNCHANGED <<outq, server, clients, main, stopper>>

SourceThread == SourceStops \/ SourceFeeds

-----------------------------------------------------------------------------
(* The encoder thread                                                      *)

\* while not self.stopped and self.producer.is_alive()
EncoderLoop ==
    /\ enc = "loop"
    /\ enc' = IF ~encStopped /\ ProducerAlive THEN "get" ELSE "finally"
    /\ UNCHANGED <<options, grabber, inq, encStopped, encWork, outq, server>>
    /\ UNCHANGED <<clients, main, stopper>>

EncoderGets ==
    /\ enc = "get" /\ inq # <<>>
    /\ encWork' = Head(inq)
    /\ inq' = Tail(inq)
    /\ enc' = IF Head(inq) = 0 THEN "loop" ELSE "encode"
    /\ UNCHANGED <<options, grabber, encStopped, outq, server, clients, main, stopper>>

\* encoder_group.feed(), available(), get_bytes(); or "assert got_data".
Encode ==
    /\ enc = "encode"
    /\ \/ enc' = "feed" /\ UNCHANGED encWork
       \/ encoding /\ enc' = "finally" /\ encWork' = 0
    /\ UNCHANGED <<options, grabber, inq, encStopped, outq, server>>
    /\ UNCHANGED <<clients, main, stopper>>

\* MUTANT: --nodrop is forgotten.
EncoderDrops ==
    /\ enc = "feed"
    /\ outq' = IF OutFull THEN outq ELSE Append(outq, encWork)
    /\ encWork' = 0
    /\ enc' = "loop"
    /\ UNCHANGED <<options, grabber, inq, encStopped, server, clients, main, stopper>>

\* sink.feed(), as SourceFeeds.
EncoderFeeds ==
    /\ enc = "feed"
    /\ \/ ~OutFull /\ outq' = Append(outq, encWork)
       \/ OutFull /\ ~nodrop /\ UNCHANGED outq
    /\ encWork' = 0
    /\ enc' = "loop"
    /\ UNCHANGED <<options, grabber, inq, encStopped, server, clients, main, stopper>>

\* finally: self.stopped = True, self.sink.stop()
EncoderFinishes ==
    /\ enc = "finally"
    /\ encStopped' = TRUE
    /\ enc' = "stopSink"
    /\ stopper' = [stopper EXCEPT !["encoder"] = "mark"]
    /\ UNCHANGED <<options, grabber, inq, encWork, outq, server, clients, main>>

EncoderExits ==
    /\ enc = "stopSink" /\ stopper["encoder"] = "done"
    /\ enc' = "exited"
    /\ UNCHANGED <<options, grabber, inq, encStopped, encWork, outq, server>>
    /\ UNCHANGED <<clients, main, stopper>>

EncoderThread ==
    \/ EncoderLoop \/ EncoderGets \/ Encode \/ EncoderFeeds
    \/ EncoderFinishes \/ EncoderExits

-----------------------------------------------------------------------------
(* The server thread                                                       *)

\* while not self.stopped and self.producer.is_alive()
NetLoop ==
    /\ net = "loop"
    /\ net' = IF ~netStopped /\ ProducerAlive THEN "select" ELSE "finally"
    /\ UNCHANGED <<options, grabber, encoder, outq, netStopped, netWork, listening>>
    /\ UNCHANGED <<conns, clients, main, stopper>>

\* select() returns a new connection, or times out; on a closed socket it
\* raises.  Without connections nothing is taken from the queue.
NetSelects ==
    /\ net = "select"
    /\ \/ /\ listening
          /\ \E c \in Clients :
                client[c] = "in" /\ c \notin conns /\ conns' = conns \cup {c}
          /\ net' = "get"
       \/ /\ net' = IF conns = {} THEN "loop" ELSE "get"
          /\ UNCHANGED conns
       \/ ~listening /\ net' = "finally" /\ UNCHANGED conns
    /\ UNCHANGED <<options, grabber, encoder, outq, netStopped, netWork, listening>>
    /\ UNCHANGED <<clients, main, stopper>>

\* input_queue.get().  None ends the thread: if it was not stopped, by the
\* assert that follows.
NetGets ==
    /\ net = "get" /\ outq # <<>>
    /\ netWork' = Head(outq)
    /\ outq' = Tail(outq)
    /\ net' = IF Head(outq) = 0 THEN "finally" ELSE "send"
    /\ UNCHANGED <<options, grabber, encoder, netStopped, listening, conns>>
    /\ UNCHANGED <<clients, main, stopper>>

\* select() for writing, then sendall() to every connection that can be
\* written to.  The others miss the packet, and those on which an error
\* occurs are closed.  A client that stops reading blocks this step.
NetSends ==
    /\ net = "send"
    /\ \E reached \in SUBSET {c \in conns : client[c] = "in"} :
        got' = [c \in Clients |-> IF c \in reached THEN netWork ELSE got[c]]
    /\ \E broken \in SUBSET {c \in conns : client[c] = "gone"} :
        conns' = conns \ broken
    /\ netWork' = 0
    /\ net' = "loop"
    /\ UNCHANGED <<options, grabber, encoder, outq, netStopped, listening>>
    /\ UNCHANGED <<client, main, stopper>>

\* finally: self.stopped = True, close the connections
NetFinishes ==
    /\ net = "finally"
    /\ netStopped' = TRUE
    /\ conns' = {}
    /\ net' = "exited"
    /\ UNCHANGED <<options, grabber, encoder, outq, netWork, listening>>
    /\ UNCHANGED <<clients, main, stopper>>

NetThread == NetLoop \/ NetSelects \/ NetGets \/ NetFinishes

\* A client connects, or goes away.
ClientComes(c) ==
    /\ client[c] = "out" /\ listening
    /\ client' = [client EXCEPT ![c] = "in"]
    /\ UNCHANGED <<options, grabber, encoder, outq, server, got, main, stopper>>

ClientGoes(c) ==
    /\ client[c] = "in"
    /\ client' = [client EXCEPT ![c] = "gone"]
    /\ UNCHANGED <<options, grabber, encoder, outq, server, got, main, stopper>>

-----------------------------------------------------------------------------
(* The server's stop(), called by the encoder thread and by main           *)

At(s, from, to) ==
    /\ stopper[s] = from
    /\ stopper' = [stopper EXCEPT ![s] = to]

StopMarks(s) ==
    /\ At(s, "mark", "drain")
    /\ netStopped' = TRUE
    /\ listening' = FALSE
    /\ UNCHANGED <<options, grabber, encoder, outq, net, netWork, conns, clients, main>>

\* while self.input_queue.get(block=False): the loop ends at a None too.
StopDrains(s) ==
    /\ At(s, "drain", IF outq = <<>> \/ Head(outq) = 0 THEN "putNone" ELSE "drain")
    /\ outq' = IF outq = <<>> THEN <<>> ELSE Tail(outq)
    /\ UNCHANGED <<options, grabber, encoder, server, clients, main>>

StopPutsNone(s) ==
    /\ At(s, "putNone", "join")
    /\ ~OutFull
    /\ outq' = Append(outq, 0)
    /\ UNCHANGED <<options, grabber, encoder, server, clients, main>>

\* if self.started: self.join()
StopJoins(s) ==
    /\ At(s, "join", "done")
    /\ net \in {"off", "exited"}
    /\ UNCHANGED <<options, grabber, encoder, outq, server, clients, main>>

StopStep(s) == StopMarks(s) \/ StopDrains(s) \/ StopPutsNone(s) \/ StopJoins(s)

-----------------------------------------------------------------------------
(* The main thread                                                         *)

\* sourceThread.start(), then the encoder's start(): its own thread first,
\* and only then the server's.
StartSource ==
    /\ main = "startSource"
    /\ source' = "loop"
    /\ main' = "startEncoder"
    /\ UNCHANGED <<options, grabbed, srcStopped, encoder, outq, server>>
    /\ UNCHANGED <<clients, stopper>>

StartEncoder ==
    /\ main = "startEncoder"
    /\ enc' = "loop"
    /\ main' = "startNet"
    /\ UNCHANGED <<options, grabber, inq, encStopped, encWork, outq, server>>
    /\ UNCHANGED <<clients, stopper>>

StartNet ==
    /\ main = "startNet"
    /\ net' = "loop"
    /\ main' = "joinSource"
    /\ UNCHANGED <<options, grabber, encoder, outq, netStopped, netWork, listening>>
    /\ UNCHANGED <<conns, clients, stopper>>

\* The source thread has ended, or the user interrupts.
SourceEnded ==
    /\ main = "joinSource"
    /\ source = "exited"
    /\ main' = "stopSource"
    /\ UNCHANGED <<options, grabber, encoder, outq, server, clients, stopper>>

Interrupted ==
    /\ main = "joinSource"
    /\ main' = "stopSource"
    /\ UNCHANGED <<options, grabber, encoder, outq, server, clients, stopper>>

\* sourceServer.stop(): the grabber is stopped first.
StopSource ==
    /\ main = "stopSource"
    /\ srcStopped' = TRUE
    /\ main' = "joinSourceAgain"
    /\ UNCHANGED <<options, grabbed, source, encoder, outq, server>>
    /\ UNCHANGED <<clients, stopper>>

\* sourceThread.join(), and into the encoder's stop(): stopped = True
StopEncoder ==
    /\ main = "joinSourceAgain" /\ source = "exited"
    /\ encStopped' = TRUE
    /\ main' = IF encoding THEN "wakeEncoder" ELSE "stopSink"
    /\ stopper' =
        [stopper EXCEPT !["main"] = IF encoding THEN "out" ELSE "mark"]
    /\ UNCHANGED <<options, grabber, inq, enc, encWork, outq, server, clients>>

\* MUTANT: the encoder thread is not woken up.
LeaveEncoderAsleep ==
    /\ main = "wakeEncoder"
    /\ main' = "stopSink"
    /\ stopper' = [stopper EXCEPT !["main"] = "mark"]
    /\ UNCHANGED <<options, grabber, encoder, outq, server, clients>>

\* _Sink_Encoder: put(None) without waiting: a full queue wakes it as well.
WakeEncoder ==
    /\ main = "wakeEncoder"
    /\ inq' = IF InFull THEN inq ELSE Append(inq, 0)
    /\ main' = "stopSink"
    /\ stopper' = [stopper EXCEPT !["main"] = "mark"]
    /\ UNCHANGED <<options, grabber, encStopped, enc, encWork, outq, server, clients>>

SinkStopped ==
    /\ main = "stopSink" /\ stopper["main"] = "done"
    /\ main' = IF encoding THEN "joinEncoder" ELSE "wakePassthrough"
    /\ UNCHANGED <<options, grabber, encoder, outq, server, clients, stopper>>

\* _SinkPassthrough: put(None), waiting for a place in the queue.
WakePassthrough ==
    /\ main = "wakePassthrough" /\ ~InFull
    /\ inq' = Append(inq, 0)
    /\ main' = "joinEncoder"
    /\ UNCHANGED <<options, grabber, encStopped, enc, encWork, outq, server>>
    /\ UNCHANGED <<clients, stopper>>

JoinEncoder ==
    /\ main = "joinEncoder" /\ enc = "exited"
    /\ main' = "exited"
    /\ UNCHANGED <<options, grabber, encoder, outq, server, clients, stopper>>

MainThread ==
    \/ StartSource \/ StartEncoder \/ StartNet \/ SourceEnded
    \/ StopSource \/ StopEncoder \/ WakeEncoder \/ SinkStopped
    \/ WakePassthrough \/ JoinEncoder

Next ==
    \/ SourceThread \/ SourceGrabs \/ GrabberEnds \/ EncoderThread \/ NetThread \/ NetSends
    \/ \E c \in Clients : ClientComes(c) \/ ClientGoes(c)
    \/ \E s \in Stoppers : StopStep(s)
    \/ MainThread \/ Interrupted

Spec == Init /\ [][Next]_vars

\* Fairness.  Threads run on.  Clients need not come, go or read (NetSends),
\* the grabber need not deliver or end, and nobody has to interrupt.
LiveSpec ==
    /\ Spec
    /\ WF_vars(SourceThread) /\ WF_vars(EncoderThread) /\ WF_vars(NetThread)
    /\ \A s \in Stoppers : SF_vars(StopStep(s))
    /\ WF_vars(MainThread)

-----------------------------------------------------------------------------
(* Properties                                                              *)

Places(q) == {q[i] : i \in 1 .. Len(q)}

TypeOK ==
    /\ grabbed \in 0 .. MaxGrabbed
    /\ {srcStopped, encStopped, netStopped, listening} \subseteq BOOLEAN
    /\ Len(inq) <= InSize /\ Len(outq) <= OutSize
    /\ Places(inq) \cup Places(outq) \subseteq 0 .. MaxGrabbed
    /\ encWork \in 0 .. MaxGrabbed /\ netWork \in 0 .. MaxGrabbed
    /\ conns \subseteq Clients
    /\ client \in [Clients -> {"out", "in", "gone"}]
    /\ got \in [Clients -> 0 .. MaxGrabbed]

\* What is under way, oldest first: in the server's hand, its queue, the
\* encoder's hand, its queue; 0 for an empty hand or a None.
UnderWay == <<netWork>> \o outq \o <<encWork>> \o inq

\* Clients get the clouds in the order of capture, none twice: what is under
\* way is newer than what any client has got, and in order.
InOrder ==
    \A j \in 1 .. Len(UnderWay) : UnderWay[j] # 0 =>
        /\ \A i \in 1 .. j - 1 : UnderWay[i] < UnderWay[j]
        /\ \A c \in Clients : got[c] < UnderWay[j]

\* The last cloud that was fed to the encoder.
Fed == IF source = "feed" THEN grabbed - 1 ELSE grabbed

\* With --nodrop and every thread running, all that was grabbed and is not on
\* its way to the clients yet is there, also when the queues are full.
NothingDropped ==
    /\ Places(UnderWay) \subseteq 0 .. Fed
    /\ nodrop /\ ~encStopped /\ ~netStopped /\ enc # "finally" =>
        \A n \in Places(UnderWay) \ {0} : n .. Fed \subseteq Places(UnderWay)

\* Through two queues and the hands of two threads, clients get what was
\* grabbed in order, and with --nodrop without a hole.
Forwarded == InOrder /\ NothingDropped

\* Blocked where stop() cannot reach: the source thread or the encoder
\* thread in a put() without time limit, the server thread in sendall(), or
\* stop() itself in the put() of the passthrough sink.
OutOfReach ==
    \/ nodrop /\ (source = "feed" \/ enc = "feed")
    \/ net = "send"
    \/ main = "wakePassthrough" /\ InFull

\* When the source has ended or the user has interrupted, the program ends,
\* if nothing is blocked where stop() cannot reach.
ProgramEnds == main = "stopSource" ~> main = "exited" \/ OutOfReach
=============================================================================

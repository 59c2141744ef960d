-------------------------------- MODULE Relay -------------------------------
(***************************************************************************)
(* cwipc_netserver (scripts/cwipc_netserver.py): packets that come in over *)
(* ingest connections are forwarded to everybody who is connected to the   *)
(* other port.                                                             *)
(*                                                                         *)
(* Each connection has a handler thread.  The forward handlers are in a    *)
(* Python list, which ingest handlers walk over, to forward a packet and   *)
(* to stop the handlers, while handlers are appended to it and removed     *)
(* from it.  A "for" over a list keeps an index: it goes on with the item  *)
(* that is now at the next index.                                          *)
(***************************************************************************)
EXTENDS Naturals, Sequences, SequencesExt, FiniteSets

CONSTANTS
    Ingests,            \* ingest connections that are ever made
    Receivers,          \* outgoing connections that are ever made
    MaxQueue,           \* MAX_OUTPUT_QUEUE
    MaxPackets,         \* bound: packets that come in
    Oneshot             \* --oneshot

\* What is assumed of them: MCNetwork has TLC check it.
ConstantsOK ==
    /\ MaxQueue \in Nat \ {0} /\ MaxPackets \in Nat /\ Oneshot \in BOOLEAN
    /\ IsFiniteSet(Receivers) /\ IsFiniteSet(Ingests)

VARIABLES
    packets,            \* packets that have come in
    ingest,             \* where each ingest handler is
    carried,            \* the packet it is forwarding
    index,              \* the index of its "for" over the list
    stopping,           \* the handler it is stopping
    handlers,           \* forward_server.handlers
    place,              \* where each forward handler is
    request,            \* its self.request is not None
    queue,              \* its transmit_queue
    sending,            \* the packet it has taken from it
    peer,               \* the other side: "out", "in" or "gone"
    settled,            \* the packets each receiver was sent, those its full
                        \* queue did not take, those from before it connected
    removals,           \* history: handlers removed from the list
    relay               \* where the main thread is

ingesting == <<packets, ingest, carried, index, stopping>>
forwarding == <<place, request, queue, sending>>
vars == <<ingesting, handlers, forwarding, peer, settled, removals, relay>>

Init ==
    /\ packets = 0
    /\ ingest = [i \in Ingests |-> "out"]
    /\ carried = [i \in Ingests |-> 0] /\ index = [i \in Ingests |-> 1]
    /\ stopping = [i \in Ingests |-> "none"]
    /\ handlers = <<>>
    /\ place = [r \in Receivers |-> "out"]
    /\ request = [r \in Receivers |-> FALSE]
    /\ queue = [r \in Receivers |-> <<>>]
    /\ sending = [r \in Receivers |-> 0]
    /\ peer = [r \in Receivers |-> "out"]
    /\ settled = [r \in Receivers |-> {}]
    /\ removals = 0
    /\ relay = "serving"

Listed(r) == \E k \in 1 .. Len(handlers) : handlers[k] = r

\* if self in server.handlers: server.handlers.remove(self) ...
Unlist(r) ==
    /\ handlers' = RemoveFirst(handlers, r)
    /\ removals' = removals + 1

-----------------------------------------------------------------------------
(* The ingest handlers                                                     *)

Goto(i, to) == ingest' = [ingest EXCEPT ![i] = to]

IngestConnects(i) ==
    /\ ingest[i] = "out" /\ relay = "serving"
    /\ Goto(i, "receive")
    /\ UNCHANGED <<packets, carried, index, stopping, handlers, forwarding>>
    /\ UNCHANGED <<peer, settled, removals, relay>>

\* handle_receive(): a packet is complete; receiver_forward() begins.
PacketArrives(i) ==
    /\ ingest[i] = "receive" /\ packets < MaxPackets
    /\ packets' = packets + 1
    /\ carried' = [carried EXCEPT ![i] = packets + 1]
    /\ Goto(i, "forward")
    /\ UNCHANGED <<index, stopping, handlers, forwarding, peer, settled, removals, relay>>

\* MUTANT: one more than the queue may hold is an error that loses the rest.
ForwardOneGivesUp(i) ==
    /\ ingest[i] = "forward" /\ index[i] <= Len(handlers)
    /\ LET r == handlers[index[i]]
           full == Len(queue[r]) = MaxQueue
       IN  /\ queue' = IF full THEN queue ELSE [queue EXCEPT ![r] = Append(@, carried[i])]
           /\ settled' = IF full THEN [settled EXCEPT ![r] = @ \cup {carried[i]}] ELSE settled
           /\ Goto(i, IF full THEN "receive" ELSE "forward")
    /\ index' = [index EXCEPT ![i] = @ + 1]
    /\ UNCHANGED <<packets, carried, stopping, handlers, place, request, sending>>
    /\ UNCHANGED <<peer, removals, relay>>

\* MUTANT: the bound of the queue is forgotten.
ForwardOneUnbounded(i) ==
    /\ ingest[i] = "forward" /\ index[i] <= Len(handlers)
    /\ queue' = [queue EXCEPT ![handlers[index[i]]] = Append(@, carried[i])]
    /\ index' = [index EXCEPT ![i] = @ + 1]
    /\ UNCHANGED <<packets, ingest, carried, stopping, handlers, place, request>>
    /\ UNCHANGED <<sending, peer, settled, removals, relay>>

\* One turn of its loop: transmitter_forward(), which does not wait.
ForwardOne(i) ==
    /\ ingest[i] = "forward" /\ index[i] <= Len(handlers)
    /\ LET r == handlers[index[i]]
           full == Len(queue[r]) = MaxQueue
       IN  /\ queue' = IF full THEN queue ELSE [queue EXCEPT ![r] = Append(@, carried[i])]
           /\ settled' = IF full THEN [settled EXCEPT ![r] = @ \cup {carried[i]}] ELSE settled
    /\ index' = [index EXCEPT ![i] = @ + 1]
    /\ UNCHANGED <<packets, ingest, carried, stopping, handlers, place, request>>
    /\ UNCHANGED <<sending, peer, removals, relay>>

ForwardedAll(i) ==
    /\ ingest[i] = "forward" /\ index[i] > Len(handlers)
    /\ Goto(i, "receive")
    /\ carried' = [carried EXCEPT ![i] = 0]
    /\ index' = [index EXCEPT ![i] = 1]
    /\ UNCHANGED <<packets, stopping, handlers, forwarding, peer, settled>>
    /\ UNCHANGED <<removals, relay>>

\* The connection is closed, or a packet is cut short: stop() begins.
IngestEnds(i) ==
    /\ ingest[i] = "receive"
    /\ Goto(i, "stopAll")
    /\ UNCHANGED <<packets, carried, index, stopping, handlers, forwarding, peer>>
    /\ UNCHANGED <<settled, removals, relay>>

\* for forwarder in forward_server.handlers: forwarder.stop(), which begins
\* with "if self in server.handlers".
StopOne(i) ==
    /\ ingest[i] = "stopAll" /\ index[i] <= Len(handlers)
    /\ stopping' = [stopping EXCEPT ![i] = handlers[index[i]]]
    /\ Goto(i, "remove")
    /\ UNCHANGED <<packets, carried, index, handlers, forwarding, peer>>
    /\ UNCHANGED <<settled, removals, relay>>

\* remove() raises when the handler's own thread has removed it meanwhile;
\* the exception ends the ingest handler.
StopRemoves(i) ==
    /\ ingest[i] = "remove"
    /\ \/ Listed(stopping[i]) /\ Unlist(stopping[i]) /\ Goto(i, "close")
       \/ /\ ~Listed(stopping[i])
          /\ Goto(i, "crashed")
          /\ UNCHANGED <<handlers, removals>>
    /\ UNCHANGED <<packets, carried, index, stopping, forwarding, peer>>
    /\ UNCHANGED <<settled, relay>>

\* sock.close(), self.request = None; and on to the next index.
StopCloses(i) ==
    /\ ingest[i] = "close"
    /\ request' = [request EXCEPT ![stopping[i]] = FALSE]
    /\ index' = [index EXCEPT ![i] = @ + 1]
    /\ Goto(i, "stopAll")
    /\ stopping' = [stopping EXCEPT ![i] = "none"]
    /\ UNCHANGED <<packets, carried, handlers, place, queue, sending>>
    /\ UNCHANGED <<peer, settled, removals, relay>>

\* if server.oneshot: server.shutdown()
IngestStopped(i) ==
    /\ ingest[i] = "stopAll" /\ index[i] > Len(handlers)
    /\ Goto(i, "stopped")
    /\ relay' = IF Oneshot /\ relay = "serving" THEN "joinIngest" ELSE relay
    /\ UNCHANGED <<packets, carried, index, stopping, handlers, forwarding>>
    /\ UNCHANGED <<peer, settled, removals>>

\* What does not depend on the peer.
IngestStep(i) ==
    \/ ForwardOne(i) \/ ForwardedAll(i)
    \/ StopOne(i) \/ StopRemoves(i) \/ StopCloses(i) \/ IngestStopped(i)

-----------------------------------------------------------------------------
(* The forward handlers                                                    *)

Move(r, to) == place' = [place EXCEPT ![r] = to]

\* handle(): a receiver connects.
ReceiverConnects(r) ==
    /\ peer[r] = "out" /\ relay \in {"serving", "joinIngest"}
    /\ peer' = [peer EXCEPT ![r] = "in"]
    /\ request' = [request EXCEPT ![r] = TRUE]
    /\ handlers' = Append(handlers, r)
    /\ settled' = [settled EXCEPT ![r] = 1 .. packets]
    /\ Move(r, "loop")
    /\ UNCHANGED <<ingesting, queue, sending, removals, relay>>

ReceiverGoes(r) ==
    /\ peer[r] = "in"
    /\ peer' = [peer EXCEPT ![r] = "gone"]
    /\ UNCHANGED <<ingesting, handlers, forwarding, settled, removals, relay>>

\* while self.request != None
Loop(r) ==
    /\ place[r] = "loop"
    /\ Move(r, IF request[r] THEN "get" ELSE "test")
    /\ UNCHANGED <<ingesting, handlers, request, queue, sending, peer, settled>>
    /\ UNCHANGED <<removals, relay>>

\* self.transmit_queue.get(timeout=1.0)
Get(r) ==
    /\ place[r] = "get"
    /\ \/ /\ queue[r] # <<>>
          /\ sending' = [sending EXCEPT ![r] = Head(queue[r])]
          /\ queue' = [queue EXCEPT ![r] = Tail(@)]
          /\ Move(r, "send")
       \/ queue[r] = <<>> /\ Move(r, "loop") /\ UNCHANGED <<sending, queue>>
    /\ UNCHANGED <<ingesting, handlers, request, peer, settled, removals, relay>>

\* sock.sendall(packet), on a closed socket or to a peer that has gone an
\* exception, which ends handle_transmit().  A receiver that does not read
\* blocks it.
Send(r) ==
    /\ place[r] = "send"
    /\ \/ /\ request[r] /\ peer[r] = "in"
          /\ settled' = [settled EXCEPT ![r] = @ \cup {sending[r]}]
          /\ Move(r, "loop")
       \/ /\ ~request[r] \/ peer[r] = "gone"
          /\ Move(r, "test")
          /\ UNCHANGED settled
    /\ sending' = [sending EXCEPT ![r] = 0]
    /\ UNCHANGED <<ingesting, handlers, request, queue, peer, removals, relay>>

\* Its own stop(): "if self in server.handlers"
TestSelf(r) ==
    /\ place[r] = "test"
    /\ Move(r, IF Listed(r) THEN "remove" ELSE "close")
    /\ UNCHANGED <<ingesting, handlers, request, queue, sending, peer, settled>>
    /\ UNCHANGED <<removals, relay>>

\* remove(), or the exception when an ingest handler was first.
RemoveSelf(r) ==
    /\ place[r] = "remove"
    /\ \/ Listed(r) /\ Unlist(r) /\ Move(r, "close")
       \/ ~Listed(r) /\ Move(r, "ended") /\ UNCHANGED <<handlers, removals>>
    /\ UNCHANGED <<ingesting, request, queue, sending, peer, settled, relay>>

CloseSelf(r) ==
    /\ place[r] = "close"
    /\ request' = [request EXCEPT ![r] = FALSE]
    /\ Move(r, "ended")
    /\ UNCHANGED <<ingesting, handlers, queue, sending, peer, settled, removals, relay>>

HandlerStep(r) == Loop(r) \/ Get(r) \/ TestSelf(r) \/ RemoveSelf(r) \/ CloseSelf(r)

-----------------------------------------------------------------------------
(* The main thread: serve_forever() has returned, server_close() of both   *)
(* servers waits for the handler threads.                                  *)

JoinIngest ==
    /\ relay = "joinIngest"
    /\ \A i \in Ingests : ingest[i] \in {"out", "stopped", "crashed"}
    /\ relay' = "joinForward"
    /\ UNCHANGED <<ingesting, handlers, forwarding, peer, settled, removals>>

JoinForward ==
    /\ relay = "joinForward"
    /\ \A r \in Receivers : place[r] \in {"out", "ended"}
    /\ relay' = "exited"
    /\ UNCHANGED <<ingesting, handlers, forwarding, peer, settled, removals>>

Next ==
    \/ \E i \in Ingests :
        IngestConnects(i) \/ PacketArrives(i) \/ IngestEnds(i) \/ IngestStep(i)
    \/ \E r \in Receivers :
        ReceiverConnects(r) \/ ReceiverGoes(r) \/ HandlerStep(r) \/ Send(r)
    \/ JoinIngest \/ JoinForward

Spec == Init /\ [][Next]_vars

-----------------------------------------------------------------------------
(* Properties                                                              *)

TypeOK ==
    /\ packets \in 0 .. MaxPackets
    /\ index \in [Ingests -> 1 .. Cardinality(Receivers) + 1]
    /\ ToSet(handlers) \subseteq Receivers /\ IsInjective(handlers)
    /\ request \in [Receivers -> BOOLEAN]
    /\ \A r \in Receivers : Len(queue[r]) <= MaxQueue
    /\ settled \in [Receivers -> SUBSET (1 .. MaxPackets)]

\* The packets that came in while r was connected, and are neither with it,
\* on their way to it, nor dropped because its queue was full.
Missed(r) == (1 .. packets) \ (settled[r] \cup ToSet(queue[r]) \cup {sending[r]})

\* A receiver that stays connected misses a packet only where its queue is
\* full or the list changes under the loop of an ingest handler: at most one
\* for each pair of a handler removed and an ingest connection.  (And those
\* that are now being forwarded have not come to it yet.)
OthersCostLittle ==
    \A r \in Receivers :
        Listed(r) /\ peer[r] = "in" =>
            Cardinality(Missed(r)) <=
                Cardinality(Ingests) * removals
                + Cardinality({i \in Ingests : ingest[i] = "forward"})
=============================================================================

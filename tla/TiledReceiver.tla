--------------------------- MODULE TiledReceiver ---------------------------
(***************************************************************************)
(* The receiver of tiled streams, cwipc_util/python/cwipc/net, the way     *)
(* scripts/_scriptsupport.py builds it for --mt_netclient:                 *)
(*                                                                         *)
(*   server -> _NetClientSource -> _NetDecoder -+                          *)
(*   server -> _NetClientSource -> _NetDecoder -+-> _Synchronizer -> get() *)
(*                                                                         *)
(* Each box is a thread that fills a bounded queue for the next.  The      *)
(* synchronizer waits until it has the oldest cloud of every tile, joins   *)
(* those with the smallest timestamp and keeps the others for later.  One  *)
(* thread of the application calls get(); the owner calls start() and      *)
(* stop(), which stops and joins the clients, then the synchronizer.  It   *)
(* does not stop the decoders: they end when their clients have ended.     *)
(*                                                                         *)
(* A packet, and the cloud it is decoded to, is its timestamp; 0 is None.  *)
(* What the synchronizer makes is a timestamp with the tiles it has.       *)
(***************************************************************************)
EXTENDS Naturals, Sequences, FiniteSetsExt

CONSTANTS
    NumTiles,           \* tiles, each with a server, a client and a decoder
    ClientQueue,        \* size of the output_queue of a client (2 in the code)
    DecoderQueue,       \* size of the output_queue of a decoder (2)
    OutputQueue,        \* size of the output_queue of the synchronizer (6)
    MaxTime,            \* bound: timestamps
    MaxPackets,         \* bound: packets of one server
    Unordered,          \* tiles whose server, or another server for the same
                        \* tile after a change of quality, may send old clouds
    Faults              \* what else may go wrong, see below

Tiles == 1 .. NumTiles
Times == 1 .. MaxTime

\* "close": a server refuses or closes the connection, or cuts a packet.
\* "error": connecting fails in another way, or the packet is of another
\* kind, and the client dies of an exception.  "decode": a packet cannot be
\* decoded.
ASSUME TiledReceiverAssumption ==
    /\ NumTiles \in Nat \ {0} /\ MaxTime \in Nat \ {0} /\ MaxPackets \in Nat
    /\ ClientQueue \in Nat \ {0} /\ DecoderQueue \in Nat \ {0}
    /\ OutputQueue \in Nat \ {0}
    /\ Unordered \subseteq Tiles /\ Faults \subseteq {"close", "error", "decode"}

VARIABLES
    sent,               \* history: what each server has sent
    \* the clients
    client, clientPC, clientQ,
    clientRunning,      \* running
    refused,            \* _conn_refused
    \* the decoders
    decoder, decoderPC, decoderQ,
    decoderRunning,
    \* the synchronizer
    sync,
    heads,              \* input_buffers
    earliest,           \* earliest_timestamp
    todo,               \* tiles this round of the loop has still to look at
    missing,            \* any_empty_input_buffers
    syncRunning, outputQ,
    \* the application
    owner, joining,     \* place, the client being stopped
    app,                \* the thread that calls get()
    got                 \* history: what get() has returned

clients == <<client, clientPC, clientQ, clientRunning, refused>>
decoders == <<decoder, decoderPC, decoderQ, decoderRunning>>
rounds == <<heads, earliest, todo, missing>>
synchronizer == <<sync, rounds, syncRunning, outputQ>>
application == <<owner, joining, app, got>>
vars == <<sent, clients, decoders, synchronizer, application>>

\* The decoders are started when they are created.
Init ==
    /\ sent = [t \in Tiles |-> <<>>]
    /\ client = [t \in Tiles |-> "off"] /\ clientPC = [t \in Tiles |-> 0]
    /\ clientQ = [t \in Tiles |-> <<>>]
    /\ clientRunning = [t \in Tiles |-> FALSE] /\ refused = [t \in Tiles |-> FALSE]
    /\ decoder = [t \in Tiles |-> "loop"] /\ decoderPC = [t \in Tiles |-> 0]
    /\ decoderQ = [t \in Tiles |-> <<>>] /\ decoderRunning = [t \in Tiles |-> TRUE]
    /\ sync = "off" /\ heads = [t \in Tiles |-> 0] /\ earliest = 0
    /\ todo = {} /\ missing = FALSE /\ syncRunning = FALSE /\ outputQ = <<>>
    /\ owner = "idle" /\ joining = 1 /\ app = "idle" /\ got = <<>>

None == [ts |-> 0, tiles |-> {}]

\* put(x, block=False): dropped when the queue is full.
Offered(q, size, x) == IF Len(q) < size THEN Append(q, x) ELSE q

Set(f, t, v) == [f EXCEPT ![t] = v]

-----------------------------------------------------------------------------
(* The client of tile t                                                    *)

\* while self.running; then connect if there is no connection yet.
ClientTests(t) ==
    /\ client[t] = "loop" /\ clientRunning[t]
    /\ client' = Set(client, t, "recv")
    /\ UNCHANGED <<sent, clientPC, clientQ, clientRunning, refused>>
    /\ UNCHANGED <<decoders, synchronizer, application>>

\* Timestamps that the server of tile t may send next.
Newer(t) == {i \in Times : \A j \in 1 .. Len(sent[t]) : sent[t][j] < i}

ClientReceives(t) ==
    /\ client[t] = "recv" /\ Len(sent[t]) < MaxPackets
    /\ \E i \in IF t \in Unordered THEN Times ELSE Newer(t) :
        /\ sent' = Set(sent, t, Append(sent[t], i))
        /\ clientPC' = Set(clientPC, t, i)
    /\ client' = Set(client, t, "put")
    /\ UNCHANGED <<clientQ, clientRunning, refused, decoders, synchronizer, application>>

\* output_queue.put(data) blocks while the queue is full.
ClientPuts(t) ==
    /\ client[t] = "put" /\ Len(clientQ[t]) < ClientQueue
    /\ clientQ' = Set(clientQ, t, Append(clientQ[t], clientPC[t]))
    /\ clientPC' = Set(clientPC, t, 0)
    /\ client' = Set(client, t, "loop")
    /\ UNCHANGED <<sent, clientRunning, refused, decoders, synchronizer, application>>

\* The loop ends: stop() was called, or the connection was refused or broken.
ClientLeaves(t) ==
    /\ \/ client[t] = "loop" /\ ~clientRunning[t]
       \/ client[t] = "recv" /\ "close" \in Faults
    /\ clientRunning' = Set(clientRunning, t, FALSE)
    /\ refused' = Set(refused, t, TRUE)
    /\ clientQ' = Set(clientQ, t, Offered(clientQ[t], ClientQueue, 0))
    /\ client' = Set(client, t, "exited")
    /\ UNCHANGED <<sent, clientPC, decoders, synchronizer, application>>

\* An exception ends the thread and nothing else.
ClientDies(t) ==
    /\ client[t] = "recv" /\ "error" \in Faults
    /\ client' = Set(client, t, "exited")
    /\ UNCHANGED <<sent, clientPC, clientQ, clientRunning, refused>>
    /\ UNCHANGED <<decoders, synchronizer, application>>

Client(t) ==
    ClientTests(t) \/ ClientReceives(t) \/ ClientPuts(t) \/ ClientLeaves(t) \/ ClientDies(t)

-----------------------------------------------------------------------------
(* The decoder of tile t                                                   *)

\* while self.running, source.eof() and the test of eof() in source.get()
DecoderTests(t) ==
    /\ decoder[t] = "loop"
    /\ \/ /\ refused[t]
          /\ decoder' = Set(decoder, t, "exited")
          /\ decoderRunning' = Set(decoderRunning, t, FALSE)
       \/ /\ ~refused[t]
          /\ decoder' = Set(decoder, t, "get")
          /\ UNCHANGED decoderRunning
    /\ UNCHANGED <<sent, clients, decoderPC, decoderQ, synchronizer, application>>

\* The queue of the client delivers a packet, or None.
DecoderTakes(t) ==
    /\ decoder[t] = "get" /\ clientQ[t] # <<>>
    /\ clientQ' = Set(clientQ, t, Tail(clientQ[t]))
    /\ \/ /\ Head(clientQ[t]) # 0
          /\ decoderPC' = Set(decoderPC, t, Head(clientQ[t]))
          /\ decoder' = Set(decoder, t, "put")
          /\ UNCHANGED decoderRunning
       \/ /\ Head(clientQ[t]) = 0
          /\ decoder' = Set(decoder, t, "exited")
          /\ decoderRunning' = Set(decoderRunning, t, FALSE)
          /\ UNCHANGED decoderPC
    /\ UNCHANGED <<sent, client, clientPC, clientRunning, refused, decoderQ>>
    /\ UNCHANGED <<synchronizer, application>>

DecoderPuts(t) ==
    /\ decoder[t] = "put" /\ Len(decoderQ[t]) < DecoderQueue
    /\ decoderQ' = Set(decoderQ, t, Append(decoderQ[t], decoderPC[t]))
    /\ decoderPC' = Set(decoderPC, t, 0)
    /\ decoder' = Set(decoder, t, "loop")
    /\ UNCHANGED <<sent, clients, decoderRunning, synchronizer, application>>

\* assert pc: the thread dies, with self.running still true.
DecoderDies(t) ==
    /\ decoder[t] = "put" /\ "decode" \in Faults
    /\ decoderPC' = Set(decoderPC, t, 0)
    /\ decoder' = Set(decoder, t, "exited")
    /\ UNCHANGED <<sent, clients, decoderQ, decoderRunning, synchronizer, application>>

Decoder(t) == DecoderTests(t) \/ DecoderTakes(t) \/ DecoderPuts(t) \/ DecoderDies(t)

\* eof() and available(False) of the decoder
DecoderEof(t) == ~decoderRunning[t] \/ (decoderQ[t] = <<>> /\ refused[t])
DecoderAvailable(t) ==
    decoderRunning[t] /\ (decoderQ[t] # <<>> \/ clientQ[t] # <<>>)

AnySourceEof == \E t \in Tiles : DecoderEof(t)

-----------------------------------------------------------------------------
(* The synchronizer                                                        *)


\* The next round: throw away outdated heads, then look at the empty ones.
SyncTests ==
    /\ sync = "loop" /\ syncRunning /\ ~AnySourceEof
    /\ heads' = [t \in Tiles |-> IF heads[t] < earliest THEN 0 ELSE heads[t]]
    /\ todo' = {t \in Tiles : heads'[t] = 0}
    /\ missing' = FALSE
    /\ sync' = "fill"
    /\ UNCHANGED <<sent, clients, decoders, earliest, syncRunning, outputQ, application>>

SyncLeaves ==
    /\ sync = "loop" /\ (~syncRunning \/ AnySourceEof)
    /\ syncRunning' = FALSE
    /\ outputQ' = Offered(outputQ, OutputQueue, None)
    /\ sync' = "exited"
    /\ UNCHANGED <<sent, clients, decoders, rounds, application>>

\* The tile the round is at.
Turn == Min(todo)

\* Nothing there, or get() finds that the decoder has ended and returns None
\* (available() may have been asked before the decoder ended).
SyncSkips ==
    /\ sync = "fill" /\ todo # {}
    /\ \/ ~DecoderAvailable(Turn) /\ todo' = todo \ {Turn}
       \/ DecoderEof(Turn) /\ todo' = {}
    /\ missing' = TRUE
    /\ UNCHANGED <<sent, clients, decoders, sync, heads, earliest, syncRunning, outputQ>>
    /\ UNCHANGED application

\* available(False), and eof() at the beginning of get() is false ...
SyncGets ==
    /\ sync = "fill" /\ todo # {}
    /\ DecoderAvailable(Turn) /\ ~DecoderEof(Turn)
    /\ sync' = "get"
    /\ UNCHANGED <<sent, clients, decoders, rounds, syncRunning, outputQ, application>>

\* ... and the blocking get of the decoder's queue returns.
SyncTakes ==
    /\ sync = "get" /\ decoderQ[Turn] # <<>>
    /\ decoderQ' = Set(decoderQ, Turn, Tail(decoderQ[Turn]))
    /\ \/ /\ Head(decoderQ[Turn]) >= earliest
          /\ heads' = Set(heads, Turn, Head(decoderQ[Turn]))
          /\ UNCHANGED missing
       \/ /\ Head(decoderQ[Turn]) < earliest
          /\ missing' = TRUE
          /\ UNCHANGED heads
    /\ todo' = todo \ {Turn}
    /\ sync' = "fill"
    /\ UNCHANGED <<sent, clients, decoder, decoderPC, decoderRunning>>
    /\ UNCHANGED <<earliest, syncRunning, outputQ, application>>

\* MUTANT: goes on to the next round without looking whether to stop.
SyncRetriesForever ==
    /\ sync = "fill" /\ todo = {} /\ missing
    /\ todo' = {t \in Tiles : heads[t] = 0}
    /\ missing' = FALSE
    /\ UNCHANGED <<sent, clients, decoders, sync, heads, earliest, syncRunning>>
    /\ UNCHANGED <<outputQ, application>>

SyncRetries ==
    /\ sync = "fill" /\ todo = {} /\ missing
    /\ sync' = "loop"
    /\ UNCHANGED <<sent, clients, decoders, rounds, syncRunning, outputQ, application>>

\* current_earliest_timestamp
Oldest == Min({heads[t] : t \in Tiles})

\* MUTANT: joins the latest of the heads instead of the oldest.
SyncPutsNewest ==
    /\ sync = "fill" /\ todo = {} /\ ~missing /\ Len(outputQ) < OutputQueue
    /\ LET newest == Max({heads[t] : t \in Tiles}) IN
        /\ outputQ' = Append(outputQ, [ts |-> newest,
                                      tiles |-> {t \in Tiles : heads[t] = newest}])
        /\ earliest' = newest + 1
    /\ sync' = "loop"
    /\ UNCHANGED <<sent, clients, decoders, heads, todo, missing, syncRunning, application>>

\* All heads are there: join those of the oldest time.  put() blocks.
SyncPuts ==
    /\ sync = "fill" /\ todo = {} /\ ~missing /\ Len(outputQ) < OutputQueue
    /\ outputQ' = Append(outputQ, [ts |-> Oldest,
                                   tiles |-> {t \in Tiles : heads[t] = Oldest}])
    /\ earliest' = Oldest + 1
    /\ sync' = "loop"
    /\ UNCHANGED <<sent, clients, decoders, heads, todo, missing, syncRunning, application>>

Synchronizer ==
    \/ SyncTests \/ SyncLeaves \/ SyncSkips \/ SyncGets \/ SyncTakes
    \/ SyncRetries \/ SyncPuts

-----------------------------------------------------------------------------
(* The application                                                         *)

\* get(): returns None at eof(), which changes nothing, or waits.
AppGets ==
    /\ app = "idle"
    /\ syncRunning /\ (outputQ # <<>> \/ ~AnySourceEof)
    /\ app' = "get"
    /\ UNCHANGED <<sent, clients, decoders, synchronizer, owner, joining, got>>

AppTakes ==
    /\ app = "get" /\ outputQ # <<>>
    /\ outputQ' = Tail(outputQ)
    /\ got' = IF Head(outputQ) = None THEN got ELSE Append(got, Head(outputQ))
    /\ app' = "idle"
    /\ UNCHANGED <<sent, clients, decoders, sync, rounds, syncRunning, owner, joining>>

Start ==
    /\ owner = "idle"
    /\ syncRunning' = TRUE
    /\ clientRunning' = [t \in Tiles |-> TRUE]
    /\ client' = [t \in Tiles |-> "loop"]
    /\ sync' = "loop"
    /\ owner' = "started"
    /\ UNCHANGED <<sent, clientPC, clientQ, refused, decoders, rounds, outputQ>>
    /\ UNCHANGED <<joining, app, got>>

Stop ==
    /\ owner = "started"
    /\ syncRunning' = FALSE
    /\ owner' = "stopClient"
    /\ UNCHANGED <<sent, clients, decoders, sync, rounds, outputQ, joining, app, got>>

\* MUTANT: the None is put whether there is room or not.
StopClientUnbounded ==
    /\ owner = "stopClient"
    /\ clientRunning' = Set(clientRunning, joining, FALSE)
    /\ clientQ' = Set(clientQ, joining, Append(clientQ[joining], 0))
    /\ owner' = "joinClient"
    /\ UNCHANGED <<sent, client, clientPC, refused, decoders, synchronizer>>
    /\ UNCHANGED <<joining, app, got>>

\* reader.stop(), one client after the other: _NetClientSource.stop()
StopClient ==
    /\ owner = "stopClient"
    /\ clientRunning' = Set(clientRunning, joining, FALSE)
    /\ clientQ' = Set(clientQ, joining, Offered(clientQ[joining], ClientQueue, 0))
    /\ owner' = "joinClient"
    /\ UNCHANGED <<sent, client, clientPC, refused, decoders, synchronizer>>
    /\ UNCHANGED <<joining, app, got>>

StopJoinsClient ==
    /\ owner = "joinClient" /\ client[joining] = "exited"
    /\ \/ /\ joining < NumTiles
          /\ joining' = joining + 1
          /\ owner' = "stopClient"
          /\ UNCHANGED outputQ
       \/ /\ joining = NumTiles
          /\ outputQ' = Offered(outputQ, OutputQueue, None)
          /\ owner' = "joinSync"
          /\ UNCHANGED joining
    /\ UNCHANGED <<sent, clients, decoders, sync, rounds, syncRunning, app, got>>

StopJoinsSync ==
    /\ owner = "joinSync" /\ sync = "exited"
    /\ owner' = "stopped"
    /\ UNCHANGED <<sent, clients, decoders, synchronizer, joining, app, got>>

Stopping == StopClient \/ StopJoinsClient \/ StopJoinsSync

-----------------------------------------------------------------------------
Next ==
    \/ \E t \in Tiles : Client(t) \/ Decoder(t)
    \/ Synchronizer
    \/ AppGets \/ AppTakes
    \/ Start \/ Stop \/ Stopping

Spec == Init /\ [][Next]_vars

(* Fairness: every thread goes on.  A server does not have to send or to   *)
(* close, and nobody has to call get() or stop().                          *)
LiveSpec ==
    /\ Spec
    /\ \A t \in Tiles :
        /\ WF_vars(ClientTests(t) \/ ClientPuts(t))
        /\ WF_vars(client[t] = "loop" /\ ClientLeaves(t))
        /\ WF_vars(Decoder(t))
    /\ WF_vars(Synchronizer) /\ WF_vars(AppTakes) /\ WF_vars(Stopping)

-----------------------------------------------------------------------------
Packets == 0 .. MaxTime
Joined == [ts : Packets, tiles : SUBSET Tiles]

ThreadsTypeOK ==
    /\ client \in [Tiles -> {"off", "loop", "recv", "put", "exited"}]
    /\ decoder \in [Tiles -> {"loop", "get", "put", "exited"}]
    /\ sync \in {"off", "loop", "fill", "get", "exited"}
    /\ owner \in {"idle", "started", "stopClient", "joinClient", "joinSync", "stopped"}
    /\ app \in {"idle", "get"} /\ joining \in Tiles

QueuesTypeOK ==
    /\ \A t \in Tiles :
        /\ clientQ[t] \in Seq(Packets) /\ Len(clientQ[t]) <= ClientQueue
        /\ decoderQ[t] \in Seq(Times) /\ Len(decoderQ[t]) <= DecoderQueue
    /\ outputQ \in Seq(Joined) /\ Len(outputQ) <= OutputQueue

DataTypeOK ==
    /\ clientPC \in [Tiles -> Packets] /\ decoderPC \in [Tiles -> Packets]
    /\ clientRunning \in [Tiles -> BOOLEAN] /\ refused \in [Tiles -> BOOLEAN]
    /\ decoderRunning \in [Tiles -> BOOLEAN] /\ syncRunning \in BOOLEAN
    /\ heads \in [Tiles -> Packets] /\ earliest \in 0 .. MaxTime + 1
    /\ todo \subseteq Tiles /\ missing \in BOOLEAN
    /\ \A t \in Tiles : sent[t] \in Seq(Times)
    /\ got \in Seq(Joined)

TypeOK == ThreadsTypeOK /\ QueuesTypeOK /\ DataTypeOK

\* What get() has returned and will return, in this order, with every None
\* that ends a wait; and the clouds among it.
Results == got \o outputQ
Delivered == {Results[i] : i \in 1 .. Len(Results)} \ {None}

\* The application never sees a time twice or goes back in time, although
\* servers may send late and old packets.
Advances(s) ==
    \A i, j \in 1 .. Len(s) :
        i < j /\ s[i] # None /\ s[j] # None => s[i].ts < s[j].ts
TimeAdvances == Advances(Results)

SentBy(t) == {sent[t][j] : j \in 1 .. Len(sent[t])}

InOrder(t) == \A i, j \in 1 .. Len(sent[t]) : i < j => sent[t][i] < sent[t][j]

\* As long as the servers send in the order of time, a cloud without some tile
\* is delivered only when the server of that tile has nothing of that time:
\* no tile is given up because it came late.
TilesComplete ==
    (\A t \in Tiles : InOrder(t)) =>
        \A d \in Delivered : d.tiles = {t \in Tiles : d.ts \in SentBy(t)}

\* Nor is a time left out: each tile sent before the latest delivered time has
\* been delivered, however far the servers are apart.
NoTimeSkipped ==
    (\A t \in Tiles : InOrder(t)) =>
        \A t \in Tiles : \A i \in SentBy(t) :
            (\E d \in Delivered : i < d.ts) => \E d \in Delivered : d.ts = i

\* All three: what is delivered depends on what the servers sent, not on the
\* order in which three layers of threads passed it on.
Synchronized == TimeAdvances /\ TilesComplete /\ NoTimeSkipped

\* A get() is answered when every server has sent something newer than what
\* was delivered, unless a connection, a decoder or the receiver ends.
Waiting ==
    /\ app = "get"
    /\ \A t \in Tiles : \E i \in SentBy(t) : i >= earliest
GivenUp ==
    ~syncRunning \/ \E t \in Tiles : client[t] = "exited" \/ decoder[t] = "exited"

\* Calls that stop() does not interrupt: recv() from a silent server, put()
\* into a full queue, and get() of the synchronizer from a decoder that has
\* nothing.
Stuck ==
    \/ client[joining] = "recv"
    \/ client[joining] = "put" /\ Len(clientQ[joining]) = ClientQueue
    \/ sync = "fill" /\ todo = {} /\ ~missing /\ Len(outputQ) = OutputQueue
    \/ sync = "get" /\ decoderQ[Turn] = <<>>

\* stop() returns, or a thread it joins is stuck forever in one of them.
StopReturnsUnlessStuck == owner = "stopClient" ~> owner = "stopped" \/ []Stuck

\* get() returns when all connections have ended ("Returns None if no more
\* pointclouds are forthcoming").
GetReturnsAtEnd == app = "get" /\ (\A t \in Tiles : refused[t]) ~> app = "idle"
=============================================================================

----------------------------- MODULE ProxySource ----------------------------
(***************************************************************************)
(* The proxy source, cwipc_util/src/cwipc_proxy.cpp: a server thread       *)
(* accepts one connection at a time, receives point clouds from it and     *)
(* leaves the latest in m_pc for the application to get().                 *)
(*                                                                         *)
(* m_pc is guarded by m_pc_mutex, but m_running, m_listen_socket and       *)
(* m_socket are not: stop() writes them while the server thread uses them, *)
(* so each unguarded access is a step of its own.  A blocking call is two  *)
(* steps: the socket is looked up when the call is made (place "recv..."), *)
(* and the call goes on with that socket ("receiving...") whatever         *)
(* m_socket says later.                                                    *)
(*                                                                         *)
(* The mutex is held from the publication of a cloud until the             *)
(* acknowledgement has been sent (server = "ack"); the getters' critical   *)
(* sections are single steps.  Their test and their sleep are one step     *)
(* too: stop() does not notify at all, and the server thread notifies      *)
(* while it holds the mutex.                                               *)
(***************************************************************************)
EXTENDS Naturals

CONSTANTS
    Consumers,          \* application threads calling get() and available()
    CloseWakes,         \* closing a socket wakes a thread blocked on it
    MaxClouds,          \* bound: clouds received in a behaviour
    MaxConnections,     \* bound: connections that are ever made
    MaxStarts,          \* bound: calls of start()
    MaxCalls            \* bound: calls of get() and available() together

\* What is assumed of them: MCNetwork has TLC check it.
ConstantsOK ==
    /\ CloseWakes \in BOOLEAN
    /\ MaxClouds \in Nat /\ MaxConnections \in Nat
    /\ MaxStarts \in Nat /\ MaxCalls \in Nat

Connections == 1 .. MaxConnections
Clouds == 1 .. MaxClouds

VARIABLES
    running,            \* m_running
    listen,             \* m_listen_socket: "open", "closed" (but not yet -1), "none"
    socket,             \* m_socket: the connection, 0 for -1
    pc,                 \* m_pc, 0 for NULL
    server,             \* where the server thread is
    fd,                 \* the connection a blocked recv() was called on
    newPC,              \* its local pc, 0 for none
    cons,               \* where each consumer is
    main,               \* where the owner, who calls start() and stop(), is
    starts, calls,      \* counts, for the bounds
    connection,         \* what became of each connection; "late" is an open one
                        \* that was accepted while stop() was under way
    made, where, last   \* history: see CloudSource

object == <<running, listen, socket, pc>>
thread == <<server, fd, newPC>>
application == <<cons, main, starts, calls>>
clouds == <<made, where, last>>
vars == <<object, thread, application, connection, clouds>>

Init ==
    /\ running = FALSE /\ listen = "open" /\ socket = 0 /\ pc = 0
    /\ server = "off" /\ fd = 0 /\ newPC = 0
    /\ cons = [t \in Consumers |-> "idle"]
    /\ main = "idle" /\ starts = 0 /\ calls = 0
    /\ connection = [c \in Connections |-> "unused"]
    /\ made = 0 /\ where = [i \in Clouds |-> "unmade"] /\ last = 0

Notified ==
    [t \in Consumers |->
        CASE cons[t] = "getAsleep" -> "get"
          [] cons[t] = "availAsleep" -> "avail"
          [] OTHER -> cons[t]]

\* closesocket(m_socket); closing it twice, or closing -1, fails silently.
Closed == IF socket = 0 THEN connection ELSE [connection EXCEPT ![socket] = "closed"]

IsOpen(c) == connection[c] \in {"open", "late"}
Usable == socket # 0 /\ IsOpen(socket)

-----------------------------------------------------------------------------
(* The server thread, _server_main()                                       *)

\* while (m_running)
Loop ==
    /\ server = "loop"
    /\ server' = IF running THEN "connect" ELSE "cleanup"
    /\ UNCHANGED <<object, fd, newPC, application, connection, clouds>>

\* if (m_socket < 0)
NeedConnection ==
    /\ server = "connect"
    /\ server' = IF socket = 0 THEN "accept" ELSE "recvHeader"
    /\ UNCHANGED <<object, fd, newPC, application, connection, clouds>>

CallAccept ==
    /\ server = "accept" /\ listen = "open"
    /\ server' = "accepting"
    /\ UNCHANGED <<object, fd, newPC, application, connection, clouds>>

\* accept() returns a connection, also when stop() has closed the listening
\* socket in the meantime.
Accepted ==
    /\ server = "accepting"
    /\ \E c \in Connections :
        /\ connection[c] = "unused"
        /\ \A d \in Connections : d < c => connection[d] # "unused"
        /\ connection' =
            [connection EXCEPT ![c] = IF listen = "open" THEN "open" ELSE "late"]
        /\ socket' = c
    /\ server' = "recvHeader"
    /\ UNCHANGED <<running, listen, pc, fd, newPC, application, clouds>>

\* accept() fails: the socket was closed, or the process has no file
\* descriptors left.  Then it is closed (once more) but stays >= 0.
AcceptFails ==
    /\ \/ server = "accept" /\ listen # "open"
       \/ server = "accepting" /\ (listen # "open" => CloseWakes)
    /\ listen' = IF listen = "open" THEN "closed" ELSE listen
    /\ running' = FALSE
    /\ server' = "cleanup"
    /\ UNCHANGED <<socket, pc, fd, newPC, application, connection, clouds>>

\* MUTANT: a broken connection is not closed.
RecvFailsUnclosed ==
    /\ \/ server \in {"recvHeader", "recvBody"} /\ ~Usable
       \/ /\ server \in {"receivingHeader", "receivingBody"}
          /\ connection[fd] = "closed" => CloseWakes
    /\ socket' = 0
    /\ fd' = 0
    /\ server' = "loop"
    /\ UNCHANGED <<running, listen, pc, newPC, application, connection, clouds>>

\* _recvall() of the header, of the body: recv() looks m_socket up.
CallRecv ==
    /\ server \in {"recvHeader", "recvBody"} /\ Usable
    /\ fd' = socket
    /\ server' = IF server = "recvHeader" THEN "receivingHeader" ELSE "receivingBody"
    /\ UNCHANGED <<object, newPC, application, connection, clouds>>

\* recv() returns less than was asked for, or an error.  Without connection
\* at once; or when the peer closes it; or when stop() does.
RecvFails ==
    /\ \/ server \in {"recvHeader", "recvBody"} /\ ~Usable
       \/ /\ server \in {"receivingHeader", "receivingBody"}
          /\ connection[fd] = "closed" => CloseWakes
    /\ connection' = Closed
    /\ socket' = 0
    /\ fd' = 0
    /\ server' = "loop"
    /\ UNCHANGED <<running, listen, pc, newPC, application, clouds>>

HeaderArrives ==
    /\ server = "receivingHeader"
    /\ fd' = 0
    /\ server' = "recvBody"
    /\ UNCHANGED <<object, newPC, application, connection, clouds>>

\* The peer does not speak the protocol: the magic number is wrong, or the
\* size asks for more memory than there is, or is not a number of points.
Garbage ==
    /\ server \in {"receivingHeader", "receivingBody"}
    /\ fd' = 0
    /\ server' = "cleanup"
    /\ UNCHANGED <<object, newPC, application, connection, clouds>>

\* The body is complete: cwipc_from_points().
BodyArrives ==
    /\ server = "receivingBody" /\ made < MaxClouds
    /\ made' = made + 1
    /\ newPC' = made + 1
    /\ where' = [where EXCEPT ![made + 1] = "source"]
    /\ fd' = 0
    /\ server' = "publish"
    /\ UNCHANGED <<object, application, connection, last>>

\* Take m_pc_mutex, free a cloud nobody read, notify.
Publish ==
    /\ server = "publish"
    /\ where' = IF pc # 0 THEN [where EXCEPT ![pc] = "freed"] ELSE where
    /\ pc' = newPC
    /\ newPC' = 0
    /\ cons' = Notified
    /\ server' = "ack"
    /\ UNCHANGED <<running, listen, socket, fd, main, starts, calls>>
    /\ UNCHANGED <<connection, made, last>>

\* send(), which fails if the peer or stop() closed the connection; and
\* release the mutex.
Acknowledge ==
    /\ server = "ack"
    /\ \/ Usable /\ UNCHANGED <<socket, connection>>
       \/ socket' = 0 /\ connection' = Closed
    /\ server' = "loop"
    /\ UNCHANGED <<running, listen, pc, fd, newPC, application, clouds>>

Cleanup ==
    /\ server = "cleanup"
    /\ connection' = Closed
    /\ socket' = 0
    /\ server' = "lastNotify"
    /\ UNCHANGED <<running, listen, pc, fd, newPC, application, clouds>>

\* MUTANT: the server thread leaves without telling the getters.
LeaveQuietly ==
    /\ server = "lastNotify"
    /\ running' = FALSE
    /\ server' = "exited"
    /\ UNCHANGED <<listen, socket, pc, fd, newPC, application, connection, clouds>>

LastNotify ==
    /\ server = "lastNotify"
    /\ running' = FALSE
    /\ cons' = Notified
    /\ server' = "exited"
    /\ UNCHANGED <<listen, socket, pc, fd, newPC, main, starts, calls>>
    /\ UNCHANGED <<connection, clouds>>

Server ==
    \/ Loop \/ NeedConnection \/ CallAccept \/ AcceptFails
    \/ CallRecv \/ RecvFails \/ Publish \/ Acknowledge
    \/ Cleanup \/ LastNotify

\* What the peer makes happen.
Peer == Accepted \/ HeaderArrives \/ Garbage \/ BodyArrives

-----------------------------------------------------------------------------
(* Application threads                                                     *)

Call(t) ==
    /\ cons[t] = "idle" /\ main # "gone" /\ calls < MaxCalls
    /\ calls' = calls + 1
    /\ \E call \in {"get", "avail"} : cons' = [cons EXCEPT ![t] = call]
    /\ UNCHANGED <<object, thread, main, starts, connection, clouds>>

\* MUTANT: get() does not clear m_pc.
TakeAndKeep(t) ==
    /\ cons[t] = "get" /\ server # "ack" /\ (pc # 0 \/ ~running)
    /\ where' = IF pc # 0 THEN [where EXCEPT ![pc] = "caller"] ELSE where
    /\ last' = IF pc # 0 THEN pc ELSE last
    /\ cons' = [cons EXCEPT ![t] = "idle"]
    /\ UNCHANGED <<object, thread, main, starts, calls, connection, made>>

\* get() returns m_pc, which may be NULL when the server does not run.
Take(t) ==
    /\ cons[t] = "get" /\ server # "ack" /\ (pc # 0 \/ ~running)
    /\ where' = IF pc # 0 THEN [where EXCEPT ![pc] = "caller"] ELSE where
    /\ last' = IF pc # 0 THEN pc ELSE last
    /\ pc' = 0
    /\ cons' = [cons EXCEPT ![t] = "idle"]
    /\ UNCHANGED <<running, listen, socket, thread, main, starts, calls>>
    /\ UNCHANGED <<connection, made>>

AvailableReturns(t) ==
    /\ cons[t] = "avail" /\ server # "ack" /\ (pc # 0 \/ ~running)
    /\ cons' = [cons EXCEPT ![t] = "idle"]
    /\ UNCHANGED <<object, thread, main, starts, calls, connection, clouds>>

FallAsleep(t) ==
    /\ cons[t] \in {"get", "avail"} /\ server # "ack" /\ pc = 0 /\ running
    /\ cons' = [cons EXCEPT ![t] = IF @ = "get" THEN "getAsleep" ELSE "availAsleep"]
    /\ UNCHANGED <<object, thread, main, starts, calls, connection, clouds>>

InCall(t) == Take(t) \/ AvailableReturns(t) \/ FallAsleep(t)

SpuriousWakeup(t) ==
    /\ cons[t] \in {"getAsleep", "availAsleep"}
    /\ cons' = [cons EXCEPT ![t] = IF @ = "getAsleep" THEN "get" ELSE "avail"]
    /\ UNCHANGED <<object, thread, main, starts, calls, connection, clouds>>

-----------------------------------------------------------------------------
(* start(), stop() and free(), called by the owner                         *)

\* Once running, start() is not called again before stop().
Start ==
    /\ main = "idle" /\ server = "off" /\ starts < MaxStarts
    /\ starts' = starts + 1
    /\ running' = TRUE
    /\ server' = "loop"
    /\ UNCHANGED <<listen, socket, pc, fd, newPC, cons, main, calls>>
    /\ UNCHANGED <<connection, clouds>>

\* (Before start() it would join a thread that was never initialised.)
Stop ==
    /\ main = "idle" /\ server # "off"
    /\ running' = FALSE
    /\ main' = "closeListen"
    /\ UNCHANGED <<listen, socket, pc, thread, cons, starts, calls>>
    /\ UNCHANGED <<connection, clouds>>

StopClosesListen ==
    /\ main = "closeListen"
    /\ listen' = IF listen = "open" THEN "closed" ELSE listen
    /\ main' = "clearListen"
    /\ UNCHANGED <<running, socket, pc, thread, cons, starts, calls>>
    /\ UNCHANGED <<connection, clouds>>

StopClearsListen ==
    /\ main = "clearListen"
    /\ listen' = "none"
    /\ main' = "closeConnection"
    /\ UNCHANGED <<running, socket, pc, thread, cons, starts, calls>>
    /\ UNCHANGED <<connection, clouds>>

\* MUTANT: stop() forgets the connection without closing it.
StopKeepsConnection ==
    /\ main = "closeConnection"
    /\ main' = "clearConnection"
    /\ UNCHANGED <<object, thread, cons, starts, calls, connection, clouds>>

StopClosesConnection ==
    /\ main = "closeConnection"
    /\ connection' = Closed
    /\ main' = "clearConnection"
    /\ UNCHANGED <<object, thread, cons, starts, calls, clouds>>

StopClearsConnection ==
    /\ main = "clearConnection"
    /\ socket' = 0
    /\ main' = "join"
    /\ UNCHANGED <<running, listen, pc, thread, cons, starts, calls>>
    /\ UNCHANGED <<connection, clouds>>

StopJoins ==
    /\ main = "join" /\ server = "exited"
    /\ server' = "off"
    /\ main' = "idle"
    /\ UNCHANGED <<object, fd, newPC, cons, starts, calls, connection, clouds>>

\* free() of a source that runs stops it first; that is Stop.  It frees
\* neither the object nor m_pc.
Free ==
    /\ main = "idle" /\ ~running
    /\ \A t \in Consumers : cons[t] = "idle"
    /\ main' = "gone"
    /\ UNCHANGED <<object, thread, cons, starts, calls, connection, clouds>>

Stopping ==
    \/ StopClosesListen \/ StopClearsListen
    \/ StopClosesConnection \/ StopClearsConnection \/ StopJoins

Next ==
    \/ Server \/ Peer
    \/ \E t \in Consumers : Call(t) \/ InCall(t) \/ SpuriousWakeup(t)
    \/ Start \/ Stop \/ Free \/ Stopping

Spec == Init /\ [][Next]_vars

\* The server thread is in a blocking call that nobody here can end.
WaitingForPeer ==
    \/ server = "accepting" /\ (listen # "open" => ~CloseWakes)
    \/ /\ server \in {"receivingHeader", "receivingBody"}
       /\ connection[fd] = "closed" => ~CloseWakes

\* Fairness.  Threads run on, but the peer need not send or close anything.
ServerRuns == Server /\ ~WaitingForPeer
LiveSpec ==
    /\ Spec
    /\ WF_vars(ServerRuns)
    /\ \A t \in Consumers : SF_vars(InCall(t))
    /\ WF_vars(Stopping)

-----------------------------------------------------------------------------
(* Properties                                                              *)

TypeOK ==
    /\ running \in BOOLEAN /\ listen \in {"open", "closed", "none"}
    /\ socket \in 0 .. MaxConnections /\ fd \in 0 .. MaxConnections
    /\ pc \in 0 .. MaxClouds /\ newPC \in 0 .. MaxClouds
    /\ server \in {"off", "loop", "connect", "accept", "accepting", "recvHeader",
                   "receivingHeader", "recvBody", "receivingBody", "publish",
                   "ack", "cleanup", "lastNotify", "exited"}
    /\ cons \in [Consumers -> {"idle", "get", "avail", "getAsleep", "availAsleep"}]
    /\ main \in {"idle", "closeListen", "clearListen", "closeConnection",
                 "clearConnection", "join", "gone"}
    /\ connection \in [Connections -> {"unused", "open", "late", "closed"}]

\* As long as it listens, the server thread knows every connection it has not
\* closed: one that was replaced or forgotten would never be served.
ConnectionsKept ==
    listen = "open" => \A c \in Connections : IsOpen(c) => socket = c

\* However the server thread ended, it left nobody asleep: a thread waiting
\* for a cloud that will not come has been woken up to see that.
NobodyLeftAsleep ==
    server \in {"exited", "off"} =>
        \A t \in Consumers : cons[t] \notin {"getAsleep", "availAsleep"}

\* stop() returns, where closing a socket wakes the thread that is blocked on
\* it, unless the server thread accepted a connection behind its back and
\* now waits for that peer.
StopReturnsUnlessLate ==
    main = "closeListen" ~> main = "idle" \/ (fd # 0 /\ connection[fd] = "late")

\* The proxy source is a source of clouds: whatever stop() and the peer do,
\* a cloud is delivered once, in order, and what was delivered is not freed.
Source == INSTANCE CloudSource WITH where <- where, last <- last, MaxClouds <- MaxClouds
ImplementsSource == Source!Spec
=============================================================================

---------------------------- MODULE Network_proofs --------------------------
(***************************************************************************)
(* Proofs about the programs that serve or receive clouds over a socket,   *)
(* under the specification that MCNetwork gives all of them.               *)
(*                                                                         *)
(* ProxySource.  m_socket and m_listen_socket are not guarded, but only    *)
(* the server thread sets m_socket, and it asks for a connection only when *)
(* it has none (OneConnection).  A cloud is on its way from BodyArrives to *)
(* Publish while an older one may wait in m_pc (LatestLast).               *)
(*                                                                         *)
(* Forwarder.  The clouds under way form a chain from the server's hands   *)
(* over its queue and the encoder's hands to the encoder's queue: their    *)
(* numbers rise along it (FwdOrder), and as long as nothing may be dropped *)
(* and both threads run, whatever was fed behind one of them is among them *)
(* too (FwdWhole).                                                         *)
(*                                                                         *)
(* Relay.  Of what was forwarded to a receiver that is in the list, all    *)
(* but a bounded number of packets was settled, queued or is in its        *)
(* handler's hands (RelCost): each removal of another handler moves the    *)
(* rest of the list up by one and so hides one handler from each of the    *)
(* walks of the ingest handlers, which RelWalks bounds.                    *)
(***************************************************************************)
EXTENDS MCNetwork, Integers, Queues_proofs

-----------------------------------------------------------------------------
(* The proxy source: its inductive invariant                               *)

\* Only without a connection the server thread waits for one, and stop() lets
\* go of the connection only after it has closed the listening socket.
OneConnection ==
    /\ server \in {"accept", "accepting"} => socket = 0
    /\ owner \in {"clearListen", "closeConnection", "clearConnection", "join"} =>
         listen # "open"
    /\ Proxy!ConnectionsKept

\* Whoever sleeps will be woken by the server thread that runs.
Awake ==
    /\ server \in {"exited", "off"} => ~running
    /\ Proxy!NobodyLeftAsleep

\* The clouds by age: those handed out or freed, m_pc, the local pc.
LatestLast ==
    /\ made \in 0 .. MaxClouds /\ last \in 0 .. made
    /\ where \in [Proxy!Clouds -> Proxy!Source!Places]
    /\ \A i \in Proxy!Clouds : where[i] = "unmade" <=> made < i
    /\ newPC # 0 <=> server = "publish"
    /\ newPC # 0 => newPC = made /\ where[newPC] = "source" /\ last < newPC /\ pc < newPC
    /\ pc # 0 => pc <= made /\ where[pc] = "source" /\ last < pc

ProxyPlaces ==
    /\ listen \in {"open", "closed", "none"}
    /\ server \in {"off", "loop", "connect", "accept", "accepting", "recvHeader",
                   "receivingHeader", "recvBody", "receivingBody", "publish",
                   "ack", "cleanup", "lastNotify", "exited"}
    /\ cons \in [Consumers -> {"idle", "get", "avail", "getAsleep", "availAsleep"}]
    /\ owner \in {"idle", "closeListen", "clearListen", "closeConnection",
                  "clearConnection", "join", "gone"}

ProxyNumbers ==
    /\ socket \in 0 .. MaxConnections /\ fd \in 0 .. MaxConnections
    /\ pc \in 0 .. MaxClouds /\ newPC \in 0 .. MaxClouds

ProxyLinks == connection \in [Proxy!Connections -> {"unused", "open", "late", "closed"}]

ProxyInv ==
    /\ running \in BOOLEAN /\ ProxyPlaces /\ ProxyNumbers /\ ProxyLinks
    /\ OneConnection /\ Awake /\ LatestLast

LEMMA ProxyTypes ==
    (running \in BOOLEAN /\ ProxyPlaces /\ ProxyNumbers /\ ProxyLinks) <=> Proxy!TypeOK
BY Zenon DEF ProxyPlaces, ProxyNumbers, ProxyLinks, Proxy!TypeOK

LEMMA ProxyConstants == MaxClouds \in Nat /\ MaxConnections \in Nat
BY ProxyAssumption DEF Proxy!ConstantsOK

LEMMA ProxyStart == Proxy!Init => ProxyInv
<1> SUFFICES ASSUME Proxy!Init PROVE ProxyInv
  OBVIOUS
<1> USE ProxyConstants DEF Proxy!Init
<1>1. running \in BOOLEAN
  OBVIOUS
<1>2. ProxyPlaces
  <2>1. cons \in [Consumers -> {"idle", "get", "avail", "getAsleep", "availAsleep"}]
    OBVIOUS
  <2> QED BY <2>1 DEF ProxyPlaces
<1>3. ProxyNumbers
  BY DEF ProxyNumbers
<1>4. ProxyLinks
  BY DEF ProxyLinks
<1>5. OneConnection /\ Awake
  BY DEF OneConnection, Awake, Proxy!ConnectionsKept, Proxy!NobodyLeftAsleep, Proxy!IsOpen
<1>6. LatestLast
  BY DEF LatestLast, Proxy!Clouds, Proxy!Source!Places
<1> QED BY <1>1, <1>2, <1>3, <1>4, <1>5, <1>6 DEF ProxyInv

\* notify_all() leaves nobody asleep.
LEMMA NotifiedWakes ==
    ASSUME cons \in [Consumers -> {"idle", "get", "avail", "getAsleep", "availAsleep"}]
    PROVE  /\ Proxy!Notified \in [Consumers -> {"idle", "get", "avail", "getAsleep", "availAsleep"}]
           /\ \A t \in Consumers : Proxy!Notified[t] \notin {"getAsleep", "availAsleep"}
<1>1. ASSUME NEW t \in Consumers PROVE Proxy!Notified[t] \in {"idle", "get", "avail"}
  <2>1. CASE cons[t] = "getAsleep"
    BY <2>1 DEF Proxy!Notified
  <2>2. CASE cons[t] = "availAsleep"
    BY <2>2 DEF Proxy!Notified
  <2>3. CASE cons[t] \in {"idle", "get", "avail"}
    BY <2>3 DEF Proxy!Notified
  <2> QED BY <2>1, <2>2, <2>3
<1>2. Proxy!Notified = [t \in Consumers |-> Proxy!Notified[t]]
  BY DEF Proxy!Notified
<1> QED BY <1>1, <1>2

LEMMA ProxyPlacesStep ==
    ASSUME running \in BOOLEAN, ProxyPlaces, Proxy!Next
    PROVE  running' \in BOOLEAN /\ ProxyPlaces'
<1> USE DEF ProxyPlaces, Proxy!object, Proxy!thread, Proxy!application, Proxy!clouds
<1>1. CASE Proxy!Loop \/ Proxy!NeedConnection \/ Proxy!CallAccept
          \/ Proxy!AcceptFails \/ Proxy!CallRecv
  BY <1>1 DEF Proxy!Loop, Proxy!NeedConnection, Proxy!CallAccept, Proxy!AcceptFails,
      Proxy!CallRecv
<1>2. CASE Proxy!RecvFails \/ Proxy!Acknowledge \/ Proxy!Cleanup \/ Proxy!Peer
  BY <1>2 DEF Proxy!RecvFails, Proxy!Acknowledge, Proxy!Cleanup, Proxy!Peer, Proxy!Accepted,
       Proxy!HeaderArrives, Proxy!Garbage, Proxy!BodyArrives
<1>3. CASE Proxy!Publish \/ Proxy!LastNotify
  <2>1. Proxy!Notified \in [Consumers -> {"idle", "get", "avail", "getAsleep", "availAsleep"}]
    BY NotifiedWakes
  <2> QED BY <1>3, <2>1 DEF Proxy!Publish, Proxy!LastNotify
<1>4. ASSUME NEW t \in Consumers, Proxy!Call(t) \/ Proxy!InCall(t)
          \/ Proxy!SpuriousWakeup(t)
      PROVE  running' \in BOOLEAN /\ ProxyPlaces'
  BY <1>4 DEF Proxy!Call, Proxy!InCall, Proxy!Take, Proxy!AvailableReturns,
      Proxy!FallAsleep,
     Proxy!SpuriousWakeup
<1>5. CASE Proxy!Start \/ Proxy!Stop \/ Proxy!Free \/ Proxy!Stopping
  BY <1>5 DEF Proxy!Start, Proxy!Stop, Proxy!Free, Proxy!Stopping, Proxy!StopJoins,
     Proxy!StopClosesListen, Proxy!StopClearsListen, Proxy!StopClosesConnection,
     Proxy!StopClearsConnection
<1> QED BY <1>1, <1>2, <1>3, <1>4, <1>5 DEF Proxy!Next, Proxy!Server

LEMMA ProxyLinksStep ==
    ASSUME ProxyNumbers, ProxyLinks, made \in 0 .. MaxClouds, Proxy!Next
    PROVE  ProxyNumbers' /\ ProxyLinks'
<1> USE ProxyConstants DEF ProxyNumbers, ProxyLinks, Proxy!object, Proxy!thread,
        Proxy!application, Proxy!clouds, Proxy!Connections
<1> DEFINE Links == [1 .. MaxConnections -> {"unused", "open", "late", "closed"}]
<1>1. Proxy!Closed \in Links
  BY DEF Proxy!Closed
<1>2. CASE Proxy!Loop \/ Proxy!NeedConnection \/ Proxy!CallAccept
          \/ Proxy!AcceptFails \/ Proxy!CallRecv
  BY <1>2 DEF Proxy!Loop, Proxy!NeedConnection, Proxy!CallAccept, Proxy!AcceptFails,
      Proxy!CallRecv
<1>3. CASE Proxy!RecvFails \/ Proxy!Acknowledge \/ Proxy!Cleanup
  BY <1>1, <1>3 DEF Proxy!RecvFails, Proxy!Acknowledge, Proxy!Cleanup
<1>4. CASE Proxy!Publish \/ Proxy!LastNotify
  BY <1>4 DEF Proxy!Publish, Proxy!LastNotify
<1>5. CASE Proxy!Accepted
  BY <1>5 DEF Proxy!Accepted
<1>6. CASE Proxy!HeaderArrives \/ Proxy!Garbage \/ Proxy!BodyArrives
  BY <1>6 DEF Proxy!HeaderArrives, Proxy!Garbage, Proxy!BodyArrives
<1>7. ASSUME NEW t \in Consumers, Proxy!Call(t) \/ Proxy!InCall(t)
          \/ Proxy!SpuriousWakeup(t)
      PROVE  ProxyNumbers' /\ ProxyLinks'
  BY <1>7 DEF Proxy!Call, Proxy!InCall, Proxy!Take, Proxy!AvailableReturns,
      Proxy!FallAsleep,
     Proxy!SpuriousWakeup
<1>8. CASE Proxy!Start \/ Proxy!Stop \/ Proxy!Free \/ Proxy!Stopping
  BY <1>1, <1>8 DEF Proxy!Start, Proxy!Stop, Proxy!Free, Proxy!Stopping, Proxy!StopJoins,
     Proxy!StopClosesListen, Proxy!StopClearsListen, Proxy!StopClosesConnection,
     Proxy!StopClearsConnection
<1> QED
  BY <1>2, <1>3, <1>4, <1>5, <1>6, <1>7, <1>8 DEF Proxy!Next, Proxy!Server, Proxy!Peer

\* closesocket(m_socket) leaves no other connection open than there was.
LEMMA OneConnectionStep ==
    ASSUME ProxyPlaces, ProxyNumbers, ProxyLinks, OneConnection, Proxy!Next
    PROVE  OneConnection'
<1> USE ProxyConstants DEF OneConnection, Proxy!ConnectionsKept, Proxy!IsOpen, Proxy!object,
        Proxy!thread, Proxy!application, Proxy!clouds, Proxy!Connections,
        ProxyPlaces, ProxyNumbers, ProxyLinks
<1>1. ASSUME NEW c \in 1 .. MaxConnections, Proxy!Closed[c] \in {"open", "late"}
      PROVE  connection[c] \in {"open", "late"} /\ socket # c
  BY <1>1 DEF Proxy!Closed
<1>2. CASE Proxy!Loop \/ Proxy!NeedConnection \/ Proxy!CallAccept
          \/ Proxy!AcceptFails \/ Proxy!CallRecv
  BY <1>2 DEF Proxy!Loop, Proxy!NeedConnection, Proxy!CallAccept, Proxy!AcceptFails,
      Proxy!CallRecv
<1>3. CASE Proxy!RecvFails \/ Proxy!Acknowledge \/ Proxy!Cleanup
  BY <1>1, <1>3 DEF Proxy!RecvFails, Proxy!Acknowledge, Proxy!Cleanup
<1>4. CASE Proxy!Publish \/ Proxy!LastNotify
  BY <1>4 DEF Proxy!Publish, Proxy!LastNotify
<1>5. CASE Proxy!Accepted
  BY <1>5 DEF Proxy!Accepted
<1>6. CASE Proxy!HeaderArrives \/ Proxy!Garbage \/ Proxy!BodyArrives
  BY <1>6 DEF Proxy!HeaderArrives, Proxy!Garbage, Proxy!BodyArrives
<1>7. ASSUME NEW t \in Consumers, Proxy!Call(t) \/ Proxy!InCall(t)
          \/ Proxy!SpuriousWakeup(t)
      PROVE  OneConnection'
  BY <1>7 DEF Proxy!Call, Proxy!InCall, Proxy!Take, Proxy!AvailableReturns,
      Proxy!FallAsleep,
     Proxy!SpuriousWakeup
<1>8. CASE Proxy!Start \/ Proxy!Stop \/ Proxy!Free \/ Proxy!StopJoins
          \/ Proxy!StopClosesListen
  BY <1>8 DEF Proxy!Start, Proxy!Stop, Proxy!Free, Proxy!StopJoins, Proxy!StopClosesListen
<1>9. CASE Proxy!StopClearsListen \/ Proxy!StopClosesConnection
          \/ Proxy!StopClearsConnection
  BY <1>1, <1>9 DEF Proxy!StopClearsListen, Proxy!StopClosesConnection,
      Proxy!StopClearsConnection
<1> QED
  BY <1>2, <1>3, <1>4, <1>5, <1>6, <1>7, <1>8, <1>9
  DEF Proxy!Next, Proxy!Server, Proxy!Peer, Proxy!Stopping

LEMMA AwakeStep ==
    ASSUME running \in BOOLEAN, ProxyPlaces, Awake, Proxy!Next
    PROVE  Awake'
<1> USE DEF Awake, Proxy!NobodyLeftAsleep, ProxyPlaces, Proxy!object, Proxy!thread,
        Proxy!application, Proxy!clouds
<1>1. CASE Proxy!Loop \/ Proxy!NeedConnection \/ Proxy!CallAccept
          \/ Proxy!AcceptFails \/ Proxy!CallRecv
  BY <1>1 DEF Proxy!Loop, Proxy!NeedConnection, Proxy!CallAccept, Proxy!AcceptFails,
      Proxy!CallRecv
<1>2. CASE Proxy!RecvFails \/ Proxy!Acknowledge \/ Proxy!Cleanup \/ Proxy!Peer
  BY <1>2 DEF Proxy!RecvFails, Proxy!Acknowledge, Proxy!Cleanup, Proxy!Peer, Proxy!Accepted,
       Proxy!HeaderArrives, Proxy!Garbage, Proxy!BodyArrives
<1>3. CASE Proxy!Publish \/ Proxy!LastNotify
  BY <1>3, NotifiedWakes DEF Proxy!Publish, Proxy!LastNotify
<1>4. ASSUME NEW t \in Consumers, Proxy!Call(t) \/ Proxy!InCall(t)
          \/ Proxy!SpuriousWakeup(t)
      PROVE  Awake'
  BY <1>4 DEF Proxy!Call, Proxy!InCall, Proxy!Take, Proxy!AvailableReturns,
      Proxy!FallAsleep,
     Proxy!SpuriousWakeup
<1>5. CASE Proxy!Start \/ Proxy!Stop \/ Proxy!Free \/ Proxy!Stopping
  BY <1>5 DEF Proxy!Start, Proxy!Stop, Proxy!Free, Proxy!Stopping, Proxy!StopJoins,
     Proxy!StopClosesListen, Proxy!StopClearsListen, Proxy!StopClosesConnection,
     Proxy!StopClearsConnection
<1> QED BY <1>1, <1>2, <1>3, <1>4, <1>5 DEF Proxy!Next, Proxy!Server

ProxyHandsOver == Proxy!Source!Next \/ UNCHANGED <<where, last>>

LEMMA LatestLastStep ==
    ASSUME ProxyNumbers, LatestLast, Proxy!Next
    PROVE  LatestLast' /\ ProxyHandsOver
<1> USE ProxyConstants DEF LatestLast, ProxyHandsOver, Proxy!object, Proxy!thread,
        Proxy!application, Proxy!clouds, Proxy!Clouds, ProxyNumbers
<1>1. CASE Proxy!Loop \/ Proxy!NeedConnection \/ Proxy!CallAccept
          \/ Proxy!AcceptFails \/ Proxy!CallRecv
  BY <1>1 DEF Proxy!Loop, Proxy!NeedConnection, Proxy!CallAccept, Proxy!AcceptFails,
      Proxy!CallRecv
<1>2. CASE Proxy!RecvFails \/ Proxy!Acknowledge \/ Proxy!Cleanup \/ Proxy!LastNotify
  BY <1>2 DEF Proxy!RecvFails, Proxy!Acknowledge, Proxy!Cleanup, Proxy!LastNotify
<1>3. CASE Proxy!Accepted \/ Proxy!HeaderArrives \/ Proxy!Garbage
  BY <1>3 DEF Proxy!Accepted, Proxy!HeaderArrives, Proxy!Garbage
<1>4. CASE Proxy!BodyArrives
  <2>1. LatestLast'
    BY <1>4 DEF Proxy!BodyArrives, Proxy!Source!Places
  <2>2. Proxy!Source!Make(made + 1) /\ made + 1 \in Proxy!Source!Clouds
    BY <1>4 DEF Proxy!BodyArrives, Proxy!Source!Make, Proxy!Source!Clouds
  <2> QED BY <2>1, <2>2 DEF Proxy!Source!Next
<1>5. CASE Proxy!Publish
  <2>1. LatestLast'
    BY <1>5 DEF Proxy!Publish, Proxy!Source!Places
  <2>2. CASE pc # 0
    <3>1. Proxy!Source!Discard(pc) /\ pc \in Proxy!Source!Clouds
      BY <1>5, <2>2 DEF Proxy!Publish, Proxy!Source!Discard, Proxy!Source!Clouds
    <3> QED BY <2>1, <3>1 DEF Proxy!Source!Next
  <2>3. CASE pc = 0
    BY <1>5, <2>1, <2>3 DEF Proxy!Publish
  <2> QED BY <2>2, <2>3
<1>6. ASSUME NEW t \in Consumers, Proxy!Take(t)
      PROVE  LatestLast' /\ ProxyHandsOver
  <2>1. LatestLast'
    BY <1>6 DEF Proxy!Take, Proxy!Source!Places
  <2>2. CASE pc # 0
    <3>1. Proxy!Source!Deliver(pc) /\ pc \in Proxy!Source!Clouds
      BY <1>6, <2>2 DEF Proxy!Take, Proxy!Source!Deliver, Proxy!Source!Clouds
    <3> QED BY <2>1, <3>1 DEF Proxy!Source!Next
  <2>3. CASE pc = 0
    BY <1>6, <2>1, <2>3 DEF Proxy!Take
  <2> QED BY <2>2, <2>3
<1>7. ASSUME NEW t \in Consumers,
             \/ Proxy!Call(t) \/ Proxy!AvailableReturns(t)
             \/ Proxy!FallAsleep(t) \/ Proxy!SpuriousWakeup(t)
      PROVE  LatestLast' /\ ProxyHandsOver
  BY <1>7 DEF Proxy!Call, Proxy!AvailableReturns, Proxy!FallAsleep, Proxy!SpuriousWakeup
<1>8. CASE Proxy!Start \/ Proxy!Stop \/ Proxy!Free \/ Proxy!Stopping
  BY <1>8 DEF Proxy!Start, Proxy!Stop, Proxy!Free, Proxy!Stopping, Proxy!StopJoins,
     Proxy!StopClosesListen, Proxy!StopClearsListen, Proxy!StopClosesConnection,
     Proxy!StopClearsConnection
<1> QED
  BY <1>1, <1>2, <1>3, <1>4, <1>5, <1>6, <1>7, <1>8
  DEF Proxy!Next, Proxy!Server, Proxy!Peer, Proxy!InCall

LEMMA ProxyStep ==
    ASSUME ProxyInv, [Next]_vars
    PROVE  ProxyInv' /\ ProxyHandsOver
<1>1. CASE Proxy!Next
  <2>1. running' \in BOOLEAN /\ ProxyPlaces'
    BY <1>1, ProxyPlacesStep DEF ProxyInv
  <2>2. ProxyNumbers' /\ ProxyLinks'
    BY <1>1, ProxyLinksStep DEF ProxyInv, LatestLast
  <2>3. OneConnection' /\ Awake' /\ LatestLast' /\ ProxyHandsOver
    BY <1>1, OneConnectionStep, AwakeStep, LatestLastStep DEF ProxyInv
  <2> QED BY <2>1, <2>2, <2>3 DEF ProxyInv
<1>2. CASE UNCHANGED proxy
  BY <1>2 DEF proxy, ProxyInv, ProxyPlaces, ProxyNumbers, ProxyLinks, OneConnection, Awake,
     LatestLast, Proxy!ConnectionsKept, Proxy!NobodyLeftAsleep, Proxy!IsOpen, ProxyHandsOver
<1> QED BY <1>1, <1>2 DEF Next, RunsProxy, RunsForwarder, RunsRelay, vars

LEMMA ProxyInvariant == Spec => []ProxyInv
<1>1. Init => ProxyInv
  BY ProxyStart DEF Init
<1>2. ProxyInv /\ [Next]_vars => ProxyInv'
  BY ProxyStep
<1> QED BY <1>1, <1>2, PTL DEF Spec

\* As long as the proxy listens, the server thread knows every connection it
\* has not closed, however often peers come and go.
THEOREM ProxyKeepsConnections == Spec => []ConnectionsKept
<1>1. ProxyInv => ConnectionsKept
  BY DEF ProxyInv, OneConnection, ConnectionsKept
<1> QED BY <1>1, ProxyInvariant, PTL

\* However the proxy's server thread ends, nobody sleeps in get() or
\* available() afterwards, for any number of application threads.
THEOREM ProxyLeavesNobody == Spec => []NobodyLeftAsleep
<1>1. ProxyInv => NobodyLeftAsleep
  BY DEF ProxyInv, Awake, NobodyLeftAsleep
<1> QED BY <1>1, ProxyInvariant, PTL

\* The proxy implements the source of clouds: BodyArrives makes one, Publish
\* frees the one in m_pc, get() hands it out, the other steps stutter.
THEOREM ProxyImplements == Spec => ProxyIsSource
<1>1. Init => Proxy!Source!Init
  BY DEF Init, Proxy!Init, Proxy!Source!Init, Proxy!Clouds, Proxy!Source!Clouds
<1>2. ProxyInv /\ [Next]_vars => [Proxy!Source!Next]_<<where, last>>
  BY ProxyStep DEF ProxyHandsOver
<1> QED BY <1>1, <1>2, ProxyInvariant, PTL
    DEF Spec, ProxyIsSource, Proxy!ImplementsSource, Proxy!Source!Spec

-----------------------------------------------------------------------------
(* The forwarder.  nw, oq, ew, iq: what is under way, oldest first; g: what *)
(* the clients got; f: the last cloud fed.                                  *)

Parts(nw, oq, ew, iq) == {nw} \cup Items(oq) \cup {ew} \cup Items(iq)

Chain(nw, oq, ew, iq, g, f) ==
    /\ f \in Nat /\ oq \in Seq(Nat) /\ iq \in Seq(Nat)
    /\ Parts(nw, oq, ew, iq) \subseteq 0 .. f
    /\ g \in [Clients -> 0 .. f]
    /\ Rising(oq) /\ Rising(iq)
    /\ Precede({nw}, Items(oq) \cup {ew} \cup Items(iq))
    /\ Precede(Items(oq), {ew} \cup Items(iq))
    /\ Precede({ew}, Items(iq))
    /\ \A c \in Clients : Precede({g[c]}, Parts(nw, oq, ew, iq))

\* Nothing that was fed is missing among P.
Whole(P, f) == \A x \in P \ {0} : x .. f \subseteq P

LEMMA ChainFeed ==
    ASSUME NEW nw, NEW oq, NEW ew, NEW iq, NEW g, NEW f, Chain(nw, oq, ew, iq, g, f)
    PROVE  /\ Chain(nw, oq, ew, Append(iq, f + 1), g, f + 1)
           /\ Whole(Parts(nw, oq, ew, iq), f) =>
                Whole(Parts(nw, oq, ew, Append(iq, f + 1)), f + 1)
<1> USE DEF Chain, Parts
<1> DEFINE r == Append(iq, f + 1)
<1>1. Items(r) = Items(iq) \cup {f + 1}
  <2>1. iq \in Seq(Nat) /\ f + 1 \in Nat
    OBVIOUS
  <2> HIDE DEF Chain, Parts
  <2> QED BY <2>1, ItemsAfterAppend
<1>2. Precede(Items(iq), {f + 1})
  BY DEF Precede
<1>0. f \in Nat /\ f + 1 \in Nat /\ iq \in Seq(Nat) /\ Rising(iq)
  OBVIOUS
<1>3. r \in Seq(Nat)
  BY <1>0, AppendTo
<1>13. Rising(r)
  BY <1>0, <1>2, RisingAppend
<1> HIDE DEF r
<1>4. Chain(nw, oq, ew, r, g, f + 1)
  <2>0. Parts(nw, oq, ew, iq) \subseteq 0 .. f /\ 0 .. f \subseteq 0 .. f + 1
    OBVIOUS
  <2>1. Parts(nw, oq, ew, r) \subseteq 0 .. f + 1 /\ g \in [Clients -> 0 .. f + 1]
    BY <1>1, <2>0
  <2>4. ASSUME NEW x \in Parts(nw, oq, ew, iq) PROVE x < f + 1
    <3>1. x \in 0 .. f
      BY <2>0
    <3> QED BY <1>0, <3>1
  <2>5. \A c \in Clients : g[c] < f + 1
    OBVIOUS
  <2>2. /\ Precede({nw}, Items(oq) \cup {ew} \cup Items(r))
        /\ Precede(Items(oq), {ew} \cup Items(r))
        /\ Precede({ew}, Items(r))
    BY <1>1, <2>4 DEF Precede
  <2>3. ASSUME NEW c \in Clients PROVE Precede({g[c]}, Parts(nw, oq, ew, r))
    BY <1>1, <2>5 DEF Precede
  <2> QED BY <1>0, <1>3, <1>13, <2>1, <2>2, <2>3
<1>5. ASSUME Whole(Parts(nw, oq, ew, iq), f) PROVE Whole(Parts(nw, oq, ew, r), f + 1)
  <2>1. Parts(nw, oq, ew, r) = Parts(nw, oq, ew, iq) \cup {f + 1}
    BY <1>1
  <2> HIDE DEF Parts
  <2> QED BY <1>5, <2>1 DEF Whole
<1> QED BY <1>4, <1>5 DEF r

\* A cloud is dropped before it is fed.
LEMMA ChainLater ==
    ASSUME NEW nw, NEW oq, NEW ew, NEW iq, NEW g, NEW f, Chain(nw, oq, ew, iq, g, f)
    PROVE  Chain(nw, oq, ew, iq, g, f + 1)
<1> USE DEF Chain
<1>1. Parts(nw, oq, ew, iq) \subseteq 0 .. f + 1 /\ g \in [Clients -> 0 .. f + 1]
  OBVIOUS
<1> QED BY <1>1

LEMMA ChainGetIn ==
    ASSUME NEW nw, NEW oq, NEW iq, NEW ew, NEW g, NEW f, Chain(nw, oq, ew, iq, g, f), iq # <<>>
    PROVE  /\ Chain(nw, oq, Head(iq), Tail(iq), g, f)
           /\ Whole(Parts(nw, oq, 0, iq), f) => Whole(Parts(nw, oq, Head(iq), Tail(iq)), f)
<1> USE DEF Chain
<1> DEFINE h == Head(iq)  r == Tail(iq)
<1>1. Items(iq) = {h} \cup Items(r) /\ r \in Seq(Nat)
  BY ItemsAfterTail, TailOf
<1>2. Rising(r) /\ Precede({h}, Items(r))
  BY RisingTail
<1> HIDE DEF h, r
<1>3. Chain(nw, oq, h, r, g, f)
  <2>1. Parts(nw, oq, h, r) \subseteq 0 .. f /\ Parts(nw, oq, h, r) \subseteq Parts(nw, oq, ew, iq)
    BY <1>1 DEF Parts
  <2>2. /\ Precede({nw}, Items(oq) \cup {h} \cup Items(r))
        /\ Precede(Items(oq), {h} \cup Items(r))
    BY <1>1 DEF Precede
  <2>3. ASSUME NEW c \in Clients PROVE Precede({g[c]}, Parts(nw, oq, h, r))
    BY <2>1 DEF Precede
  <2> QED BY <1>1, <1>2, <2>1, <2>2, <2>3
<1>4. Parts(nw, oq, h, r) \ {0} = Parts(nw, oq, 0, iq) \ {0}
  BY <1>1 DEF Parts
<1>5. ASSUME Whole(Parts(nw, oq, 0, iq), f) PROVE Whole(Parts(nw, oq, h, r), f)
  <2> SUFFICES ASSUME NEW x \in Parts(nw, oq, h, r) \ {0}, NEW y \in x .. f
               PROVE  y \in Parts(nw, oq, h, r)
    BY DEF Whole
  <2>1. x \in 0 .. f
    BY <1>3
  <2>2. x \in Parts(nw, oq, 0, iq) \ {0}
    BY <1>4
  <2>3. y \in Parts(nw, oq, 0, iq) /\ y # 0
    BY <1>5, <2>1, <2>2 DEF Whole
  <2> QED BY <1>4, <2>3
<1> QED BY <1>3, <1>5 DEF h, r

LEMMA ChainFeedOut ==
    ASSUME NEW nw, NEW oq, NEW iq, NEW ew, NEW g, NEW f, Chain(nw, oq, ew, iq, g, f)
    PROVE  /\ Chain(nw, oq, 0, iq, g, f)
           /\ Chain(nw, Append(oq, ew), 0, iq, g, f)
           /\ Whole(Parts(nw, oq, ew, iq), f) => Whole(Parts(nw, Append(oq, ew), 0, iq), f)
<1> USE DEF Chain
<1> DEFINE r == Append(oq, ew)
<1>1. ew \in Nat /\ Precede(Items(oq), {ew})
  BY DEF Precede, Parts
<1>2. Items(r) = Items(oq) \cup {ew} /\ r \in Seq(Nat) /\ Rising(r)
  <2>1. oq \in Seq(Nat) /\ Rising(oq)
    OBVIOUS
  <2>2. Items(r) = Items(oq) \cup {ew}
    <3> HIDE DEF Chain
    <3> QED BY <1>1, <2>1, ItemsAfterAppend
  <2>3. r \in Seq(Nat)
    BY <1>1, <2>1, AppendTo, Zenon
  <2>4. Rising(r)
    BY <1>1, <2>1, RisingAppend, Zenon
  <2> QED BY <2>2, <2>3, <2>4
<1> HIDE DEF r
<1>3. Parts(nw, r, 0, iq) = Parts(nw, oq, ew, iq) \cup {0}
  BY <1>2 DEF Parts
<1>4. /\ Precede({nw}, Items(r) \cup {0} \cup Items(iq))
      /\ Precede(Items(r), {0} \cup Items(iq))
      /\ Precede({0}, Items(iq))
  BY <1>2 DEF Precede
<1>5. ASSUME NEW c \in Clients PROVE Precede({g[c]}, Parts(nw, r, 0, iq))
  BY <1>3 DEF Precede
<1>6. Chain(nw, r, 0, iq, g, f)
  BY <1>2, <1>3, <1>4, <1>5
<1>7. Chain(nw, oq, 0, iq, g, f)
  <2>1. Parts(nw, oq, 0, iq) \subseteq Parts(nw, oq, ew, iq) \cup {0}
    BY DEF Parts
  <2>2. /\ Precede({nw}, Items(oq) \cup {0} \cup Items(iq))
        /\ Precede(Items(oq), {0} \cup Items(iq))
    BY DEF Precede
  <2>3. ASSUME NEW c \in Clients PROVE Precede({g[c]}, Parts(nw, oq, 0, iq))
    BY <2>1 DEF Precede
  <2> QED BY <1>4, <2>1, <2>2, <2>3
<1>8. ASSUME Whole(Parts(nw, oq, ew, iq), f) PROVE Whole(Parts(nw, r, 0, iq), f)
  BY <1>3, <1>8 DEF Whole
<1> QED BY <1>6, <1>7, <1>8 DEF r

LEMMA ChainGetOut ==
    ASSUME NEW nw, NEW oq, NEW iq, NEW ew, NEW g, NEW f, Chain(nw, oq, ew, iq, g, f), oq # <<>>
    PROVE  /\ Chain(nw, Tail(oq), ew, iq, g, f)
           /\ Chain(Head(oq), Tail(oq), ew, iq, g, f)
           /\ Whole(Parts(0, oq, ew, iq), f) => Whole(Parts(Head(oq), Tail(oq), ew, iq), f)
<1> USE DEF Chain
<1> DEFINE h == Head(oq)  r == Tail(oq)
<1>1. Items(oq) = {h} \cup Items(r) /\ r \in Seq(Nat)
  BY ItemsAfterTail, TailOf
<1>2. Rising(r) /\ Precede({h}, Items(r))
  BY RisingTail
<1> HIDE DEF h, r
<1>3. Precede(Items(r), {ew} \cup Items(iq))
  BY <1>1 DEF Precede
<1>4. Chain(nw, r, ew, iq, g, f)
  <2>1. Parts(nw, r, ew, iq) \subseteq Parts(nw, oq, ew, iq)
    BY <1>1 DEF Parts
  <2>2. Precede({nw}, Items(r) \cup {ew} \cup Items(iq))
    BY <1>1 DEF Precede
  <2>3. ASSUME NEW c \in Clients PROVE Precede({g[c]}, Parts(nw, r, ew, iq))
    BY <2>1 DEF Precede
  <2> QED BY <1>1, <1>2, <1>3, <2>1, <2>2, <2>3
<1>5. Chain(h, r, ew, iq, g, f)
  <2>1. Parts(h, r, ew, iq) \subseteq Parts(nw, oq, ew, iq)
    BY <1>1 DEF Parts
  <2>2. Precede({h}, Items(r) \cup {ew} \cup Items(iq))
    BY <1>1, <1>2 DEF Precede
  <2>3. ASSUME NEW c \in Clients PROVE Precede({g[c]}, Parts(h, r, ew, iq))
    BY <2>1 DEF Precede
  <2> QED BY <1>1, <1>2, <1>3, <2>1, <2>2, <2>3
<1>6. Parts(h, r, ew, iq) \ {0} = Parts(0, oq, ew, iq) \ {0}
  BY <1>1 DEF Parts
<1>7. ASSUME Whole(Parts(0, oq, ew, iq), f) PROVE Whole(Parts(h, r, ew, iq), f)
  <2> SUFFICES ASSUME NEW x \in Parts(h, r, ew, iq) \ {0}, NEW y \in x .. f
               PROVE  y \in Parts(h, r, ew, iq)
    BY DEF Whole
  <2>1. x \in 0 .. f
    BY <1>5
  <2>2. x \in Parts(0, oq, ew, iq) \ {0}
    BY <1>6
  <2>3. y \in Parts(0, oq, ew, iq) /\ y # 0
    BY <1>7, <2>1, <2>2 DEF Whole
  <2> QED BY <1>6, <2>3
<1> QED BY <1>4, <1>5, <1>7 DEF h, r

\* stop() puts a None into a queue.
LEMMA ChainNone ==
    ASSUME NEW nw, NEW oq, NEW iq, NEW ew, NEW g, NEW f, Chain(nw, oq, ew, iq, g, f)
    PROVE  /\ Chain(nw, Append(oq, 0), ew, iq, g, f)
           /\ Chain(nw, oq, ew, Append(iq, 0), g, f)
           /\ Whole(Parts(nw, oq, ew, iq), f) =>
                /\ Whole(Parts(nw, Append(oq, 0), ew, iq), f)
                /\ Whole(Parts(nw, oq, ew, Append(iq, 0)), f)
<1> USE DEF Chain
<1> DEFINE p == Append(oq, 0)  q == Append(iq, 0)
<1>1. Items(p) = Items(oq) \cup {0} /\ p \in Seq(Nat)
  BY ItemsAfterAppend, AppendTo
<1>2. Items(q) = Items(iq) \cup {0} /\ q \in Seq(Nat)
  BY ItemsAfterAppend, AppendTo
<1>3. Precede(Items(oq), {0}) /\ Precede(Items(iq), {0})
  BY DEF Precede
<1>4. Rising(p) /\ Rising(q)
  BY <1>3, RisingAppend
<1> HIDE DEF p, q
<1>5. Parts(nw, p, ew, iq) = Parts(nw, oq, ew, iq) \cup {0}
  BY <1>1 DEF Parts
<1>6. Parts(nw, oq, ew, q) = Parts(nw, oq, ew, iq) \cup {0}
  BY <1>2 DEF Parts
<1>10. Parts(nw, oq, ew, iq) \cup {0} \subseteq 0 .. f
  OBVIOUS
<1>7. Chain(nw, p, ew, iq, g, f)
  <2>1. /\ Precede({nw}, Items(p) \cup {ew} \cup Items(iq))
        /\ Precede(Items(p), {ew} \cup Items(iq))
    BY <1>1 DEF Precede
  <2>2. ASSUME NEW c \in Clients PROVE Precede({g[c]}, Parts(nw, p, ew, iq))
    BY <1>5 DEF Precede
  <2> QED BY <1>1, <1>4, <1>5, <1>10, <2>1, <2>2
<1>8. Chain(nw, oq, ew, q, g, f)
  <2>1. /\ Precede({nw}, Items(oq) \cup {ew} \cup Items(q))
        /\ Precede(Items(oq), {ew} \cup Items(q))
        /\ Precede({ew}, Items(q))
    BY <1>2 DEF Precede
  <2>2. ASSUME NEW c \in Clients PROVE Precede({g[c]}, Parts(nw, oq, ew, q))
    BY <1>6 DEF Precede
  <2> QED BY <1>2, <1>4, <1>6, <1>10, <2>1, <2>2
<1>9. ASSUME Whole(Parts(nw, oq, ew, iq), f)
      PROVE  Whole(Parts(nw, p, ew, iq), f) /\ Whole(Parts(nw, oq, ew, q), f)
  BY <1>5, <1>6, <1>9 DEF Whole
<1> QED BY <1>7, <1>8, <1>9 DEF p, q

\* The server has sent its packet to some of the clients.
LEMMA ChainSend ==
    ASSUME NEW nw, NEW oq, NEW iq, NEW ew, NEW g, NEW f, Chain(nw, oq, ew, iq, g, f),
           NEW k \in [Clients -> 0 .. f], \A c \in Clients : k[c] \in {g[c], nw}
    PROVE  /\ Chain(0, oq, ew, iq, k, f)
           /\ Whole(Parts(nw, oq, ew, iq), f) => Whole(Parts(0, oq, ew, iq), f)
<1> USE DEF Chain
<1>1. Parts(0, oq, ew, iq) \subseteq Parts(nw, oq, ew, iq) \cup {0}
  BY DEF Parts
<1>2. Precede({0}, Items(oq) \cup {ew} \cup Items(iq))
  BY DEF Precede
<1>3. ASSUME NEW c \in Clients PROVE Precede({k[c]}, Parts(0, oq, ew, iq))
  <2>1. CASE k[c] = g[c]
    BY <1>1, <2>1 DEF Precede
  <2>2. CASE k[c] = nw
    BY <2>2 DEF Precede, Parts
  <2> QED BY <2>1, <2>2
<1>4. Chain(0, oq, ew, iq, k, f)
  BY <1>1, <1>2, <1>3
<1>5. ASSUME Whole(Parts(nw, oq, ew, iq), f) PROVE Whole(Parts(0, oq, ew, iq), f)
  <2> SUFFICES ASSUME NEW x \in Parts(0, oq, ew, iq) \ {0}, NEW y \in x .. f
               PROVE  y \in Parts(0, oq, ew, iq)
    BY DEF Whole
  <2>1. x \in Items(oq) \cup {ew} \cup Items(iq) /\ x \in 1 .. f /\ nw \in 0 .. f
    BY DEF Parts
  <2>2. nw < x
    BY <2>1 DEF Precede
  <2>3. x \in Parts(nw, oq, ew, iq) \ {0}
    BY <1>1
  <2>4. y \in Parts(nw, oq, ew, iq)
    BY <1>5, <2>3 DEF Whole
  <2>5. y # nw
    BY <2>1, <2>2
  <2> QED BY <2>4, <2>5 DEF Parts
<1> QED BY <1>4, <1>5

\* In such a chain the clouds under way are in order.
LEMMA ChainInOrder ==
    ASSUME NEW nw, NEW oq, NEW iq, NEW ew, NEW g, NEW f, Chain(nw, oq, ew, iq, g, f)
    PROVE  LET q == <<nw>> \o oq \o <<ew>> \o iq
           IN  q \in Seq(Nat) /\ Rising(q) /\ Items(q) = Parts(nw, oq, ew, iq)
<1> USE DEF Chain
<1> DEFINE a == <<nw>>  c == <<ew>>  b == a \o oq  d == b \o c
<1>1. nw \in Nat /\ ew \in Nat
  BY DEF Parts
<1>2. a \in Seq(Nat) /\ c \in Seq(Nat) /\ Items(a) = {nw} /\ Items(c) = {ew}
  BY <1>1 DEF Items
<1>3. Rising(a) /\ Rising(c)
  BY <1>1 DEF Rising
<1> HIDE DEF a, c
<1>4. b \in Seq(Nat) /\ Items(b) = {nw} \cup Items(oq)
  BY <1>2, ItemsOfBoth
<1>5. Precede(Items(a), Items(oq))
  BY <1>2 DEF Precede
<1>6. Rising(b)
  BY <1>2, <1>3, <1>5, RisingBoth
<1> HIDE DEF b
<1>7. d \in Seq(Nat) /\ Items(d) = {nw} \cup Items(oq) \cup {ew}
  BY <1>2, <1>4, ItemsOfBoth
<1>8. Precede(Items(b), Items(c))
  BY <1>2, <1>4 DEF Precede
<1>9. Rising(d)
  BY <1>2, <1>3, <1>4, <1>6, <1>8, RisingBoth
<1> HIDE DEF d
<1>10. Precede(Items(d), Items(iq))
  BY <1>7 DEF Precede
<1>11. Rising(d \o iq) /\ d \o iq \in Seq(Nat) /\ Items(d \o iq) = Parts(nw, oq, ew, iq)
  <2>1. Rising(d \o iq)
    BY <1>7, <1>9, <1>10, RisingBoth
  <2>2. d \o iq \in Seq(Nat) /\ Items(d \o iq) = Items(d) \cup Items(iq)
    BY <1>7, ItemsOfBoth
  <2> QED BY <1>7, <2>1, <2>2 DEF Parts
<1> QED BY <1>11 DEF a, b, c, d

-----------------------------------------------------------------------------
(* The forwarder: its inductive invariant                                  *)

FwdOrder == Chain(netWork, outq, encWork, inq, got, Fwd!Fed)

FwdGoesOn == nodrop /\ ~encStopped /\ ~netStopped /\ enc # "finally"

FwdWhole == FwdGoesOn => Whole(Parts(netWork, outq, encWork, inq), Fwd!Fed)

\* Hands are empty but in the places where something is carried, threads that
\* have not been started are off, and who drains the server's queue has
\* marked it as stopped.
FwdPhases ==
    /\ main = "startSource" => source = "off"
    /\ main \in {"startSource", "startEncoder"} => enc = "off"
    /\ main \in {"startSource", "startEncoder", "startNet"} => net = "off"
    /\ source = "feed" => grabbed # 0
    /\ encWork # 0 => enc \in {"encode", "feed"}
    /\ netWork # 0 => net = "send"
    /\ DOMAIN stopper = Fwd!Stoppers
    /\ \A s \in Fwd!Stoppers :
         stopper[s] \in {"drain", "putNone", "join", "done"} => netStopped

FwdFlags == {srcStopped, encStopped, netStopped, listening} \subseteq BOOLEAN

FwdBounds ==
    /\ grabbed \in 0 .. Fwd!MaxGrabbed /\ Len(inq) <= InSize /\ Len(outq) <= OutSize

FwdClients == conns \subseteq Clients /\ client \in [Clients -> {"out", "in", "gone"}]

FwdInv ==
    /\ FwdFlags /\ FwdBounds /\ FwdClients
    /\ FwdPhases /\ FwdOrder /\ FwdWhole

LEMMA FwdConstants ==
    /\ InSize \in Nat \ {0} /\ OutSize \in Nat \ {0}
    /\ MaxKept \in Nat /\ MaxLossy \in Nat /\ Fwd!MaxGrabbed \in Nat
BY ForwarderAssumption DEF Fwd!ConstantsOK, Fwd!MaxGrabbed

LEMMA FwdStart == Fwd!Init => FwdInv
<1> SUFFICES ASSUME Fwd!Init PROVE FwdInv
  OBVIOUS
<1> USE FwdConstants DEF Fwd!Init
<1>1. FwdFlags
  BY DEF FwdFlags
<1>2. FwdBounds
  BY DEF FwdBounds
<1>3. FwdClients
  BY DEF FwdClients
<1>4. FwdPhases
  BY DEF FwdPhases
<1>5. Items(<<>>) = {} /\ Parts(0, <<>>, 0, <<>>) = {0} /\ Rising(<<>>)
  BY DEF Parts, Items, Rising
<1>6. Fwd!Fed = 0 /\ netWork = 0 /\ outq = <<>> /\ encWork = 0 /\ inq = <<>>
  BY DEF Fwd!Fed
<1>7. got \in [Clients -> 0 .. 0] /\ \A c \in Clients : got[c] = 0
  OBVIOUS
<1>8. FwdOrder /\ FwdWhole
  BY <1>5, <1>6, <1>7 DEF FwdOrder, FwdWhole, FwdGoesOn, Chain, Whole, Precede
<1> QED BY <1>1, <1>2, <1>3, <1>4, <1>8 DEF FwdInv

LEMMA FwdPhasesStep ==
    ASSUME FwdPhases, grabbed \in Nat, Fwd!Next
    PROVE  FwdPhases'
<1> USE DEF FwdPhases, Fwd!options, Fwd!grabber, Fwd!encoder, Fwd!server, Fwd!clients, Fwd!Stoppers
<1>1. CASE Fwd!SourceThread \/ Fwd!SourceGrabs \/ Fwd!GrabberEnds
  BY <1>1 DEF Fwd!SourceThread, Fwd!SourceStops, Fwd!SourceFeeds, Fwd!SourceGrabs,
      Fwd!GrabberEnds
<1>2. CASE Fwd!EncoderLoop \/ Fwd!EncoderGets \/ Fwd!Encode
  BY <1>2 DEF Fwd!EncoderLoop, Fwd!EncoderGets, Fwd!Encode
<1>3. CASE Fwd!EncoderFeeds \/ Fwd!EncoderFinishes \/ Fwd!EncoderExits
  BY <1>3 DEF Fwd!EncoderFeeds, Fwd!EncoderFinishes, Fwd!EncoderExits
<1>4. CASE Fwd!NetThread \/ Fwd!NetSends
  BY <1>4 DEF Fwd!NetThread, Fwd!NetLoop, Fwd!NetSelects, Fwd!NetGets, Fwd!NetFinishes,
      Fwd!NetSends
<1>5. ASSUME NEW c \in Clients, Fwd!ClientComes(c) \/ Fwd!ClientGoes(c) PROVE FwdPhases'
  BY <1>5 DEF Fwd!ClientComes, Fwd!ClientGoes
<1>6. ASSUME NEW s \in Fwd!Stoppers, Fwd!StopStep(s) PROVE FwdPhases'
  BY <1>6 DEF Fwd!StopStep, Fwd!StopMarks, Fwd!StopDrains, Fwd!StopPutsNone,
      Fwd!StopJoins, Fwd!At
<1>7. CASE Fwd!StartSource \/ Fwd!StartEncoder \/ Fwd!StartNet \/ Fwd!SourceEnded
          \/ Fwd!Interrupted
  BY <1>7 DEF Fwd!StartSource, Fwd!StartEncoder, Fwd!StartNet, Fwd!SourceEnded,
      Fwd!Interrupted
<1>8. CASE Fwd!StopSource \/ Fwd!StopEncoder \/ Fwd!WakeEncoder
  BY <1>8 DEF Fwd!StopSource, Fwd!StopEncoder, Fwd!WakeEncoder
<1>9. CASE Fwd!SinkStopped \/ Fwd!WakePassthrough \/ Fwd!JoinEncoder
  BY <1>9 DEF Fwd!SinkStopped, Fwd!WakePassthrough, Fwd!JoinEncoder
<1> QED
  BY <1>1, <1>2, <1>3, <1>4, <1>5, <1>6, <1>7, <1>8, <1>9
  DEF Fwd!Next, Fwd!EncoderThread, Fwd!MainThread

LEMMA FwdFlagsStep ==
    ASSUME FwdFlags, FwdClients, Fwd!Next
    PROVE  FwdFlags' /\ FwdClients'
<1> USE DEF FwdFlags, FwdClients, Fwd!options, Fwd!grabber, Fwd!encoder, Fwd!server, Fwd!clients
<1>1. CASE Fwd!SourceThread \/ Fwd!SourceGrabs \/ Fwd!GrabberEnds
  BY <1>1 DEF Fwd!SourceThread, Fwd!SourceStops, Fwd!SourceFeeds, Fwd!SourceGrabs,
      Fwd!GrabberEnds
<1>2. CASE Fwd!EncoderThread
  BY <1>2 DEF Fwd!EncoderThread, Fwd!EncoderLoop, Fwd!EncoderGets, Fwd!Encode,
      Fwd!EncoderFeeds,
     Fwd!EncoderFinishes, Fwd!EncoderExits
<1>4. CASE Fwd!NetThread \/ Fwd!NetSends
  BY <1>4 DEF Fwd!NetThread, Fwd!NetLoop, Fwd!NetSelects, Fwd!NetGets, Fwd!NetFinishes,
      Fwd!NetSends
<1>5. ASSUME NEW c \in Clients, Fwd!ClientComes(c) \/ Fwd!ClientGoes(c)
      PROVE  FwdFlags' /\ FwdClients'
  BY <1>5 DEF Fwd!ClientComes, Fwd!ClientGoes
<1>6. ASSUME NEW s \in Fwd!Stoppers, Fwd!StopStep(s) PROVE FwdFlags' /\ FwdClients'
  BY <1>6 DEF Fwd!StopStep, Fwd!StopMarks, Fwd!StopDrains, Fwd!StopPutsNone,
      Fwd!StopJoins, Fwd!At
<1>7. CASE Fwd!MainThread \/ Fwd!Interrupted
  BY <1>7 DEF Fwd!MainThread, Fwd!StartSource, Fwd!StartEncoder, Fwd!StartNet,
      Fwd!SourceEnded,
     Fwd!Interrupted, Fwd!StopSource, Fwd!StopEncoder, Fwd!WakeEncoder, Fwd!SinkStopped,
     Fwd!WakePassthrough, Fwd!JoinEncoder
<1> QED BY <1>1, <1>2, <1>4, <1>5, <1>6, <1>7 DEF Fwd!Next

LEMMA FwdBoundsStep ==
    ASSUME FwdBounds, inq \in Seq(Nat), outq \in Seq(Nat), Fwd!Next
    PROVE  FwdBounds'
<1> USE FwdConstants DEF FwdBounds, Fwd!options, Fwd!grabber, Fwd!encoder, Fwd!server,
        Fwd!clients, Fwd!MaxGrabbed
<1>1. CASE Fwd!SourceStops \/ Fwd!SourceGrabs \/ Fwd!GrabberEnds
  BY <1>1 DEF Fwd!SourceStops, Fwd!SourceGrabs, Fwd!GrabberEnds
<1>2. CASE Fwd!SourceFeeds
  BY <1>2 DEF Fwd!SourceFeeds, Fwd!InFull
<1>3. CASE Fwd!EncoderLoop \/ Fwd!Encode \/ Fwd!EncoderFinishes \/ Fwd!EncoderExits
  BY <1>3 DEF Fwd!EncoderLoop, Fwd!Encode, Fwd!EncoderFinishes, Fwd!EncoderExits
<1>4. CASE Fwd!EncoderGets
  BY <1>4 DEF Fwd!EncoderGets
<1>5. CASE Fwd!EncoderFeeds
  BY <1>5 DEF Fwd!EncoderFeeds, Fwd!OutFull
<1>6. CASE Fwd!NetLoop \/ Fwd!NetSelects \/ Fwd!NetFinishes \/ Fwd!NetSends
  BY <1>6 DEF Fwd!NetLoop, Fwd!NetSelects, Fwd!NetFinishes, Fwd!NetSends
<1>7. CASE Fwd!NetGets
  BY <1>7 DEF Fwd!NetGets
<1>8. ASSUME NEW c \in Clients, Fwd!ClientComes(c) \/ Fwd!ClientGoes(c) PROVE FwdBounds'
  BY <1>8 DEF Fwd!ClientComes, Fwd!ClientGoes
<1>9. ASSUME NEW s \in Fwd!Stoppers, Fwd!StopStep(s) PROVE FwdBounds'
  <2>1. CASE Fwd!StopMarks(s) \/ Fwd!StopJoins(s)
    BY <2>1 DEF Fwd!StopMarks, Fwd!StopJoins
  <2>2. CASE Fwd!StopDrains(s)
    BY <2>2 DEF Fwd!StopDrains
  <2>3. CASE Fwd!StopPutsNone(s)
    BY <2>3 DEF Fwd!StopPutsNone, Fwd!OutFull
  <2> QED BY <1>9, <2>1, <2>2, <2>3 DEF Fwd!StopStep
<1>10. CASE Fwd!StartSource \/ Fwd!StartEncoder \/ Fwd!StartNet \/ Fwd!SourceEnded
          \/ Fwd!Interrupted
  BY <1>10 DEF Fwd!StartSource, Fwd!StartEncoder, Fwd!StartNet, Fwd!SourceEnded,
      Fwd!Interrupted
<1>11. CASE Fwd!StopSource \/ Fwd!StopEncoder \/ Fwd!SinkStopped \/ Fwd!JoinEncoder
  BY <1>11 DEF Fwd!StopSource, Fwd!StopEncoder, Fwd!SinkStopped, Fwd!JoinEncoder
<1>12. CASE Fwd!WakeEncoder \/ Fwd!WakePassthrough
  BY <1>12 DEF Fwd!WakeEncoder, Fwd!WakePassthrough, Fwd!InFull
<1> QED
  BY <1>1, <1>2, <1>3, <1>4, <1>5, <1>6, <1>7, <1>8, <1>9, <1>10, <1>11, <1>12
  DEF Fwd!Next, Fwd!SourceThread, Fwd!EncoderThread, Fwd!NetThread, Fwd!MainThread

FwdCarried == FwdOrder /\ FwdWhole

\* A step that moves no cloud and begins or ends nothing but the exemption.
LEMMA FwdStill ==
    ASSUME FwdCarried, UNCHANGED <<netWork, outq, encWork, inq, got>>, Fwd!Fed' = Fwd!Fed,
           FwdGoesOn' => FwdGoesOn
    PROVE  FwdCarried'
BY DEF FwdCarried, FwdOrder, FwdWhole

LEMMA FwdSourceStep ==
    ASSUME FwdCarried, FwdPhases, grabbed \in Nat, Fwd!SourceThread
              \/ Fwd!SourceGrabs \/ Fwd!GrabberEnds
    PROVE  FwdCarried'
<1> USE DEF Fwd!options, Fwd!grabber, Fwd!encoder, Fwd!server, Fwd!clients
<1>1. CASE Fwd!SourceStops \/ Fwd!SourceGrabs \/ Fwd!GrabberEnds
  <2>1. Fwd!Fed' = Fwd!Fed
    BY <1>1 DEF Fwd!Fed, Fwd!SourceStops, Fwd!SourceGrabs, Fwd!GrabberEnds
  <2>2. UNCHANGED <<netWork, outq, encWork, inq, got>> /\ (FwdGoesOn' => FwdGoesOn)
    BY <1>1 DEF FwdGoesOn, Fwd!SourceStops, Fwd!SourceGrabs, Fwd!GrabberEnds
  <2> QED BY <2>1, <2>2, FwdStill
<1>2. CASE Fwd!SourceFeeds
  <2>1. Fwd!Fed' = Fwd!Fed + 1 /\ grabbed = Fwd!Fed + 1
    BY <1>2 DEF Fwd!Fed, Fwd!SourceFeeds
  <2>2. UNCHANGED <<netWork, outq, encWork, got>> /\ (FwdGoesOn' <=> FwdGoesOn)
    BY <1>2 DEF FwdGoesOn, Fwd!SourceFeeds
  <2>3. CASE inq' = Append(inq, grabbed)
    BY <2>1, <2>2, <2>3, ChainFeed DEF FwdCarried, FwdOrder, FwdWhole
  <2>4. CASE UNCHANGED inq /\ ~nodrop
    BY <2>1, <2>2, <2>4, ChainLater DEF FwdCarried, FwdOrder, FwdWhole, FwdGoesOn
  <2> QED BY <1>2, <2>3, <2>4 DEF Fwd!SourceFeeds
<1> QED BY <1>1, <1>2 DEF Fwd!SourceThread

LEMMA FwdEncoderStep ==
    ASSUME FwdCarried, FwdPhases, Fwd!EncoderThread
    PROVE  FwdCarried'
<1> USE DEF Fwd!options, Fwd!grabber, Fwd!encoder, Fwd!server, Fwd!clients
<1>1. Fwd!Fed' = Fwd!Fed
  BY DEF Fwd!Fed, Fwd!EncoderThread, Fwd!EncoderLoop, Fwd!EncoderGets, Fwd!Encode,
     Fwd!EncoderFeeds, Fwd!EncoderFinishes, Fwd!EncoderExits
<1>2. CASE Fwd!EncoderLoop \/ Fwd!EncoderFinishes \/ Fwd!EncoderExits
          \/ (Fwd!Encode /\ UNCHANGED encWork)
  <2>1. UNCHANGED <<netWork, outq, encWork, inq, got>> /\ (FwdGoesOn' => FwdGoesOn)
    BY <1>2 DEF FwdGoesOn, Fwd!EncoderLoop, Fwd!Encode, Fwd!EncoderFinishes,
        Fwd!EncoderExits
  <2> QED BY <1>1, <2>1, FwdStill
<1>3. CASE Fwd!Encode /\ encWork' = 0 /\ enc' = "finally"
  <2>1. UNCHANGED <<netWork, outq, inq, got>> /\ ~FwdGoesOn' /\ encWork' = 0
    BY <1>3 DEF FwdGoesOn, Fwd!Encode
  <2> QED BY <1>1, <2>1, ChainFeedOut DEF FwdCarried, FwdOrder, FwdWhole
<1>4. CASE Fwd!EncoderGets
  <2>1. /\ UNCHANGED <<netWork, outq, got>> /\ (FwdGoesOn' => FwdGoesOn) /\ encWork = 0
        /\ inq # <<>> /\ encWork' = Head(inq) /\ inq' = Tail(inq)
    BY <1>4 DEF FwdGoesOn, Fwd!EncoderGets, FwdPhases
  <2> QED BY <1>1, <2>1, ChainGetIn DEF FwdCarried, FwdOrder, FwdWhole
<1>5. CASE Fwd!EncoderFeeds
  <2>1. UNCHANGED <<netWork, inq, got>> /\ (FwdGoesOn' <=> FwdGoesOn) /\ encWork' = 0
    BY <1>5 DEF FwdGoesOn, Fwd!EncoderFeeds
  <2>2. CASE outq' = Append(outq, encWork)
    BY <1>1, <2>1, <2>2, ChainFeedOut DEF FwdCarried, FwdOrder, FwdWhole
  <2>3. CASE UNCHANGED outq /\ ~nodrop
    <3>1. ~FwdGoesOn'
      BY <2>1, <2>3 DEF FwdGoesOn
    <3> QED BY <1>1, <2>1, <2>3, <3>1, ChainFeedOut DEF FwdCarried, FwdOrder, FwdWhole
  <2> QED BY <1>5, <2>2, <2>3 DEF Fwd!EncoderFeeds
<1> QED BY <1>2, <1>3, <1>4, <1>5 DEF Fwd!EncoderThread, Fwd!Encode

LEMMA FwdNetStep ==
    ASSUME FwdCarried, FwdPhases, Fwd!NetThread \/ Fwd!NetSends
    PROVE  FwdCarried'
<1> USE DEF Fwd!options, Fwd!grabber, Fwd!encoder, Fwd!server, Fwd!clients
<1>1. Fwd!Fed' = Fwd!Fed
  BY DEF Fwd!Fed, Fwd!NetThread, Fwd!NetLoop, Fwd!NetSelects, Fwd!NetGets,
      Fwd!NetFinishes, Fwd!NetSends
<1>2. CASE Fwd!NetLoop \/ Fwd!NetSelects \/ Fwd!NetFinishes
  <2>1. UNCHANGED <<netWork, outq, encWork, inq, got>> /\ (FwdGoesOn' => FwdGoesOn)
    BY <1>2 DEF FwdGoesOn, Fwd!NetLoop, Fwd!NetSelects, Fwd!NetFinishes
  <2> QED BY <1>1, <2>1, FwdStill
<1>3. CASE Fwd!NetGets
  <2>1. /\ UNCHANGED <<encWork, inq, got>> /\ (FwdGoesOn' <=> FwdGoesOn) /\ netWork = 0
        /\ outq # <<>> /\ netWork' = Head(outq) /\ outq' = Tail(outq)
    BY <1>3 DEF FwdGoesOn, Fwd!NetGets, FwdPhases
  <2> QED BY <1>1, <2>1, ChainGetOut DEF FwdCarried, FwdOrder, FwdWhole
<1>4. CASE Fwd!NetSends
  <2>1. UNCHANGED <<encWork, inq, outq>> /\ (FwdGoesOn' <=> FwdGoesOn) /\ netWork' = 0
    BY <1>4 DEF FwdGoesOn, Fwd!NetSends
  <2>2. got' \in [Clients -> 0 .. Fwd!Fed] /\ \A c \in Clients : got'[c] \in {got[c], netWork}
    <3>1. PICK reached \in SUBSET {c \in conns : client[c] = "in"} :
            got' = [c \in Clients |-> IF c \in reached THEN netWork ELSE got[c]]
      BY <1>4 DEF Fwd!NetSends
    <3>2. netWork \in 0 .. Fwd!Fed /\ got \in [Clients -> 0 .. Fwd!Fed]
      BY DEF FwdCarried, FwdOrder, Chain, Parts
    <3> QED BY <3>1, <3>2
  <2>3. Chain(0, outq, encWork, inq, got', Fwd!Fed)
    BY <2>2, ChainSend DEF FwdCarried, FwdOrder
  <2>4. Whole(Parts(netWork, outq, encWork, inq), Fwd!Fed) =>
          Whole(Parts(0, outq, encWork, inq), Fwd!Fed)
    BY <2>2, ChainSend DEF FwdCarried, FwdOrder
  <2> QED BY <1>1, <2>1, <2>3, <2>4 DEF FwdCarried, FwdOrder, FwdWhole
<1> QED BY <1>2, <1>3, <1>4 DEF Fwd!NetThread

LEMMA FwdStopStep ==
    ASSUME FwdCarried, FwdPhases, NEW s \in Fwd!Stoppers, Fwd!StopStep(s)
    PROVE  FwdCarried'
<1> USE DEF Fwd!options, Fwd!grabber, Fwd!encoder, Fwd!server, Fwd!clients
<1>1. Fwd!Fed' = Fwd!Fed
  BY DEF Fwd!Fed, Fwd!StopStep, Fwd!StopMarks, Fwd!StopDrains, Fwd!StopPutsNone,
      Fwd!StopJoins
<1>2. CASE Fwd!StopMarks(s) \/ Fwd!StopJoins(s)
  <2>1. UNCHANGED <<netWork, outq, encWork, inq, got>> /\ (FwdGoesOn' => FwdGoesOn)
    BY <1>2 DEF FwdGoesOn, Fwd!StopMarks, Fwd!StopJoins
  <2> QED BY <1>1, <2>1, FwdStill
<1>3. CASE Fwd!StopDrains(s)
  <2>1. UNCHANGED <<netWork, encWork, inq, got>> /\ ~FwdGoesOn'
    BY <1>3 DEF FwdGoesOn, Fwd!StopDrains, Fwd!At, FwdPhases
  <2>2. CASE outq = <<>>
    <3>1. UNCHANGED outq
      BY <1>3, <2>2 DEF Fwd!StopDrains
    <3> QED BY <1>1, <2>1, <3>1 DEF FwdCarried, FwdOrder, FwdWhole
  <2>3. CASE outq # <<>>
    <3>1. outq' = Tail(outq)
      BY <1>3, <2>3 DEF Fwd!StopDrains
    <3> QED BY <1>1, <2>1, <2>3, <3>1, ChainGetOut DEF FwdCarried, FwdOrder, FwdWhole
  <2> QED BY <2>2, <2>3
<1>4. CASE Fwd!StopPutsNone(s)
  <2>1. UNCHANGED <<netWork, encWork, inq, got>> /\ (FwdGoesOn' <=> FwdGoesOn) /\ outq' = Append(outq, 0)
    BY <1>4 DEF FwdGoesOn, Fwd!StopPutsNone
  <2> QED BY <1>1, <2>1, ChainNone DEF FwdCarried, FwdOrder, FwdWhole
<1> QED BY <1>2, <1>3, <1>4 DEF Fwd!StopStep

LEMMA FwdMainStep ==
    ASSUME FwdCarried, FwdPhases, Fwd!MainThread \/ Fwd!Interrupted
    PROVE  FwdCarried'
<1> USE DEF Fwd!options, Fwd!grabber, Fwd!encoder, Fwd!server, Fwd!clients
<1>1. Fwd!Fed' = Fwd!Fed
  BY DEF Fwd!Fed, FwdPhases, Fwd!MainThread, Fwd!StartSource, Fwd!StartEncoder,
      Fwd!StartNet,
     Fwd!SourceEnded, Fwd!Interrupted, Fwd!StopSource, Fwd!StopEncoder, Fwd!WakeEncoder,
     Fwd!SinkStopped, Fwd!WakePassthrough, Fwd!JoinEncoder
<1>2. CASE \/ Fwd!StartSource \/ Fwd!StartEncoder \/ Fwd!StartNet \/ Fwd!SourceEnded
          \/ Fwd!Interrupted
  <2>1. UNCHANGED <<netWork, outq, encWork, inq, got>> /\ (FwdGoesOn' => FwdGoesOn)
    BY <1>2 DEF FwdGoesOn, FwdPhases, Fwd!StartSource, Fwd!StartEncoder, Fwd!StartNet,
       Fwd!SourceEnded, Fwd!Interrupted
  <2> QED BY <1>1, <2>1, FwdStill
<1>3. CASE Fwd!StopSource \/ Fwd!StopEncoder \/ Fwd!SinkStopped \/ Fwd!JoinEncoder
  <2>1. UNCHANGED <<netWork, outq, encWork, inq, got>> /\ (FwdGoesOn' => FwdGoesOn)
    BY <1>3 DEF FwdGoesOn, Fwd!StopSource, Fwd!StopEncoder, Fwd!SinkStopped, Fwd!JoinEncoder
  <2> QED BY <1>1, <2>1, FwdStill
<1>4. CASE Fwd!WakeEncoder \/ Fwd!WakePassthrough
  <2>1. UNCHANGED <<netWork, encWork, outq, got>> /\ (FwdGoesOn' <=> FwdGoesOn)
    BY <1>4 DEF FwdGoesOn, Fwd!WakeEncoder, Fwd!WakePassthrough
  <2>2. CASE UNCHANGED inq
    BY <1>1, <2>1, <2>2, FwdStill
  <2>3. CASE inq' = Append(inq, 0)
    BY <1>1, <2>1, <2>3, ChainNone DEF FwdCarried, FwdOrder, FwdWhole
  <2> QED BY <1>4, <2>2, <2>3 DEF Fwd!WakeEncoder, Fwd!WakePassthrough
<1> QED BY <1>2, <1>3, <1>4 DEF Fwd!MainThread

LEMMA FwdStep ==
    ASSUME FwdInv, [Next]_vars
    PROVE  FwdInv'
<1>1. CASE Fwd!Next
  <2>1. grabbed \in Nat /\ inq \in Seq(Nat) /\ outq \in Seq(Nat)
    BY FwdConstants DEF FwdInv, FwdBounds, FwdOrder, Chain
  <2>2. FwdFlags' /\ FwdClients' /\ FwdPhases' /\ FwdBounds'
    BY <1>1, <2>1, FwdFlagsStep, FwdPhasesStep, FwdBoundsStep DEF FwdInv
  <2>3. CASE Fwd!SourceThread \/ Fwd!SourceGrabs \/ Fwd!GrabberEnds
    BY <2>1, <2>2, <2>3, FwdSourceStep DEF FwdInv, FwdCarried
  <2>4. CASE Fwd!EncoderThread
    BY <2>2, <2>4, FwdEncoderStep DEF FwdInv, FwdCarried
  <2>5. CASE Fwd!NetThread \/ Fwd!NetSends
    BY <2>2, <2>5, FwdNetStep DEF FwdInv, FwdCarried
  <2>6. ASSUME NEW s \in Fwd!Stoppers, Fwd!StopStep(s) PROVE FwdInv'
    BY <2>2, <2>6, FwdStopStep DEF FwdInv, FwdCarried
  <2>7. CASE Fwd!MainThread \/ Fwd!Interrupted
    BY <2>2, <2>7, FwdMainStep DEF FwdInv, FwdCarried
  <2>8. ASSUME NEW c \in Clients, Fwd!ClientComes(c) \/ Fwd!ClientGoes(c) PROVE FwdInv'
    <3>1. /\ UNCHANGED <<netWork, outq, encWork, inq, got>>
          /\ (FwdGoesOn' => FwdGoesOn) /\ Fwd!Fed' = Fwd!Fed
      BY <2>8 DEF FwdGoesOn, Fwd!Fed, Fwd!ClientComes, Fwd!ClientGoes, Fwd!options,
          Fwd!grabber,
         Fwd!encoder, Fwd!server
    <3> QED BY <2>2, <3>1, FwdStill DEF FwdInv, FwdCarried
  <2> QED BY <1>1, <2>3, <2>4, <2>5, <2>6, <2>7, <2>8 DEF Fwd!Next
<1>2. CASE UNCHANGED forwarder
  <2>1. FwdFlags' /\ FwdClients' /\ FwdPhases' /\ FwdBounds'
    BY <1>2 DEF forwarder, FwdInv, FwdFlags, FwdClients, FwdPhases, FwdBounds,
        Fwd!MaxGrabbed
  <2>2. UNCHANGED <<netWork, outq, encWork, inq, got>> /\ (FwdGoesOn' => FwdGoesOn) /\ Fwd!Fed' = Fwd!Fed
    BY <1>2 DEF forwarder, FwdGoesOn, Fwd!Fed
  <2> QED BY <2>1, <2>2, FwdStill DEF FwdInv, FwdCarried
<1> QED BY <1>1, <1>2 DEF Next, RunsProxy, RunsForwarder, RunsRelay, vars

LEMMA FwdInvariant == Spec => []FwdInv
<1>1. Init => FwdInv
  BY FwdStart DEF Init
<1>2. FwdInv /\ [Next]_vars => FwdInv'
  BY FwdStep
<1> QED BY <1>1, <1>2, PTL DEF Spec

\* Through two queues and the hands of two threads, clients get what was
\* grabbed in order, none twice; with --nodrop nothing that was fed is missing
\* behind the oldest cloud under way, whatever the sizes of the queues.
THEOREM ForwarderForwards == Spec => []Forwarded
<1>1. FwdInv => Forwarded
  <2> SUFFICES ASSUME FwdInv PROVE Fwd!InOrder /\ Fwd!NothingDropped
    BY DEF Forwarded, Fwd!Forwarded
  <2> DEFINE u == <<netWork>> \o outq \o <<encWork>> \o inq
             p == Parts(netWork, outq, encWork, inq)
  <2>1. u \in Seq(Nat) /\ Rising(u) /\ Items(u) = p
    BY ChainInOrder DEF FwdInv, FwdOrder
  <2>2. Fwd!UnderWay = u /\ Fwd!Places(u) = p
    BY <2>1 DEF Fwd!UnderWay, Fwd!Places, Items
  <2>3. p \subseteq 0 .. Fwd!Fed /\ \A c \in Clients : got[c] \in Nat /\ Precede({got[c]}, p)
    BY DEF FwdInv, FwdOrder, Chain
  <2> HIDE DEF u, p
  <2>4. Fwd!InOrder
    <3> SUFFICES ASSUME NEW j \in 1 .. Len(u), u[j] # 0
                 PROVE  /\ \A i \in 1 .. j - 1 : u[i] < u[j]
                        /\ \A c \in Clients : got[c] < u[j]
      BY <2>2 DEF Fwd!InOrder
    <3>1. ASSUME NEW i \in 1 .. j - 1 PROVE u[i] < u[j]
      <4>1. i \in 1 .. Len(u) /\ i < j /\ u[i] \in Nat /\ u[j] \in Nat
        BY <2>1
      <4> QED BY <2>1, <4>1 DEF Rising
    <3>2. u[j] \in p /\ u[j] \in Nat
      BY <2>1 DEF Items
    <3>3. ASSUME NEW c \in Clients PROVE got[c] < u[j]
      BY <2>3, <3>2 DEF Precede
    <3> QED BY <3>1, <3>3
  <2>5. Fwd!NothingDropped
    BY <2>2, <2>3 DEF Fwd!NothingDropped, FwdInv, FwdWhole, FwdGoesOn, Whole, p
  <2> QED BY <2>4, <2>5
<1> QED BY <1>1, FwdInvariant, PTL

-----------------------------------------------------------------------------
(* The relay: its constants, and the list from which it removes handlers   *)

LEMMA RelConstants ==
    /\ MaxQueue \in Nat \ {0} /\ MaxPackets \in Nat
    /\ IsFiniteSet(Receivers) /\ IsFiniteSet(Ingests)
    /\ Cardinality(Receivers) \in Nat /\ Cardinality(Ingests) \in Nat
<1>1. MaxQueue \in Nat \ {0} /\ MaxPackets \in Nat /\ IsFiniteSet(Receivers) /\ IsFiniteSet(Ingests)
  BY RelayAssumption DEF Rel!ConstantsOK, Rel!IsFiniteSet, IsFiniteSet
<1>2. \A S : IsFiniteSet(S) => Cardinality(S) \in Nat
  BY FS_CardinalityType
<1> QED BY <1>1, <1>2

Distinct(q) == \A k, n \in 1 .. Len(q) : q[k] = q[n] => k = n

\* list.remove() of a handler that is in the list once.
LEMMA Remove ==
    ASSUME NEW S, NEW q \in Seq(S), Distinct(q), NEW x \in Items(q)
    PROVE  /\ Rel!RemoveFirst(q, x) \in Seq(S)
           /\ Distinct(Rel!RemoveFirst(q, x))
           /\ Items(Rel!RemoveFirst(q, x)) = Items(q) \ {x}
<1>1. PICK m \in 1 .. Len(q) : q[m] = x
  BY DEF Items
<1>2. \A k \in 1 .. Len(q) : q[k] = x => k = m
  BY <1>1 DEF Distinct
<1>3. Rel!RemoveFirst(q, x) = SubSeq(q, 1, m - 1) \o SubSeq(q, m + 1, Len(q))
  <2> DEFINE I == {k \in 1 .. Len(q) : q[k] = x}
  <2>1. I = {m} /\ Rel!Min(I) = m
    BY <1>1, <1>2 DEF Rel!Min
  <2>2. Rel!SelectInSeq(q, LAMBDA v : v = x) = m
    BY <2>1 DEF Rel!SelectInSeq
  <2> QED BY <1>1, <2>2 DEF Rel!RemoveFirst, Rel!RemoveAt
<1> DEFINE r == Rel!RemoveFirst(q, x)
<1> HIDE DEF r
<1> DEFINE p == SubSeq(q, 1, m - 1)  t == SubSeq(q, m + 1, Len(q))
<1>10. Len(q) \in Nat /\ m \in Nat \ {0} /\ m <= Len(q)
  OBVIOUS
<1>11. /\ p \in Seq(S) /\ Len(p) = m - 1
       /\ \A k \in 1 .. m - 1 : p[k] = q[k]
  BY <1>10
<1>12. t \in Seq(S) /\ Len(t) = Len(q) - m
  BY <1>10
<1>13. \A k \in 1 .. Len(q) - m : t[k] = q[m + k]
  BY <1>10
<1> HIDE DEF p, t
<1>14. /\ p \o t \in Seq(S) /\ Len(p \o t) = Len(q) - 1
       /\ \A k \in 1 .. Len(q) - 1 : (p \o t)[k] = IF k <= m - 1 THEN p[k] ELSE t[k - (m - 1)]
  <2>1. /\ p \o t \in Seq(S) /\ Len(p \o t) = Len(p) + Len(t)
        /\ \A k \in 1 .. Len(p) + Len(t) :
             (p \o t)[k] = IF k <= Len(p) THEN p[k] ELSE t[k - Len(p)]
    <3>1. p \in Seq(S) /\ t \in Seq(S)
      BY <1>11, <1>12
    <3> QED BY <3>1, SMTT(20)
  <2>2. Len(p) + Len(t) = Len(q) - 1
    BY <1>10, <1>11, <1>12
  <2> QED BY <1>11, <2>1, <2>2
<1>15. ASSUME NEW k \in 1 .. Len(q) - 1 PROVE (p \o t)[k] = IF k < m THEN q[k] ELSE q[k + 1]
  <2>1. CASE k < m
    BY <1>10, <1>11, <1>14, <2>1
  <2>2. CASE ~(k < m)
    <3>1. k - (m - 1) \in 1 .. Len(q) - m /\ m + (k - (m - 1)) = k + 1 /\ ~(k <= m - 1)
      BY <1>10, <2>2
    <3>2. t[k - (m - 1)] = q[k + 1]
      BY <1>13, <3>1
    <3> QED BY <1>14, <2>2, <3>1, <3>2
  <2> QED BY <2>1, <2>2
<1>16. r = p \o t
  BY <1>3 DEF p, r, t
<1>4. /\ r \in Seq(S) /\ Len(r) = Len(q) - 1 /\ Len(q) \in Nat
      /\ \A k \in 1 .. Len(r) : r[k] = IF k < m THEN q[k] ELSE q[k + 1]
  BY <1>10, <1>14, <1>15, <1>16
<1>5. Distinct(r)
  <2> SUFFICES ASSUME NEW k \in 1 .. Len(r), NEW n \in 1 .. Len(r), r[k] = r[n] PROVE k = n
    BY DEF Distinct
  <2> DEFINE a == IF k < m THEN k ELSE k + 1
             b == IF n < m THEN n ELSE n + 1
  <2>1. a \in 1 .. Len(q) /\ b \in 1 .. Len(q) /\ q[a] = q[b]
    BY <1>4
  <2>2. a = b
    BY <2>1 DEF Distinct
  <2> QED BY <1>4, <2>2
<1>6. ASSUME NEW k \in 1 .. Len(r) PROVE r[k] \in Items(q) \ {x}
  <2> DEFINE a == IF k < m THEN k ELSE k + 1
  <2>1. a \in 1 .. Len(q) /\ a # m /\ r[k] = q[a]
    BY <1>4
  <2> QED BY <1>2, <2>1 DEF Items
<1>7. ASSUME NEW n \in 1 .. Len(q), q[n] # x PROVE q[n] \in Items(r)
  <2>1. n # m
    BY <1>1, <1>7
  <2>2. CASE n < m
    <3>1. n \in 1 .. Len(r) /\ r[n] = q[n]
      BY <1>4, <1>10, <2>2
    <3> QED BY <3>1 DEF Items
  <2>3. CASE ~(n < m)
    <3>1. n - 1 \in 1 .. Len(r) /\ ~(n - 1 < m) /\ n - 1 + 1 = n
      BY <1>4, <1>10, <2>1, <2>3
    <3>2. r[n - 1] = q[n]
      BY <1>4, <3>1
    <3> QED BY <3>1, <3>2 DEF Items
  <2> QED BY <2>2, <2>3
<1>8. Items(r) = Items(q) \ {x}
  BY <1>6, <1>7 DEF Items
<1> QED BY <1>4, <1>5, <1>8 DEF r

LEMMA AppendDistinct ==
    ASSUME NEW S, NEW q \in Seq(S), Distinct(q), NEW x \in S, x \notin Items(q)
    PROVE  Distinct(Append(q, x))
<1> DEFINE r == Append(q, x)
<1>1. /\ Len(r) = Len(q) + 1 /\ r[Len(q) + 1] = x /\ Len(q) \in Nat
      /\ \A i \in 1 .. Len(q) : r[i] = q[i]
  BY AppendTo
<1> HIDE DEF r
<1>2. \A k \in 1 .. Len(r) : k \in 1 .. Len(q) \/ k = Len(q) + 1
  BY <1>1
<1>3. \A k \in 1 .. Len(q) : q[k] # x
  BY DEF Items
<1>4. Distinct(r)
  BY <1>1, <1>2, <1>3 DEF Distinct
<1> QED BY <1>4 DEF r

LEMMA DistinctLength ==
    ASSUME NEW S, IsFiniteSet(S), NEW q \in Seq(S), Distinct(q)
    PROVE  Len(q) \in 0 .. Cardinality(S)
<1>1. q \in Injection(1 .. Len(q), S) /\ Len(q) \in Nat
  BY DEF Distinct, Injection, IsInjective
<1>2. Cardinality(1 .. Len(q)) <= Cardinality(S)
  BY <1>1, FS_Injection
<1>3. Cardinality(1 .. Len(q)) = Len(q)
  <2>1. 1 \in Int /\ Len(q) \in Int
    BY <1>1
  <2>2. Cardinality(1 .. Len(q)) = IF 1 > Len(q) THEN 0 ELSE Len(q) - 1 + 1
    BY <2>1, FS_Interval
  <2> QED BY <1>1, <2>2
<1>4. Cardinality(S) \in Nat
  BY FS_CardinalityType
<1> QED BY <1>1, <1>2, <1>3, <1>4

LEMMA ImageBound ==
    ASSUME NEW S, IsFiniteSet(S), NEW f
    PROVE  LET T == {f[x] : x \in S}
           IN  IsFiniteSet(T) /\ Cardinality(T) <= Cardinality(S)
<1> DEFINE T == {f[x] : x \in S}
           g == [x \in S |-> f[x]]
<1>1. g \in Surjection(S, T)
  BY DEF Surjection
<1> QED BY <1>1, FS_Surjection

LEMMA SameCardinality == \A S : Rel!Cardinality(S) = Cardinality(S)
BY DEF Rel!Cardinality, Cardinality

-----------------------------------------------------------------------------
(* The relay: its inductive invariant                                      *)

Listed(r) == \E k \in 1 .. Len(handlers) : handlers[k] = r

RelIngests ==
    /\ packets \in 0 .. MaxPackets
    /\ ingest \in [Ingests -> {"out", "receive", "forward", "stopAll", "remove", "close",
                               "crashed", "stopped"}]
    /\ carried \in [Ingests -> 0 .. MaxPackets]
    /\ index \in [Ingests -> Nat \ {0}]
    /\ stopping \in [Ingests -> Receivers \cup {"none"}]

RelHandlers == handlers \in Seq(Receivers) /\ Distinct(handlers) /\ removals \in Nat

RelReceivers ==
    /\ place \in [Receivers -> {"out", "loop", "get", "send", "test", "remove", "close", "ended"}]
    /\ peer \in [Receivers -> {"out", "in", "gone"}]
    /\ settled \in [Receivers -> SUBSET (1 .. MaxPackets)]

RelQueues ==
    /\ queue \in [Receivers -> Seq(1 .. MaxPackets)]
    /\ \A r \in Receivers : Len(queue[r]) <= MaxQueue
    /\ sending \in [Receivers -> 0 .. MaxPackets]

\* An ingest handler begins each walk over the list at its head, and goes at
\* most one past the number of handlers there can be.
RelWalks ==
    \A i \in Ingests :
        /\ ingest[i] \in {"out", "receive"} => index[i] = 1
        /\ index[i] <= Cardinality(Receivers) + 1
        /\ ingest[i] = "forward" => carried[i] # 0
        /\ ingest[i] \in {"remove", "close"} =>
             stopping[i] \in Receivers /\ index[i] <= Cardinality(Receivers)
        /\ ingest[i] \in {"remove", "close"} => peer[stopping[i]] # "out"
        /\ ingest[i] = "close" => ~Listed(stopping[i])

\* A handler in the list has its connection: whoever is about to close it has
\* removed the handler first.  One that is not in the list never returns.
RelConnected ==
    \A r \in Receivers :
        /\ Listed(r) => request[r] /\ peer[r] # "out"
        /\ place[r] = "close" => ~Listed(r)
        /\ peer[r] = "out" => place[r] = "out"
        /\ place[r] = "send" <=> sending[r] # 0

\* Handler r is still ahead of ingest handler i, which carries packet p.
Ahead(i, p, r) ==
    /\ ingest[i] = "forward" /\ carried[i] = p
    /\ \E k \in 1 .. Len(handlers) : handlers[k] = r /\ index[i] <= k

\* What r has missed for good: no ingest handler will come by with it.
Gap(r) == (1 .. packets) \ (settled[r] \cup Items(queue[r]) \cup {sending[r]})
Skipped(r) == {p \in Gap(r) : \A i \in Ingests : ~Ahead(i, p, r)}

RelCost ==
    \A r \in Receivers :
        Listed(r) /\ peer[r] = "in" =>
            Cardinality(Skipped(r)) <= Cardinality(Ingests) * removals

RelRequests == request \in [Receivers -> BOOLEAN]

RelInv ==
    /\ RelIngests /\ RelHandlers /\ RelReceivers /\ RelRequests /\ RelQueues
    /\ RelWalks /\ RelConnected /\ RelCost

LEMMA ListedIs ==
    /\ \A r : Rel!Listed(r) <=> Listed(r)
    /\ \A r : Listed(r) <=> r \in Items(handlers)
BY DEF Rel!Listed, Listed, Items

LEMMA RelStart == Rel!Init => RelInv
<1> SUFFICES ASSUME Rel!Init PROVE RelInv
  OBVIOUS
<1> USE RelConstants DEF Rel!Init
<1>1. RelIngests
  BY DEF RelIngests
<1>2. RelHandlers
  BY DEF RelHandlers, Distinct
<1>3. RelReceivers
  BY DEF RelReceivers
<1>4. RelQueues /\ RelRequests
  BY DEF RelQueues, RelRequests
<1>5. \A r : ~Listed(r)
  BY DEF Listed
<1>6. RelWalks /\ RelConnected /\ RelCost
  BY <1>5 DEF RelWalks, RelConnected, RelCost
<1> QED BY <1>1, <1>2, <1>3, <1>4, <1>6 DEF RelInv

\* Both forms of removal.
LEMMA UnlistIs ==
    ASSUME RelHandlers, NEW x, Rel!Listed(x), Rel!Unlist(x)
    PROVE  /\ RelHandlers' /\ removals' = removals + 1
           /\ Items(handlers') = Items(handlers) \ {x}
           /\ \A r : Listed(r)' <=> Listed(r) /\ r # x
<1>1. x \in Items(handlers)
  BY ListedIs
<1>2. /\ handlers' \in Seq(Receivers) /\ Distinct(handlers')
      /\ Items(handlers') = Items(handlers) \ {x}
  BY <1>1, Remove DEF Rel!Unlist, RelHandlers
<1>3. removals' = removals + 1 /\ removals' \in Nat
  BY DEF Rel!Unlist, RelHandlers
<1>4. ASSUME NEW r PROVE Listed(r)' <=> Listed(r) /\ r # x
  BY <1>2 DEF Listed, Items
<1> QED BY <1>2, <1>3, <1>4 DEF RelHandlers

LEMMA RelIngestsStep ==
    ASSUME RelIngests, RelHandlers, Rel!Next
    PROVE  RelIngests'
<1> USE RelConstants DEF RelIngests, Rel!Goto, Rel!ingesting, Rel!forwarding
<1>1. ASSUME NEW i \in Ingests, Rel!IngestConnects(i) \/ Rel!PacketArrives(i)
          \/ Rel!IngestEnds(i)
      PROVE  RelIngests'
  BY <1>1 DEF Rel!IngestConnects, Rel!PacketArrives, Rel!IngestEnds
<1>2. ASSUME NEW i \in Ingests, Rel!ForwardOne(i) \/ Rel!ForwardedAll(i)
      PROVE  RelIngests'
  <2>1. CASE Rel!ForwardOne(i)
    <3>1. UNCHANGED <<packets, ingest, carried, stopping>> /\ index' = [index EXCEPT ![i] = @ + 1]
      BY <2>1 DEF Rel!ForwardOne
    <3> QED BY <3>1
  <2>2. CASE Rel!ForwardedAll(i)
    BY <2>2 DEF Rel!ForwardedAll
  <2> QED BY <1>2, <2>1, <2>2
<1>3. ASSUME NEW i \in Ingests, Rel!StopOne(i)
      PROVE  RelIngests'
  <2>1. handlers[index[i]] \in Receivers
    BY <1>3 DEF Rel!StopOne, RelHandlers
  <2> QED BY <1>3, <2>1 DEF Rel!StopOne
<1>4. ASSUME NEW i \in Ingests, Rel!StopRemoves(i) \/ Rel!StopCloses(i)
          \/ Rel!IngestStopped(i)
      PROVE  RelIngests'
  <2>1. CASE Rel!StopRemoves(i)
    <3>1. /\ UNCHANGED <<packets, carried, index, stopping>>
          /\ \E to \in {"close", "crashed"} : ingest' = [ingest EXCEPT ![i] = to]
      BY <2>1 DEF Rel!StopRemoves
    <3> QED BY <3>1
  <2>2. CASE Rel!StopCloses(i)
    BY <2>2 DEF Rel!StopCloses
  <2>3. CASE Rel!IngestStopped(i)
    BY <2>3 DEF Rel!IngestStopped
  <2> QED BY <1>4, <2>1, <2>2, <2>3
<1>5. CASE UNCHANGED Rel!ingesting
  BY <1>5
<1>6. ASSUME NEW r \in Receivers, Rel!ReceiverConnects(r) \/ Rel!ReceiverGoes(r)
          \/ Rel!HandlerStep(r) \/ Rel!Send(r)
      PROVE  UNCHANGED Rel!ingesting
  BY <1>6 DEF Rel!ReceiverConnects, Rel!ReceiverGoes, Rel!HandlerStep, Rel!Loop, Rel!Get,
     Rel!TestSelf, Rel!RemoveSelf, Rel!CloseSelf, Rel!Send
<1>7. CASE Rel!JoinIngest \/ Rel!JoinForward
  BY <1>7 DEF Rel!JoinIngest, Rel!JoinForward
<1> QED BY <1>1, <1>2, <1>3, <1>4, <1>5, <1>6, <1>7 DEF Rel!Next, Rel!IngestStep

LEMMA RelHandlersStep ==
    ASSUME RelHandlers, RelConnected, Rel!Next
    PROVE  RelHandlers'
<1>1. CASE UNCHANGED <<handlers, removals>>
  BY <1>1 DEF RelHandlers
<1>2. ASSUME NEW x, Rel!Listed(x), Rel!Unlist(x)
      PROVE  RelHandlers'
  BY <1>2, UnlistIs
<1>3. ASSUME NEW r \in Receivers, Rel!ReceiverConnects(r) PROVE RelHandlers'
  <2>1. r \notin Items(handlers)
    BY <1>3, ListedIs DEF Rel!ReceiverConnects, RelConnected
  <2>2. Distinct(Append(handlers, r)) /\ Append(handlers, r) \in Seq(Receivers)
    BY <2>1, AppendDistinct DEF RelHandlers
  <2> QED BY <1>3, <2>2 DEF RelHandlers, Rel!ReceiverConnects
<1>4. ASSUME NEW i \in Ingests, Rel!IngestConnects(i) \/ Rel!PacketArrives(i)
          \/ Rel!IngestEnds(i) \/ Rel!IngestStep(i)
      PROVE  RelHandlers'
  BY <1>1, <1>2, <1>4 DEF Rel!IngestConnects, Rel!PacketArrives, Rel!IngestEnds,
      Rel!IngestStep,
     Rel!ForwardOne, Rel!ForwardedAll, Rel!StopOne, Rel!StopRemoves, Rel!StopCloses, Rel!IngestStopped
<1>5. ASSUME NEW r \in Receivers, Rel!ReceiverGoes(r) \/ Rel!HandlerStep(r) \/ Rel!Send(r)
      PROVE  RelHandlers'
  BY <1>1, <1>2, <1>5 DEF Rel!ReceiverGoes, Rel!HandlerStep, Rel!Loop, Rel!Get,
     Rel!TestSelf, Rel!RemoveSelf, Rel!CloseSelf, Rel!Send
<1>6. CASE Rel!JoinIngest \/ Rel!JoinForward
  BY <1>1, <1>6 DEF Rel!JoinIngest, Rel!JoinForward
<1> QED BY <1>3, <1>4, <1>5, <1>6 DEF Rel!Next

LEMMA RelReceiversStep ==
    ASSUME RelReceivers, RelIngests, RelQueues, RelHandlers, RelWalks, RelConnected, Rel!Next
    PROVE  RelReceivers'
<1> USE RelConstants DEF RelReceivers, Rel!ingesting, Rel!forwarding, Rel!Move
<1>1. ASSUME NEW r \in Receivers, Rel!ReceiverConnects(r)
          \/ Rel!ReceiverGoes(r) PROVE RelReceivers'
  <2>1. 1 .. packets \in SUBSET (1 .. MaxPackets)
    BY DEF RelIngests
  <2> QED BY <1>1, <2>1 DEF Rel!ReceiverConnects, Rel!ReceiverGoes
<1>2. ASSUME NEW r \in Receivers, Rel!HandlerStep(r)
      PROVE  RelReceivers'
  BY <1>2 DEF Rel!HandlerStep, Rel!Loop, Rel!Get, Rel!TestSelf, Rel!RemoveSelf,
      Rel!CloseSelf
<1>3. ASSUME NEW r \in Receivers, Rel!Send(r)
      PROVE  RelReceivers'
  <2>1. settled[r] \cup {sending[r]} \in SUBSET (1 .. MaxPackets)
    BY <1>3 DEF RelQueues, Rel!Send, RelConnected
  <2> QED BY <1>3, <2>1 DEF Rel!Send
<1>4. ASSUME NEW i \in Ingests, Rel!ForwardOne(i)
      PROVE  RelReceivers'
  <2> DEFINE r == handlers[index[i]]
  <2>1. r \in Receivers
    BY <1>4 DEF Rel!ForwardOne, RelHandlers, RelIngests
  <2>2. settled[r] \cup {carried[i]} \in SUBSET (1 .. MaxPackets)
    BY <1>4, <2>1 DEF RelIngests, RelWalks, Rel!ForwardOne
  <2>3. settled' \in {settled, [settled EXCEPT ![r] = @ \cup {carried[i]}]} /\ UNCHANGED <<place, peer>>
    BY <1>4 DEF Rel!ForwardOne
  <2> HIDE DEF r
  <2> QED BY <2>1, <2>2, <2>3
<1>5. ASSUME NEW i \in Ingests, Rel!IngestConnects(i) \/ Rel!PacketArrives(i)
          \/ Rel!IngestEnds(i)
                \/ Rel!ForwardedAll(i) \/ Rel!StopOne(i) \/ Rel!StopRemoves(i)
                          \/ Rel!StopCloses(i) \/ Rel!IngestStopped(i)
      PROVE  RelReceivers'
  BY <1>5 DEF Rel!IngestConnects, Rel!PacketArrives, Rel!IngestEnds,
     Rel!ForwardedAll, Rel!StopOne, Rel!StopRemoves, Rel!StopCloses, Rel!IngestStopped
<1>6. CASE Rel!JoinIngest \/ Rel!JoinForward
  BY <1>6 DEF Rel!JoinIngest, Rel!JoinForward
<1> QED BY <1>1, <1>2, <1>3, <1>4, <1>5, <1>6 DEF Rel!Next, Rel!IngestStep

LEMMA RelRequestsStep ==
    ASSUME RelRequests, Rel!Next
    PROVE  RelRequests'
<1> USE DEF RelRequests, Rel!ingesting, Rel!forwarding
<1>1. ASSUME NEW i \in Ingests, Rel!IngestConnects(i) \/ Rel!PacketArrives(i)
          \/ Rel!IngestEnds(i) \/ Rel!IngestStep(i)
      PROVE  RelRequests'
  BY <1>1 DEF Rel!IngestConnects, Rel!PacketArrives, Rel!IngestEnds, Rel!IngestStep,
     Rel!ForwardOne, Rel!ForwardedAll, Rel!StopOne, Rel!StopRemoves, Rel!StopCloses, Rel!IngestStopped
<1>2. ASSUME NEW r \in Receivers, Rel!ReceiverConnects(r) \/ Rel!ReceiverGoes(r)
          \/ Rel!HandlerStep(r) \/ Rel!Send(r)
      PROVE  RelRequests'
  BY <1>2 DEF Rel!ReceiverConnects, Rel!ReceiverGoes, Rel!HandlerStep, Rel!Loop, Rel!Get,
     Rel!TestSelf, Rel!RemoveSelf, Rel!CloseSelf, Rel!Send
<1>3. CASE Rel!JoinIngest \/ Rel!JoinForward
  BY <1>3 DEF Rel!JoinIngest, Rel!JoinForward
<1> QED BY <1>1, <1>2, <1>3 DEF Rel!Next

\* What a step does to the queues: nothing; one packet more for one of the
\* receivers; the first of a queue goes to its handler; the handler is done.
LEMMA RelQueueSteps ==
    ASSUME RelIngests, RelHandlers, RelWalks, Rel!Next
    PROVE  \/ UNCHANGED <<queue, sending>>
           \/ \E r \in Receivers, p \in 1 .. MaxPackets :
                /\ Len(queue[r]) # MaxQueue
                /\ queue' = [queue EXCEPT ![r] = Append(@, p)] /\ UNCHANGED sending
           \/ \E r \in Receivers :
                /\ queue[r] # <<>>
                /\ sending' = [sending EXCEPT ![r] = Head(queue[r])]
                /\ queue' = [queue EXCEPT ![r] = Tail(@)]
           \/ \E r \in Receivers : sending' = [sending EXCEPT ![r] = 0] /\ UNCHANGED queue
<1> DEFINE Same == UNCHANGED <<queue, sending>>
<1> USE DEF Rel!ingesting, Rel!forwarding
<1>1. ASSUME NEW i \in Ingests, Rel!IngestConnects(i) \/ Rel!PacketArrives(i)
          \/ Rel!IngestEnds(i)
                \/ Rel!ForwardedAll(i) \/ Rel!StopOne(i) \/ Rel!StopRemoves(i)
                          \/ Rel!StopCloses(i) \/ Rel!IngestStopped(i)
      PROVE  Same
  BY <1>1 DEF Rel!IngestConnects, Rel!PacketArrives, Rel!IngestEnds,
     Rel!ForwardedAll, Rel!StopOne, Rel!StopRemoves, Rel!StopCloses, Rel!IngestStopped
<1>2. ASSUME NEW i \in Ingests, Rel!ForwardOne(i), ~Same
      PROVE  \E r \in Receivers, p \in 1 .. MaxPackets :
                /\ Len(queue[r]) # MaxQueue
                /\ queue' = [queue EXCEPT ![r] = Append(@, p)] /\ UNCHANGED sending
  <2> DEFINE r == handlers[index[i]]
  <2>1. r \in Receivers
    BY <1>2 DEF Rel!ForwardOne, RelHandlers, RelIngests
  <2>2. carried[i] \in 1 .. MaxPackets
    BY <1>2, RelConstants DEF Rel!ForwardOne, RelIngests, RelWalks
  <2>3. /\ Len(queue[r]) # MaxQueue /\ UNCHANGED sending
        /\ queue' = [queue EXCEPT ![r] = Append(@, carried[i])]
    BY <1>2 DEF Rel!ForwardOne
  <2> HIDE DEF r
  <2> QED BY <2>1, <2>2, <2>3
<1>3. ASSUME NEW r \in Receivers, Rel!ReceiverConnects(r) \/ Rel!ReceiverGoes(r)
          \/ Rel!Loop(r) \/ Rel!TestSelf(r) \/ Rel!RemoveSelf(r) \/ Rel!CloseSelf(r)
      PROVE  Same
  BY <1>3 DEF Rel!ReceiverConnects, Rel!ReceiverGoes, Rel!Loop, Rel!TestSelf,
      Rel!RemoveSelf, Rel!CloseSelf
<1>4. ASSUME NEW r \in Receivers, Rel!Get(r), ~Same
      PROVE  /\ queue[r] # <<>>
             /\ sending' = [sending EXCEPT ![r] = Head(queue[r])]
             /\ queue' = [queue EXCEPT ![r] = Tail(@)]
  BY <1>4 DEF Rel!Get
<1>5. ASSUME NEW r \in Receivers, Rel!Send(r)
      PROVE  sending' = [sending EXCEPT ![r] = 0] /\ UNCHANGED queue
  BY <1>5 DEF Rel!Send
<1>6. CASE Rel!JoinIngest \/ Rel!JoinForward
  BY <1>6 DEF Rel!JoinIngest, Rel!JoinForward
<1> QED BY <1>1, <1>2, <1>3, <1>4, <1>5, <1>6 DEF Rel!Next, Rel!IngestStep, Rel!HandlerStep

LEMMA RelQueuesStep ==
    ASSUME RelIngests, RelHandlers, RelWalks, RelQueues, Rel!Next
    PROVE  RelQueues'
<1> USE RelConstants
<1>1. CASE UNCHANGED <<queue, sending>>
  BY <1>1 DEF RelQueues
<1>2. ASSUME NEW r \in Receivers, NEW p \in 1 .. MaxPackets,
             Len(queue[r]) # MaxQueue,
             queue' = [queue EXCEPT ![r] = Append(@, p)], UNCHANGED sending
      PROVE  RelQueues'
  <2>1. queue[r] \in Seq(1 .. MaxPackets) /\ Len(queue[r]) \in Nat
    BY DEF RelQueues
  <2>2. Append(queue[r], p) \in Seq(1 .. MaxPackets) /\ Len(Append(queue[r], p)) = Len(queue[r]) + 1
    BY <2>1, AppendTo
  <2>3. Len(Append(queue[r], p)) <= MaxQueue
    BY <1>2, <2>1, <2>2 DEF RelQueues
  <2> QED BY <1>2, <2>2, <2>3 DEF RelQueues
<1>3. ASSUME NEW r \in Receivers, queue[r] # <<>>,
             sending' = [sending EXCEPT ![r] = Head(queue[r])],
             queue' = [queue EXCEPT ![r] = Tail(@)]
      PROVE  RelQueues'
  <2>1. queue[r] \in Seq(1 .. MaxPackets) /\ Len(queue[r]) \in Nat
    BY DEF RelQueues
  <2>2. /\ Tail(queue[r]) \in Seq(1 .. MaxPackets) /\ Head(queue[r]) \in 1 .. MaxPackets
        /\ Len(Tail(queue[r])) = Len(queue[r]) - 1
    BY <1>3, <2>1, TailOf
  <2>3. Len(Tail(queue[r])) <= MaxQueue
    BY <2>1, <2>2 DEF RelQueues
  <2> QED BY <1>3, <2>2, <2>3 DEF RelQueues
<1>4. ASSUME NEW r \in Receivers, sending' = [sending EXCEPT ![r] = 0], UNCHANGED queue
      PROVE  RelQueues'
  BY <1>4 DEF RelQueues
<1> QED BY <1>1, <1>2, <1>3, <1>4, RelQueueSteps

\* What a step does to the list: a receiver that had not been there comes,
\* one is removed, or the list stays.
LEMMA ListSteps ==
    ASSUME RelHandlers, Rel!Next
    PROVE  \/ UNCHANGED <<handlers, removals>>
           \/ \E r \in Receivers : Rel!ReceiverConnects(r)
           \/ \E x : Rel!Listed(x) /\ Rel!Unlist(x)
<1> DEFINE Same == UNCHANGED <<handlers, removals>>
<1>4. ASSUME NEW i \in Ingests, Rel!IngestConnects(i) \/ Rel!PacketArrives(i)
          \/ Rel!IngestEnds(i) \/ Rel!IngestStep(i)
      PROVE  Same \/ (Rel!Listed(stopping[i]) /\ Rel!Unlist(stopping[i]))
  BY <1>4 DEF Rel!IngestConnects, Rel!PacketArrives, Rel!IngestEnds, Rel!IngestStep,
     Rel!ForwardOne, Rel!ForwardedAll, Rel!StopOne, Rel!StopRemoves, Rel!StopCloses, Rel!IngestStopped
<1>5. ASSUME NEW r \in Receivers, Rel!ReceiverGoes(r) \/ Rel!HandlerStep(r) \/ Rel!Send(r)
      PROVE  Same \/ (Rel!Listed(r) /\ Rel!Unlist(r))
  BY <1>5 DEF Rel!ReceiverGoes, Rel!HandlerStep, Rel!Loop, Rel!Get,
     Rel!TestSelf, Rel!RemoveSelf, Rel!CloseSelf, Rel!Send
<1>6. CASE Rel!JoinIngest \/ Rel!JoinForward
  BY <1>6 DEF Rel!JoinIngest, Rel!JoinForward
<1> QED BY <1>4, <1>5, <1>6 DEF Rel!Next

LEMMA ListedLater ==
    ASSUME RelHandlers, Rel!Next
    PROVE  \A r : Listed(r)' => Listed(r) \/ (r \in Receivers /\ Rel!ReceiverConnects(r))
<1> SUFFICES ASSUME NEW r, Listed(r)'
             PROVE  Listed(r) \/ (r \in Receivers /\ Rel!ReceiverConnects(r))
  OBVIOUS
<1>1. CASE UNCHANGED <<handlers, removals>>
  BY <1>1 DEF Listed
<1>2. ASSUME NEW x, Rel!Listed(x), Rel!Unlist(x) PROVE Listed(r)
  BY <1>2, UnlistIs
<1>3. ASSUME NEW x \in Receivers, Rel!ReceiverConnects(x), r # x PROVE Listed(r)
  <2>1. handlers' = Append(handlers, x)
    BY <1>3 DEF Rel!ReceiverConnects
  <2>2. Items(handlers') = Items(handlers) \cup {x}
    BY <2>1, ItemsAfterAppend DEF RelHandlers
  <2>3. r \in Items(handlers')
    BY DEF Listed, Items
  <2> QED BY <1>3, <2>2, <2>3, ListedIs
<1> QED BY <1>1, <1>2, <1>3, ListSteps

LEMMA PeerSteps ==
    ASSUME RelReceivers, Rel!Next
    PROVE  \A r \in Receivers : peer[r] # "out" => peer'[r] # "out"
<1> USE DEF RelReceivers, Rel!ingesting, Rel!forwarding
<1>1. ASSUME NEW x \in Receivers, Rel!ReceiverConnects(x) \/ Rel!ReceiverGoes(x)
      PROVE  \A r \in Receivers : peer[r] # "out" => peer'[r] # "out"
  BY <1>1 DEF Rel!ReceiverConnects, Rel!ReceiverGoes
<1>2. ASSUME NEW i \in Ingests, Rel!IngestConnects(i) \/ Rel!PacketArrives(i)
          \/ Rel!IngestEnds(i) \/ Rel!IngestStep(i)
      PROVE  UNCHANGED peer
  BY <1>2 DEF Rel!IngestConnects, Rel!PacketArrives, Rel!IngestEnds, Rel!IngestStep,
     Rel!ForwardOne, Rel!ForwardedAll, Rel!StopOne, Rel!StopRemoves, Rel!StopCloses, Rel!IngestStopped
<1>3. ASSUME NEW r \in Receivers, Rel!HandlerStep(r) \/ Rel!Send(r)
      PROVE  UNCHANGED peer
  BY <1>3 DEF Rel!HandlerStep, Rel!Loop, Rel!Get, Rel!TestSelf, Rel!RemoveSelf,
      Rel!CloseSelf, Rel!Send
<1>4. CASE Rel!JoinIngest \/ Rel!JoinForward
  BY <1>4 DEF Rel!JoinIngest, Rel!JoinForward
<1> QED BY <1>1, <1>2, <1>3, <1>4 DEF Rel!Next

LEMMA RelWalksStep ==
    ASSUME RelIngests, RelHandlers, RelReceivers, RelWalks, RelConnected, Rel!Next
    PROVE  RelWalks'
<1>1. Len(handlers) \in 0 .. Cardinality(Receivers)
  BY RelConstants, DistinctLength DEF RelHandlers
<1>2. Cardinality(Receivers) \in Nat
  BY RelConstants
<1> DEFINE Fine(i) ==
        /\ ingest[i] \in {"out", "receive"} => index[i] = 1
        /\ index[i] <= Cardinality(Receivers) + 1
        /\ ingest[i] = "forward" => carried[i] # 0
        /\ ingest[i] \in {"remove", "close"} =>
             stopping[i] \in Receivers /\ index[i] <= Cardinality(Receivers)
\* The positions of the ingest handlers.
<1>3. \A j \in Ingests : Fine(j)'
  <2> SUFFICES ASSUME NEW j \in Ingests PROVE Fine(j)'
    OBVIOUS
  <2>0. Fine(j) /\ index[j] \in Nat \ {0}
    BY DEF RelWalks, RelIngests
  <2> USE <2>0 DEF Rel!Goto, Rel!ingesting, Rel!forwarding
  <2>1. ASSUME NEW i \in Ingests, Rel!IngestConnects(i) \/ Rel!PacketArrives(i)
            \/ Rel!IngestEnds(i)
        PROVE  Fine(j)'
    BY <2>1 DEF Rel!IngestConnects, Rel!PacketArrives, Rel!IngestEnds, RelIngests
  <2>2. ASSUME NEW i \in Ingests, Rel!ForwardOne(i) PROVE Fine(j)'
    <3>1. /\ UNCHANGED <<ingest, carried, stopping>> /\ index' = [index EXCEPT ![i] = @ + 1]
          /\ index[i] <= Len(handlers) /\ ingest[i] = "forward"
      BY <2>2 DEF Rel!ForwardOne
    <3> QED BY <1>1, <1>2, <3>1 DEF RelIngests
  <2>3. ASSUME NEW i \in Ingests, Rel!ForwardedAll(i) PROVE Fine(j)'
    BY <1>2, <2>3 DEF Rel!ForwardedAll, RelIngests
  <2>4. ASSUME NEW i \in Ingests, Rel!StopOne(i) PROVE Fine(j)'
    <3>1. handlers[index[i]] \in Receivers /\ index[i] <= Cardinality(Receivers)
      BY <1>1, <1>2, <2>4 DEF Rel!StopOne, RelHandlers, RelIngests
    <3> QED BY <2>4, <3>1 DEF Rel!StopOne, RelIngests
  <2>5. ASSUME NEW i \in Ingests, Rel!StopRemoves(i) PROVE Fine(j)'
    <3>1. /\ UNCHANGED <<carried, index, stopping>> /\ ingest[i] = "remove"
          /\ \E to \in {"close", "crashed"} : ingest' = [ingest EXCEPT ![i] = to]
      BY <2>5 DEF Rel!StopRemoves
    <3> QED BY <3>1 DEF RelIngests
  <2>6. ASSUME NEW i \in Ingests, Rel!StopCloses(i) PROVE Fine(j)'
    <3>1. /\ UNCHANGED carried /\ ingest[i] = "close" /\ ingest' = [ingest EXCEPT ![i] = "stopAll"]
          /\ index' = [index EXCEPT ![i] = @ + 1] /\ stopping' = [stopping EXCEPT ![i] = "none"]
      BY <2>6 DEF Rel!StopCloses
    <3> QED BY <1>2, <3>1 DEF RelIngests
  <2>7. ASSUME NEW i \in Ingests, Rel!IngestStopped(i) PROVE Fine(j)'
    BY <2>7 DEF Rel!IngestStopped, RelIngests
  <2>8. CASE UNCHANGED Rel!ingesting
    BY <2>8
  <2>9. ASSUME NEW r \in Receivers, Rel!ReceiverConnects(r) \/ Rel!ReceiverGoes(r)
            \/ Rel!HandlerStep(r) \/ Rel!Send(r)
        PROVE  UNCHANGED Rel!ingesting
    BY <2>9 DEF Rel!ReceiverConnects, Rel!ReceiverGoes, Rel!HandlerStep, Rel!Loop, Rel!Get,
       Rel!TestSelf, Rel!RemoveSelf, Rel!CloseSelf, Rel!Send
  <2>10. CASE Rel!JoinIngest \/ Rel!JoinForward
    BY <2>10 DEF Rel!JoinIngest, Rel!JoinForward
  <2> HIDE DEF Fine
  <2> QED BY <2>1, <2>2, <2>3, <2>4, <2>5, <2>6, <2>7, <2>8, <2>9, <2>10 DEF Rel!Next, Rel!IngestStep
<1>4. ASSUME NEW j \in Ingests, ingest'[j] \in {"remove", "close"}
      PROVE  \/ ingest'[j] = ingest[j] /\ stopping'[j] = stopping[j]
             \/ Rel!StopOne(j) \/ Rel!StopRemoves(j)
  <2> USE <1>4 DEF Rel!Goto, Rel!ingesting, Rel!forwarding, RelIngests
  <2>1. ASSUME NEW i \in Ingests, Rel!IngestConnects(i) \/ Rel!PacketArrives(i)
            \/ Rel!IngestEnds(i)
               \/ Rel!ForwardedAll(i) \/ Rel!StopCloses(i) \/ Rel!IngestStopped(i)
        PROVE  ingest'[j] = ingest[j] /\ stopping'[j] = stopping[j]
    BY <2>1 DEF Rel!IngestConnects, Rel!PacketArrives, Rel!IngestEnds, Rel!ForwardedAll,
       Rel!StopCloses, Rel!IngestStopped
  <2>2. ASSUME NEW i \in Ingests, Rel!ForwardOne(i)
        PROVE  ingest'[j] = ingest[j] /\ stopping'[j] = stopping[j]
    BY <2>2 DEF Rel!ForwardOne
  <2>3. ASSUME NEW i \in Ingests, i # j, Rel!StopOne(i) \/ Rel!StopRemoves(i)
        PROVE  ingest'[j] = ingest[j] /\ stopping'[j] = stopping[j]
    BY <2>3 DEF Rel!StopOne, Rel!StopRemoves
  <2>4. ASSUME NEW r \in Receivers, Rel!ReceiverConnects(r) \/ Rel!ReceiverGoes(r)
            \/ Rel!HandlerStep(r) \/ Rel!Send(r)
        PROVE  ingest'[j] = ingest[j] /\ stopping'[j] = stopping[j]
    BY <2>4 DEF Rel!ReceiverConnects, Rel!ReceiverGoes, Rel!HandlerStep, Rel!Loop, Rel!Get,
       Rel!TestSelf, Rel!RemoveSelf, Rel!CloseSelf, Rel!Send
  <2>5. CASE Rel!JoinIngest \/ Rel!JoinForward
    BY <2>5 DEF Rel!JoinIngest, Rel!JoinForward
  <2> QED BY <2>1, <2>2, <2>3, <2>4, <2>5 DEF Rel!Next, Rel!IngestStep
\* Who has connected does not connect again.
<1>5. ASSUME NEW r \in Receivers, peer[r] # "out" PROVE peer'[r] # "out"
  BY <1>5, PeerSteps
\* A handler that is being closed has left the list and does not come back.
<1>6. ASSUME NEW j \in Ingests, ingest'[j] \in {"remove", "close"}
      PROVE  peer'[stopping'[j]] # "out" /\ (ingest'[j] = "close" => ~Listed(stopping[j])')
  <2> DEFINE r == stopping[j]
  <2>1. CASE ingest'[j] = ingest[j] /\ stopping'[j] = stopping[j]
    <3>1. r \in Receivers /\ peer[r] # "out" /\ (ingest'[j] = "close" => ~Listed(r))
      BY <1>6, <2>1 DEF RelWalks
    <3>2. peer'[r] # "out"
      BY <1>5, <3>1
    <3>3. ~Rel!ReceiverConnects(r)
      BY <3>1 DEF Rel!ReceiverConnects
    <3>4. ASSUME NEW x, x = r, ingest'[j] = "close" PROVE ~Listed(x)'
      BY <3>1, <3>3, <3>4, ListedLater
    <3> QED BY <2>1, <3>2, <3>4
  <2>2. CASE Rel!StopOne(j)
    <3>1. /\ stopping'[j] = handlers[index[j]] /\ ingest'[j] = "remove" /\ UNCHANGED peer
          /\ index[j] \in 1 .. Len(handlers)
      BY <2>2 DEF Rel!StopOne, Rel!Goto, RelIngests
    <3>2. handlers[index[j]] \in Receivers /\ Listed(handlers[index[j]])
      BY <3>1 DEF RelHandlers, Listed
    <3> QED BY <3>1, <3>2 DEF RelConnected
  <2>3. CASE Rel!StopRemoves(j)
    <3>1. ingest[j] = "remove" /\ stopping'[j] = stopping[j] /\ UNCHANGED peer
      BY <2>3 DEF Rel!StopRemoves
    <3>2. ASSUME ingest'[j] = "close" PROVE Rel!Listed(r) /\ Rel!Unlist(r)
      BY <2>3, <3>2 DEF Rel!StopRemoves, Rel!Goto, RelIngests
    <3>3. ASSUME NEW x, x = r, ingest'[j] = "close" PROVE ~Listed(x)'
      BY <3>2, <3>3, UnlistIs
    <3> QED BY <3>1, <3>3 DEF RelWalks
  <2> QED BY <1>4, <1>6, <2>1, <2>2, <2>3
<1> QED
  BY <1>3, <1>6 DEF RelWalks

\* The steps of the handler of receiver r and of its peer.
HandlerOf(r) == Rel!ReceiverConnects(r) \/ Rel!ReceiverGoes(r) \/ Rel!HandlerStep(r)
          \/ Rel!Send(r)

\* What the other steps leave alone.
LEMMA OthersSteps ==
    ASSUME RelReceivers, RelQueues, RelRequests, RelIngests, Rel!Next
    PROVE  \A r \in Receivers :
             \/ HandlerOf(r)
             \/ /\ place'[r] = place[r] /\ peer'[r] = peer[r] /\ sending'[r] = sending[r]
                /\ \/ request'[r] = request[r]
                   \/ \E i \in Ingests : ingest[i] = "close" /\ stopping[i] = r
<1> SUFFICES ASSUME NEW r \in Receivers, ~HandlerOf(r)
             PROVE  /\ place'[r] = place[r] /\ peer'[r] = peer[r] /\ sending'[r] = sending[r]
                    /\ \/ request'[r] = request[r]
                       \/ \E i \in Ingests : ingest[i] = "close" /\ stopping[i] = r
  OBVIOUS
<1> DEFINE Same == /\ place'[r] = place[r] /\ peer'[r] = peer[r] /\ sending'[r] = sending[r]
                   /\ request'[r] = request[r]
<1> USE DEF RelReceivers, RelQueues, RelRequests, Rel!ingesting, Rel!forwarding, Rel!Move
<1>1. ASSUME NEW x \in Receivers, x # r, Rel!ReceiverConnects(x)
          \/ Rel!ReceiverGoes(x) \/ Rel!Send(x) PROVE Same
  BY <1>1 DEF Rel!ReceiverConnects, Rel!ReceiverGoes, Rel!Send
<1>2. ASSUME NEW x \in Receivers, x # r, Rel!HandlerStep(x) PROVE Same
  BY <1>2 DEF Rel!HandlerStep, Rel!Loop, Rel!Get, Rel!TestSelf, Rel!RemoveSelf,
      Rel!CloseSelf
<1>3. ASSUME NEW i \in Ingests, Rel!StopCloses(i)
      PROVE  /\ place'[r] = place[r] /\ peer'[r] = peer[r] /\ sending'[r] = sending[r]
             /\ request'[r] = request[r] \/ (ingest[i] = "close" /\ stopping[i] = r)
  BY <1>3 DEF Rel!StopCloses
<1>4. ASSUME NEW i \in Ingests, Rel!IngestConnects(i) \/ Rel!PacketArrives(i)
          \/ Rel!IngestEnds(i)
             \/ Rel!ForwardOne(i) \/ Rel!ForwardedAll(i) \/ Rel!StopOne(i)
                       \/ Rel!StopRemoves(i) \/ Rel!IngestStopped(i)
      PROVE  Same
  BY <1>4 DEF Rel!IngestConnects, Rel!PacketArrives, Rel!IngestEnds, Rel!ForwardOne,
     Rel!ForwardedAll, Rel!StopOne, Rel!StopRemoves, Rel!IngestStopped
<1>5. CASE Rel!JoinIngest \/ Rel!JoinForward
  BY <1>5 DEF Rel!JoinIngest, Rel!JoinForward
<1> QED BY <1>1, <1>2, <1>3, <1>4, <1>5 DEF Rel!Next, Rel!IngestStep, HandlerOf

LEMMA RelConnectedStep ==
    ASSUME RelReceivers, RelQueues, RelRequests, RelIngests, RelHandlers, RelWalks, RelConnected,
           Rel!Next
    PROVE  RelConnected'
<1> SUFFICES ASSUME NEW r \in Receivers
             PROVE  /\ Listed(r)' => request'[r] /\ peer'[r] # "out"
                    /\ place'[r] = "close" => ~Listed(r)'
                    /\ peer'[r] = "out" => place'[r] = "out"
                    /\ place'[r] = "send" <=> sending'[r] # 0
  BY DEF RelConnected
<1>1. /\ Listed(r) => request[r] /\ peer[r] # "out"
      /\ place[r] = "close" => ~Listed(r)
      /\ peer[r] = "out" => place[r] = "out"
      /\ place[r] = "send" <=> sending[r] # 0
  BY DEF RelConnected
<1>2. Listed(r)' => Listed(r) \/ Rel!ReceiverConnects(r)
  BY ListedLater
<1>3. /\ request \in [Receivers -> BOOLEAN] /\ sending \in [Receivers -> 0 .. MaxPackets]
      /\ place[r] \in {"out", "loop", "get", "send", "test", "remove", "close", "ended"}
      /\ DOMAIN place = Receivers /\ DOMAIN peer = Receivers
      /\ queue[r] \in Seq(1 .. MaxPackets)
  BY DEF RelReceivers, RelQueues, RelRequests
<1> USE DEF Rel!ingesting, Rel!forwarding, Rel!Move
<1>4. CASE ~HandlerOf(r)
  <2>1. /\ place'[r] = place[r] /\ peer'[r] = peer[r] /\ sending'[r] = sending[r]
        /\ \/ request'[r] = request[r]
           \/ \E i \in Ingests : ingest[i] = "close" /\ stopping[i] = r
    BY <1>4, OthersSteps
  <2>2. Listed(r)' => Listed(r)
    BY <1>2, <1>4 DEF HandlerOf
  <2>3. Listed(r) => request'[r] = request[r]
    BY <2>1 DEF RelWalks
  <2> QED BY <1>1, <2>1, <2>2, <2>3
<1>5. CASE Rel!ReceiverConnects(r)
  BY <1>1, <1>3, <1>5 DEF Rel!ReceiverConnects
<1>6. CASE Rel!ReceiverGoes(r)
  <2>1. Listed(r)' <=> Listed(r)
    BY <1>6 DEF Rel!ReceiverGoes, Listed
  <2> QED BY <1>1, <1>3, <1>6, <2>1 DEF Rel!ReceiverGoes
<1>7. CASE Rel!Loop(r) \/ Rel!TestSelf(r)
  <2>1. Listed(r)' <=> Listed(r)
    BY <1>7 DEF Rel!Loop, Rel!TestSelf, Listed
  <2> QED BY <1>1, <1>3, <1>7, <2>1, ListedIs DEF Rel!Loop, Rel!TestSelf
<1>8. CASE Rel!Get(r)
  <2>1. Listed(r)' <=> Listed(r)
    BY <1>8 DEF Rel!Get, Listed
  <2>2. queue[r] # <<>> => Head(queue[r]) \in 1 .. MaxPackets
    BY <1>3, TailOf
  <2>3. queue[r] # <<>> => Head(queue[r]) # 0
    BY <2>2
  <2> QED BY <1>1, <1>3, <1>8, <2>1, <2>3 DEF Rel!Get
<1>9. CASE Rel!Send(r)
  <2>1. Listed(r)' <=> Listed(r)
    BY <1>9 DEF Rel!Send, Listed
  <2> QED BY <1>1, <1>3, <1>9, <2>1 DEF Rel!Send
<1>10. CASE Rel!RemoveSelf(r)
  <2>1. CASE Rel!Listed(r) /\ Rel!Unlist(r)
    <3>1. ~Listed(r)'
      BY <2>1, UnlistIs
    <3> QED BY <1>1, <1>3, <1>10, <3>1 DEF Rel!RemoveSelf
  <2>2. CASE ~Rel!Listed(r) /\ UNCHANGED handlers /\ place'[r] = "ended"
    <3>1. ~Listed(r)'
      BY <2>2, ListedIs DEF Listed
    <3> QED BY <1>1, <1>3, <1>10, <2>2, <3>1 DEF Rel!RemoveSelf
  <2> QED BY <1>3, <1>10, <2>1, <2>2 DEF Rel!RemoveSelf
<1>11. CASE Rel!CloseSelf(r)
  <2>1. ~Listed(r)'
    BY <1>1, <1>11 DEF Rel!CloseSelf, Listed
  <2> QED BY <1>1, <1>3, <1>11, <2>1 DEF Rel!CloseSelf
<1> QED BY <1>4, <1>5, <1>6, <1>7, <1>8, <1>9, <1>10, <1>11 DEF HandlerOf, Rel!HandlerStep

-----------------------------------------------------------------------------
(* What a receiver misses                                                  *)

LEMMA SkippedFinite ==
    ASSUME RelIngests, NEW r
    PROVE  IsFiniteSet(Skipped(r)) /\ Cardinality(Skipped(r)) \in Nat
<1>1. packets \in Int /\ 1 \in Int
  BY RelConstants DEF RelIngests
<1>2. IsFiniteSet(1 .. packets)
  BY <1>1, FS_Interval
<1>3. Skipped(r) \in SUBSET (1 .. packets)
  BY DEF Skipped, Gap
<1>4. IsFiniteSet(Skipped(r))
  BY <1>2, <1>3, FS_Subset
<1> QED BY <1>4, FS_CardinalityType

CostOf(r) == Cardinality(Skipped(r)) <= Cardinality(Ingests) * removals

LEMMA CostStays ==
    ASSUME RelIngests, NEW r, CostOf(r), removals \in Nat,
           Skipped(r)' \subseteq Skipped(r), removals' = removals
    PROVE  CostOf(r)'
<1> DEFINE S == Skipped(r)  T == Skipped(r)'
<1>1. IsFiniteSet(S) /\ Cardinality(S) \in Nat
  BY SkippedFinite
<1> HIDE DEF S, T
<1>2. IsFiniteSet(T) /\ Cardinality(T) <= Cardinality(S)
  <2>1. T \in SUBSET S
    BY DEF S, T
  <2> QED BY <1>1, <2>1, FS_Subset
<1>3. Cardinality(T) \in Nat /\ Cardinality(Ingests) * removals \in Nat
  BY <1>2, FS_CardinalityType, RelConstants
<1>4. Cardinality(S) <= Cardinality(Ingests) * removals
  BY DEF S, CostOf
<1>5. Cardinality(T) <= Cardinality(Ingests) * removals
  BY <1>1, <1>2, <1>3, <1>4
<1> QED BY <1>5 DEF T, CostOf

\* Removing a handler costs a receiver no more than what is being forwarded.
LEMMA CostGrows ==
    ASSUME RelIngests, NEW r, CostOf(r), removals \in Nat,
           Skipped(r)' \subseteq Skipped(r) \cup {carried[i] : i \in Ingests},
           removals' = removals + 1
    PROVE  CostOf(r)'
<1> DEFINE S == Skipped(r)  T == Skipped(r)'  C == {carried[i] : i \in Ingests}
<1>1. IsFiniteSet(S) /\ Cardinality(S) \in Nat
  BY SkippedFinite
<1>2. IsFiniteSet(C) /\ Cardinality(C) <= Cardinality(Ingests)
  BY RelConstants, ImageBound
<1> HIDE DEF S, T, C
<1>3. IsFiniteSet(S \cap C)
  <2>1. S \cap C \in SUBSET S
    OBVIOUS
  <2> QED BY <1>1, <2>1, FS_Subset
<1>4. /\ IsFiniteSet(S \cup C)
      /\ Cardinality(S \cup C) = Cardinality(S) + Cardinality(C) - Cardinality(S \cap C)
  BY <1>1, <1>2, FS_Union
<1>5. IsFiniteSet(T) /\ Cardinality(T) <= Cardinality(S \cup C)
  <2>1. T \in SUBSET (S \cup C)
    BY DEF S, T, C
  <2> QED BY <1>4, <2>1, FS_Subset
<1>6. /\ Cardinality(T) \in Nat /\ Cardinality(C) \in Nat
      /\ Cardinality(S \cap C) \in Nat /\ Cardinality(S \cup C) \in Nat
  BY <1>2, <1>3, <1>4, <1>5, FS_CardinalityType
<1>7. /\ Cardinality(Ingests) * removals \in Nat
      /\ Cardinality(Ingests) * (removals + 1) = Cardinality(Ingests) * removals + Cardinality(Ingests)
  BY RelConstants
<1>8. Cardinality(S) <= Cardinality(Ingests) * removals
  BY DEF S, CostOf
<1>9. Cardinality(T) <= Cardinality(Ingests) * removals + Cardinality(Ingests)
  BY <1>1, <1>2, <1>4, <1>5, <1>6, <1>7, <1>8, RelConstants
<1> QED BY <1>7, <1>9 DEF T, CostOf

\* As long as the list keeps its handlers, what is ahead of a receiver comes.
LEMMA SkipsLess ==
    ASSUME NEW r,
           \A p \in Gap(r)' :
             /\ p \in Gap(r) \/ \E i \in Ingests : Ahead(i, p, r)'
             /\ \A i \in Ingests : Ahead(i, p, r) => Ahead(i, p, r)'
    PROVE  Skipped(r)' \subseteq Skipped(r)
<1> SUFFICES ASSUME NEW p \in Skipped(r)' PROVE p \in Skipped(r)
  OBVIOUS
<1>1. p \in Gap(r)' /\ \A i \in Ingests : ~Ahead(i, p, r)'
  BY DEF Skipped
<1> QED BY <1>1 DEF Skipped

LEMMA GapSame ==
    ASSUME NEW r, packets' = packets, settled'[r] = settled[r], queue'[r] = queue[r],
           sending'[r] = sending[r]
    PROVE  Gap(r)' = Gap(r)
BY DEF Gap, Items

\* The steps of the ingest handlers.
LEMMA IngestCost ==
    ASSUME RelIngests, RelHandlers, RelReceivers, RelQueues, RelWalks, RelConnected,
           NEW r \in Receivers, Listed(r), NEW i \in Ingests,
           \/ Rel!IngestConnects(i) \/ Rel!PacketArrives(i) \/ Rel!IngestEnds(i)
           \/ Rel!ForwardOne(i) \/ Rel!ForwardedAll(i) \/ Rel!StopOne(i)
           \/ Rel!StopCloses(i) \/ Rel!IngestStopped(i)
    PROVE  Skipped(r)' \subseteq Skipped(r)
<1> USE DEF Rel!Goto, Rel!ingesting, Rel!forwarding
<1>1. CASE Rel!IngestConnects(i) \/ Rel!IngestEnds(i) \/ Rel!StopOne(i)
          \/ Rel!StopCloses(i) \/ Rel!IngestStopped(i)
  <2>1. UNCHANGED <<packets, settled, queue, sending, handlers, carried>>
    BY <1>1 DEF Rel!IngestConnects, Rel!IngestEnds, Rel!StopOne, Rel!StopCloses,
        Rel!IngestStopped
  <2>2. /\ ingest[i] # "forward"
        /\ \A j \in Ingests \ {i} : ingest'[j] = ingest[j] /\ index'[j] = index[j]
    BY <1>1 DEF Rel!IngestConnects, Rel!IngestEnds, Rel!StopOne, Rel!StopCloses,
        Rel!IngestStopped, RelIngests
  <2>3. ASSUME NEW p, NEW j \in Ingests, Ahead(j, p, r) PROVE Ahead(j, p, r)'
    BY <2>1, <2>2, <2>3 DEF Ahead
  <2> QED BY <2>1, <2>3, GapSame, SkipsLess
<1>2. CASE Rel!PacketArrives(i)
  <2>1. /\ UNCHANGED <<settled, queue, sending, handlers, index>> /\ packets' = packets + 1
        /\ ingest[i] = "receive" /\ ingest' = [ingest EXCEPT ![i] = "forward"]
        /\ carried' = [carried EXCEPT ![i] = packets + 1]
    BY <1>2 DEF Rel!PacketArrives
  <2>2. ASSUME NEW p, NEW j \in Ingests, Ahead(j, p, r) PROVE Ahead(j, p, r)'
    <3>1. j # i
      BY <2>1, <2>2 DEF Ahead
    <3> QED BY <2>1, <2>2, <3>1 DEF Ahead, RelIngests
  <2>3. ASSUME NEW p, p = packets + 1 PROVE Ahead(i, p, r)'
    <3>1. PICK k \in 1 .. Len(handlers) : handlers[k] = r
      BY DEF Listed
    <3>2. index'[i] <= k
      BY <2>1 DEF RelWalks
    <3>3. ingest'[i] = "forward" /\ carried'[i] = p
      BY <2>1, <2>3 DEF RelIngests
    <3> QED BY <2>1, <3>1, <3>2, <3>3 DEF Ahead
  <2>4. ASSUME NEW p \in Gap(r)' PROVE p \in Gap(r) \/ p = packets + 1
    <3>1. packets \in Nat
      BY RelConstants DEF RelIngests
    <3> QED BY <2>1, <3>1 DEF Gap, Items
  <2> QED BY <2>2, <2>3, <2>4, SkipsLess
<1>3. CASE Rel!ForwardOne(i)
  <2> DEFINE h == handlers[index[i]]
  <2>1. /\ UNCHANGED <<packets, ingest, carried, sending, handlers>>
        /\ index[i] \in 1 .. Len(handlers)
        /\ index' = [index EXCEPT ![i] = @ + 1]
    BY <1>3 DEF Rel!ForwardOne, RelIngests
  <2>2. \/ queue' = queue /\ settled' = [settled EXCEPT ![h] = @ \cup {carried[i]}]
        \/ queue' = [queue EXCEPT ![h] = Append(@, carried[i])] /\ settled' = settled
    BY <1>3 DEF Rel!ForwardOne
  <2>3. h \in Receivers /\ carried[i] \in 1 .. MaxPackets
    BY <1>3, <2>1, RelConstants DEF RelHandlers, RelIngests, RelWalks, Rel!ForwardOne
  <2> HIDE DEF h
  <2>4. queue[h] \in Seq(1 .. MaxPackets)
    BY <2>3 DEF RelQueues
  <2>5. Items(Append(queue[h], carried[i])) = Items(queue[h]) \cup {carried[i]}
    <3>1. \A q \in Seq(1 .. MaxPackets), v \in 1 .. MaxPackets : Items(Append(q, v)) = Items(q) \cup {v}
      BY ItemsAfterAppend
    <3> QED BY <2>3, <2>4, <3>1
  <2>6. DOMAIN queue = Receivers /\ DOMAIN settled = Receivers
    BY DEF RelQueues, RelReceivers
  <2>7. Gap(r)' \subseteq Gap(r) /\ (r = h => carried[i] \notin Gap(r)')
    <3>1. CASE r # h
      <4>1. queue'[r] = queue[r] /\ settled'[r] = settled[r] /\ sending'[r] = sending[r]
        BY <2>1, <2>2, <2>6, <3>1
      <4> QED BY <2>1, <3>1, <4>1, GapSame
    <3>2. CASE r = h
      <4>1. \/ queue'[r] = queue[r] /\ settled'[r] = settled[r] \cup {carried[i]}
            \/ queue'[r] = Append(queue[r], carried[i]) /\ settled'[r] = settled[r]
        BY <2>2, <2>6, <3>2
      <4>2. Gap(r)' = (1 .. packets) \ (settled'[r] \cup Items(queue'[r]) \cup {sending[r]})
        BY <2>1 DEF Gap, Items
      <4> QED BY <2>5, <3>2, <4>1, <4>2 DEF Gap
    <3> QED BY <3>1, <3>2
  <2>8. ASSUME NEW p \in Gap(r)', NEW j \in Ingests, Ahead(j, p, r) PROVE Ahead(j, p, r)'
    <3>1. PICK k \in 1 .. Len(handlers) : handlers[k] = r /\ index[j] <= k
      BY <2>8 DEF Ahead
    <3>2. index'[j] <= k
      <4>1. CASE j # i
        BY <2>1, <3>1, <4>1 DEF RelIngests
      <4>2. CASE j = i
        <5>1. carried[i] = p
          BY <2>8, <4>2 DEF Ahead
        <5>2. k # index[i]
          BY <2>7, <3>1, <5>1 DEF h
        <5>3. index'[i] = index[i] + 1 /\ index[i] \in Nat
          BY <2>1 DEF RelIngests
        <5> QED BY <3>1, <4>2, <5>2, <5>3
      <4> QED BY <4>1, <4>2
    <3> QED BY <2>1, <2>8, <3>1, <3>2 DEF Ahead
  <2> QED BY <2>7, <2>8, SkipsLess
<1>4. CASE Rel!ForwardedAll(i)
  <2>1. /\ UNCHANGED <<packets, settled, queue, sending, handlers>> /\ index[i] > Len(handlers)
        /\ carried' = [carried EXCEPT ![i] = 0] /\ index' = [index EXCEPT ![i] = 1]
        /\ ingest' = [ingest EXCEPT ![i] = "receive"]
    BY <1>4 DEF Rel!ForwardedAll
  <2>2. ASSUME NEW p, NEW j \in Ingests, Ahead(j, p, r) PROVE Ahead(j, p, r)'
    <3>1. j # i
      <4>1. ASSUME NEW k \in 1 .. Len(handlers) PROVE ~(index[i] <= k)
        BY <2>1 DEF RelIngests, RelHandlers
      <4> QED BY <2>2, <4>1 DEF Ahead
    <3> QED BY <2>1, <2>2, <3>1 DEF Ahead, RelIngests
  <2> QED BY <2>1, <2>2, GapSame, SkipsLess
<1> QED BY <1>1, <1>2, <1>3, <1>4

\* The steps of the handlers of the receivers, and of the main thread.
LEMMA ReceiverCost ==
    ASSUME RelIngests, RelHandlers, RelReceivers, RelQueues, RelRequests, RelConnected,
           NEW r \in Receivers, Listed(r), peer'[r] = "in", NEW x \in Receivers,
           \/ Rel!ReceiverConnects(x) \/ Rel!ReceiverGoes(x) \/ Rel!Loop(x) \/ Rel!Get(x)
           \/ Rel!TestSelf(x) \/ Rel!CloseSelf(x) \/ Rel!Send(x)
    PROVE  Skipped(r)' \subseteq Skipped(r)
<1> USE DEF Rel!Move, Rel!ingesting, Rel!forwarding
<1>0. /\ DOMAIN settled = Receivers /\ DOMAIN queue = Receivers
      /\ DOMAIN sending = Receivers /\ DOMAIN peer = Receivers
  BY DEF RelReceivers, RelQueues
<1>1. UNCHANGED <<packets, ingest, carried, index>>
  BY DEF Rel!ReceiverConnects, Rel!ReceiverGoes, Rel!Loop, Rel!Get, Rel!TestSelf,
      Rel!CloseSelf, Rel!Send
<1>2. ASSUME NEW p, NEW j \in Ingests, Ahead(j, p, r) PROVE Ahead(j, p, r)'
  <2>1. PICK k \in 1 .. Len(handlers) : handlers[k] = r /\ index[j] <= k
    BY <1>2 DEF Ahead
  <2>2. CASE handlers' = handlers
    BY <1>1, <1>2, <2>2 DEF Ahead
  <2>3. CASE handlers' = Append(handlers, x)
    <3>1. k \in 1 .. Len(handlers') /\ handlers'[k] = r
      BY <2>1, <2>3, AppendTo DEF RelHandlers
    <3> QED BY <1>1, <1>2, <2>1, <3>1 DEF Ahead
  <2> QED
    BY <2>2, <2>3 DEF Rel!ReceiverConnects, Rel!ReceiverGoes, Rel!Loop, Rel!Get,
        Rel!TestSelf,
       Rel!CloseSelf, Rel!Send
<1>3. Gap(r)' = Gap(r)
  <2>1. CASE r # x
    <3>1. settled'[r] = settled[r] /\ queue'[r] = queue[r] /\ sending'[r] = sending[r]
      BY <1>0, <2>1 DEF Rel!ReceiverConnects, Rel!ReceiverGoes, Rel!Loop, Rel!Get,
          Rel!TestSelf,
         Rel!CloseSelf, Rel!Send
    <3> QED BY <1>1, <3>1, GapSame
  <2>2. CASE Rel!ReceiverGoes(x) \/ Rel!Loop(x) \/ Rel!TestSelf(x) \/ Rel!CloseSelf(x)
    <3>1. settled'[r] = settled[r] /\ queue'[r] = queue[r] /\ sending'[r] = sending[r]
      BY <2>2 DEF Rel!ReceiverGoes, Rel!Loop, Rel!TestSelf, Rel!CloseSelf
    <3> QED BY <1>1, <3>1, GapSame
  <2>3. CASE r = x /\ Rel!ReceiverConnects(x)
    BY <2>3 DEF Rel!ReceiverConnects, RelConnected
  <2>4. CASE r = x /\ Rel!Get(x)
    <3>1. settled'[r] = settled[r] /\ sending[r] = 0
      BY <1>0, <2>4 DEF Rel!Get, RelConnected
    <3>2. CASE queue[r] = <<>>
      <4>1. UNCHANGED <<queue, sending>>
        BY <2>4, <3>2 DEF Rel!Get
      <4> QED BY <1>1, <3>1, <4>1, GapSame
    <3>3. CASE queue[r] # <<>>
      <4>1. queue'[r] = Tail(queue[r]) /\ sending'[r] = Head(queue[r])
        BY <1>0, <2>4, <3>3 DEF Rel!Get
      <4>2. queue[r] \in Seq(1 .. MaxPackets)
        BY DEF RelQueues
      <4>3. Items(queue[r]) = {Head(queue[r])} \cup Items(Tail(queue[r]))
        BY <3>3, <4>2, ItemsAfterTail
      <4>4. Gap(r)' = (1 .. packets) \ (settled[r] \cup Items(queue'[r]) \cup {sending'[r]})
        BY <1>1, <3>1 DEF Gap, Items
      <4>5. 0 \notin 1 .. packets
        OBVIOUS
      <4> QED BY <3>1, <4>1, <4>3, <4>4, <4>5 DEF Gap
    <3> QED BY <3>2, <3>3
  <2>5. CASE r = x /\ Rel!Send(x)
    <3>1. request[r] /\ peer[r] = "in"
      BY <2>5 DEF Rel!Send, RelConnected
    <3>2. settled'[r] = settled[r] \cup {sending[r]} /\ queue' = queue /\ sending'[r] = 0
      BY <1>0, <2>5, <3>1 DEF Rel!Send
    <3>3. Gap(r)' = (1 .. packets) \ (settled'[r] \cup Items(queue[r]) \cup {sending'[r]})
      BY <1>1, <3>2 DEF Gap, Items
    <3>4. 0 \notin 1 .. packets
      OBVIOUS
    <3> QED BY <3>2, <3>3, <3>4 DEF Gap
  <2> QED BY <2>1, <2>2, <2>3, <2>4, <2>5
<1> QED BY <1>2, <1>3, SkipsLess

LEMMA RelCostStep ==
    ASSUME RelIngests, RelHandlers, RelReceivers, RelQueues, RelRequests, RelWalks,
           RelConnected, RelCost, Rel!Next
    PROVE  RelCost'
<1> SUFFICES ASSUME NEW r \in Receivers, Listed(r)', peer'[r] = "in"
             PROVE  CostOf(r)'
  BY DEF RelCost, CostOf
<1>0. removals \in Nat
  BY DEF RelHandlers
<1>1. CASE Listed(r)
  <2>1. peer[r] = "in"
    <3>1. peer[r] # "out"
      BY <1>1 DEF RelConnected
    <3>2. peer[r] # "gone"
      <4>1. CASE ~HandlerOf(r)
        BY <4>1, OthersSteps
      <4>2. CASE HandlerOf(r)
        BY <4>2 DEF HandlerOf, Rel!ReceiverConnects, Rel!ReceiverGoes, Rel!HandlerStep,
            Rel!Loop,
           Rel!Get, Rel!TestSelf, Rel!RemoveSelf, Rel!CloseSelf, Rel!Send, Rel!forwarding
      <4> QED BY <4>1, <4>2
    <3> QED BY <3>1, <3>2 DEF RelReceivers
  <2>2. CostOf(r)
    BY <1>1, <2>1 DEF RelCost, CostOf
  <2>3. ASSUME Skipped(r)' \subseteq Skipped(r), removals' = removals PROVE CostOf(r)'
    BY <1>0, <2>2, <2>3, CostStays
  <2>4. ASSUME NEW i \in Ingests,
               \/ Rel!IngestConnects(i) \/ Rel!PacketArrives(i) \/ Rel!IngestEnds(i)
               \/ Rel!ForwardOne(i) \/ Rel!ForwardedAll(i) \/ Rel!StopOne(i)
               \/ Rel!StopCloses(i) \/ Rel!IngestStopped(i)
        PROVE  CostOf(r)'
    <3>1. removals' = removals
      BY <2>4 DEF Rel!IngestConnects, Rel!PacketArrives, Rel!IngestEnds, Rel!ForwardOne,
         Rel!ForwardedAll, Rel!StopOne, Rel!StopCloses, Rel!IngestStopped
    <3> QED BY <1>1, <2>3, <2>4, <3>1, IngestCost
  <2>5. ASSUME NEW x \in Receivers,
               \/ Rel!ReceiverConnects(x) \/ Rel!ReceiverGoes(x) \/ Rel!Loop(x)
                         \/ Rel!Get(x)
               \/ Rel!TestSelf(x) \/ Rel!CloseSelf(x) \/ Rel!Send(x)
        PROVE  CostOf(r)'
    <3>1. removals' = removals
      BY <2>5 DEF Rel!ReceiverConnects, Rel!ReceiverGoes, Rel!Loop, Rel!Get, Rel!TestSelf,
         Rel!CloseSelf, Rel!Send
    <3> QED BY <1>1, <2>3, <2>5, <3>1, ReceiverCost
  \* A handler is removed: Gap stays, and what it gains was being carried.
  <2>6. ASSUME UNCHANGED <<packets, carried, settled, queue, sending>>,
               NEW y, Rel!Listed(y), Rel!Unlist(y)
        PROVE  CostOf(r)'
    <3>1. removals' = removals + 1
      BY <2>6, UnlistIs
    <3>2. Gap(r)' = Gap(r)
      BY <2>6, GapSame
    <3>3. Skipped(r)' \subseteq Skipped(r) \cup {carried[i] : i \in Ingests}
      BY <3>2 DEF Skipped, Ahead
    <3> QED BY <1>0, <2>2, <3>1, <3>3, CostGrows
  <2>7. ASSUME UNCHANGED <<packets, carried, index, settled, queue, sending, handlers, removals>>,
               \A j \in Ingests : ingest[j] = "forward" => ingest'[j] = "forward"
        PROVE  CostOf(r)'
    <3>1. Gap(r)' = Gap(r)
      BY <2>7, GapSame
    <3>2. \A p : \A j \in Ingests : Ahead(j, p, r) => Ahead(j, p, r)'
      BY <2>7 DEF Ahead
    <3>3. Skipped(r)' \subseteq Skipped(r)
      BY <3>1, <3>2, SkipsLess
    <3> QED BY <2>3, <2>7, <3>3
  <2>8. ASSUME NEW i \in Ingests, Rel!StopRemoves(i) PROVE CostOf(r)'
    <3>1. /\ UNCHANGED <<packets, carried, index, settled, queue, sending>>
          /\ \A j \in Ingests : ingest[j] = "forward" => ingest'[j] = "forward"
      BY <2>8 DEF Rel!StopRemoves, Rel!Goto, Rel!forwarding, RelIngests
    <3>2. \/ Rel!Listed(stopping[i]) /\ Rel!Unlist(stopping[i])
          \/ UNCHANGED <<handlers, removals>>
      BY <2>8 DEF Rel!StopRemoves
    <3> QED BY <2>6, <2>7, <3>1, <3>2
  <2>9. ASSUME NEW x \in Receivers, Rel!RemoveSelf(x) PROVE CostOf(r)'
    <3>1. UNCHANGED <<packets, ingest, carried, index, settled, queue, sending>>
      BY <2>9 DEF Rel!RemoveSelf, Rel!ingesting
    <3>2. \/ Rel!Listed(x) /\ Rel!Unlist(x)
          \/ UNCHANGED <<handlers, removals>>
      BY <2>9 DEF Rel!RemoveSelf
    <3> QED BY <2>6, <2>7, <3>1, <3>2
  <2>10. CASE Rel!JoinIngest \/ Rel!JoinForward
    BY <2>7, <2>10 DEF Rel!JoinIngest, Rel!JoinForward, Rel!ingesting, Rel!forwarding
  <2> QED
    BY <2>4, <2>5, <2>8, <2>9, <2>10 DEF Rel!Next, Rel!IngestStep, Rel!HandlerStep
<1>2. CASE ~Listed(r)
  <2>1. Rel!ReceiverConnects(r)
    BY <1>2, ListedLater
  <2>2. settled'[r] = 1 .. packets /\ packets' = packets /\ removals' = removals
    BY <2>1 DEF Rel!ReceiverConnects, Rel!ingesting, RelReceivers
  <2>3. Skipped(r)' = {}
    BY <2>2 DEF Skipped, Gap
  <2>4. Cardinality({}) = 0 /\ Cardinality(Ingests) * removals \in Nat
    BY <1>0, FS_EmptySet, RelConstants
  <2> QED BY <2>2, <2>3, <2>4 DEF CostOf
<1> QED BY <1>1, <1>2

LEMMA RelStep ==
    ASSUME RelInv, [Next]_vars
    PROVE  RelInv'
<1>1. CASE Rel!Next
  <2>1. RelIngests' /\ RelHandlers' /\ RelReceivers' /\ RelRequests' /\ RelQueues'
    BY <1>1, RelIngestsStep, RelHandlersStep, RelReceiversStep, RelRequestsStep,
        RelQueuesStep DEF RelInv
  <2>2. RelWalks' /\ RelConnected' /\ RelCost'
    BY <1>1, RelWalksStep, RelConnectedStep, RelCostStep DEF RelInv
  <2> QED BY <2>1, <2>2 DEF RelInv
<1>2. CASE UNCHANGED relaying
  <2>1. /\ UNCHANGED <<packets, ingest, carried, index, stopping, handlers, place, request>>
        /\ UNCHANGED <<queue, sending, peer, settled, removals>>
    BY <1>2 DEF relaying
  <2>2. RelIngests' /\ RelHandlers' /\ RelReceivers' /\ RelRequests' /\ RelQueues'
    BY <2>1 DEF RelInv, RelIngests, RelHandlers, RelReceivers, RelRequests, RelQueues
  <2>3. RelWalks' /\ RelConnected'
    BY <2>1 DEF RelInv, RelWalks, RelConnected, Listed
  <2>4. RelCost'
    BY <2>1 DEF RelInv, RelCost, Listed, Skipped, Gap, Ahead, Items
  <2> QED BY <2>2, <2>3, <2>4 DEF RelInv
<1> QED BY <1>1, <1>2 DEF Next, RunsProxy, RunsForwarder, RunsRelay, vars

LEMMA RelInvariant == Spec => []RelInv
<1>1. Init => RelInv
  BY RelStart DEF Init
<1>2. RelInv /\ [Next]_vars => RelInv'
  BY RelStep
<1> QED BY <1>1, <1>2, PTL DEF Spec

\* For any number of connections and any length of the queues, a receiver that
\* stays misses, but for its own full queue, at most one packet for each pair of
\* an ingest connection and a handler that was removed from the list, and those
\* that are just being forwarded.
THEOREM RelayCostsLittle == Spec => []OthersCostLittle
<1>1. RelInv => OthersCostLittle
  <2> SUFFICES ASSUME RelInv, NEW r \in Receivers, Listed(r), peer[r] = "in"
               PROVE  Cardinality(Rel!Missed(r)) <=
                        Cardinality(Ingests) * removals
                        + Cardinality({i \in Ingests : ingest[i] = "forward"})
    BY ListedIs, SameCardinality DEF OthersCostLittle, Rel!OthersCostLittle
  <2> DEFINE F == {i \in Ingests : ingest[i] = "forward"}
             C == {carried[i] : i \in F}
  <2>1. IsFiniteSet(F) /\ Cardinality(F) \in Nat
    BY RelConstants, FS_Subset, FS_CardinalityType
  <2>2. IsFiniteSet(C) /\ Cardinality(C) <= Cardinality(F)
    BY <2>1, ImageBound
  <2>3. Rel!Missed(r) = Gap(r)
    BY DEF Rel!Missed, Rel!ToSet, Gap, Items, RelInv, RelQueues
  <2>4. Gap(r) \in SUBSET (Skipped(r) \cup C)
    BY DEF Skipped, Ahead
  <2> HIDE DEF F, C
  <2>5. IsFiniteSet(Skipped(r)) /\ Cardinality(Skipped(r)) \in Nat
    BY SkippedFinite DEF RelInv
  <2>6. /\ IsFiniteSet(Skipped(r) \cup C) /\ IsFiniteSet(Skipped(r) \cap C)
        /\ Cardinality(Skipped(r) \cup C) =
             Cardinality(Skipped(r)) + Cardinality(C) - Cardinality(Skipped(r) \cap C)
    <3>1. Skipped(r) \cap C \in SUBSET Skipped(r)
      OBVIOUS
    <3> QED BY <2>2, <2>5, <3>1, FS_Subset, FS_Union
  <2>7. IsFiniteSet(Gap(r)) /\ Cardinality(Gap(r)) <= Cardinality(Skipped(r) \cup C)
    BY <2>4, <2>6, FS_Subset
  <2>8. /\ Cardinality(Gap(r)) \in Nat /\ Cardinality(C) \in Nat
        /\ Cardinality(Skipped(r) \cap C) \in Nat
    BY <2>2, <2>6, <2>7, FS_CardinalityType
  <2>9. Cardinality(Skipped(r)) <= Cardinality(Ingests) * removals
    BY DEF RelInv, RelCost
  <2>10. Cardinality(Ingests) * removals \in Nat
    BY RelConstants DEF RelInv, RelHandlers
  <2>11. Cardinality(Gap(r)) <= Cardinality(Ingests) * removals + Cardinality(F)
    BY <2>1, <2>2, <2>5, <2>6, <2>7, <2>8, <2>9, <2>10
  <2> QED BY <2>3, <2>11 DEF F
<1> QED BY <1>1, RelInvariant, PTL

-----------------------------------------------------------------------------
\* The variables of the three programs have their types; in particular, no
\* queue outgrows its bound and no relay handler is in the list twice.
THEOREM NetworkTypes == Spec => []TypeOK
<1>1. ProxyInv => Proxy!TypeOK
  BY ProxyTypes DEF ProxyInv
<1>2. FwdInv => Fwd!TypeOK
  <2> SUFFICES ASSUME FwdInv PROVE Fwd!TypeOK
    OBVIOUS
  <2>1. /\ FwdFlags /\ grabbed \in 0 .. Fwd!MaxGrabbed /\ Fwd!MaxGrabbed \in Nat
        /\ Len(inq) <= InSize /\ Len(outq) <= OutSize
        /\ conns \subseteq Clients /\ client \in [Clients -> {"out", "in", "gone"}]
    BY FwdConstants DEF FwdInv, FwdBounds, FwdClients
  <2>2. 0 .. Fwd!Fed \subseteq 0 .. Fwd!MaxGrabbed
    BY <2>1 DEF Fwd!Fed, FwdInv, FwdPhases
  <2>3. /\ Parts(netWork, outq, encWork, inq) \subseteq 0 .. Fwd!MaxGrabbed
        /\ got \in [Clients -> 0 .. Fwd!MaxGrabbed]
    BY <2>2 DEF FwdInv, FwdOrder, Chain
  <2>4. /\ Fwd!Places(inq) = Items(inq) /\ Fwd!Places(outq) = Items(outq)
    BY DEF Fwd!Places, Items
  <2>5. /\ Fwd!Places(inq) \cup Fwd!Places(outq) \subseteq 0 .. Fwd!MaxGrabbed
        /\ encWork \in 0 .. Fwd!MaxGrabbed /\ netWork \in 0 .. Fwd!MaxGrabbed
    BY <2>3, <2>4 DEF Parts
  <2> QED BY <2>1, <2>3, <2>5, Zenon DEF Fwd!TypeOK, FwdFlags
<1>3. RelInv => Rel!TypeOK
  <2> SUFFICES ASSUME RelInv PROVE Rel!TypeOK
    OBVIOUS
  <2>1. packets \in 0 .. MaxPackets /\ settled \in [Receivers -> SUBSET (1 .. MaxPackets)]
    BY DEF RelInv, RelIngests, RelReceivers
  <2>2. index \in [Ingests -> 1 .. Rel!Cardinality(Receivers) + 1]
    BY SameCardinality, RelConstants DEF RelInv, RelIngests, RelWalks
  <2>3. Rel!ToSet(handlers) \subseteq Receivers /\ Rel!IsInjective(handlers)
    BY DEF RelInv, RelHandlers, Distinct, Rel!ToSet, Rel!IsInjective
  <2>4. request \in [Receivers -> BOOLEAN] /\ \A r \in Receivers : Len(queue[r]) <= MaxQueue
    BY DEF RelInv, RelRequests, RelQueues
  <2> QED BY <2>1, <2>2, <2>3, <2>4 DEF Rel!TypeOK
<1>4. ProxyInv /\ FwdInv /\ RelInv => TypeOK
  BY <1>1, <1>2, <1>3 DEF TypeOK
<1> QED BY <1>4, ProxyInvariant, FwdInvariant, RelInvariant, PTL
=============================================================================

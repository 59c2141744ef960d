------------------------------ MODULE MCNetwork -----------------------------
(***************************************************************************)
(* The programs that serve or receive point clouds over a socket, for TLC: *)
(* ProxySource, Forwarder and Relay.  They do not share state, so each     *)
(* behaviour is one of the program chosen in the initial state, and the    *)
(* others stay in their initial states.                                    *)
(***************************************************************************)
EXTENDS Naturals

CONSTANTS
    Consumers, CloseWakes, MaxClouds, MaxConnections, MaxStarts, MaxCalls,
    Clients, InSize, OutSize, MaxKept, MaxLossy,
    Ingests, Receivers, MaxQueue, MaxPackets, Oneshot

VARIABLES
    program,            \* which of the programs runs
    \* ProxySource
    running, listen, socket, pc, server, fd, newPC, cons, owner, starts, calls,
    connection, made, where, last,
    \* Forwarder
    nodrop, encoding, grabbed, srcStopped, source, inq, encStopped, enc,
    encWork, outq, netStopped, net, netWork, listening, conns, client, got,
    main, stopper,
    \* Relay
    packets, ingest, carried, index, stopping, handlers, place, request, queue,
    sending, peer, settled, removals, relay

Proxy == INSTANCE ProxySource WITH main <- owner
Fwd == INSTANCE Forwarder
Rel == INSTANCE Relay

ASSUME ProxyAssumption == Proxy!ConstantsOK
ASSUME ForwarderAssumption == Fwd!ConstantsOK
ASSUME RelayAssumption == Rel!ConstantsOK

proxy == <<running, listen, socket, pc, server, fd, newPC, cons, owner, starts,
           calls, connection, made, where, last>>
forwarder == <<nodrop, encoding, grabbed, srcStopped, source, inq, encStopped,
               enc, encWork, outq, netStopped, net, netWork, listening, conns,
               client, got, main, stopper>>
relaying == <<packets, ingest, carried, index, stopping, handlers, place, request,
              queue, sending, peer, settled, removals, relay>>
vars == <<program, proxy, forwarder, relaying>>

Init ==
    /\ program \in {"proxy", "forwarder", "relay"}
    /\ Proxy!Init /\ Fwd!Init /\ Rel!Init
    /\ program # "forwarder" => ~nodrop /\ ~encoding

RunsProxy(A) == program = "proxy" /\ A /\ UNCHANGED <<program, forwarder, relaying>>
RunsForwarder(A) == program = "forwarder" /\ A /\ UNCHANGED <<program, proxy, relaying>>
RunsRelay(A) == program = "relay" /\ A /\ UNCHANGED <<program, proxy, forwarder>>

Next ==
    \/ RunsProxy(Proxy!Next)
    \/ RunsForwarder(Fwd!Next)
    \/ RunsRelay(Rel!Next)

\* The fairness of each of them, for the one that runs.
Spec ==
    /\ Init /\ [][Next]_vars
    /\ WF_vars(RunsProxy(Proxy!ServerRuns))
    /\ \A t \in Consumers : SF_vars(RunsProxy(Proxy!InCall(t)))
    /\ WF_vars(RunsProxy(Proxy!Stopping))
    /\ WF_vars(RunsForwarder(Fwd!SourceThread))
    /\ WF_vars(RunsForwarder(Fwd!EncoderThread))
    /\ WF_vars(RunsForwarder(Fwd!NetThread))
    /\ \A s \in Fwd!Stoppers : SF_vars(RunsForwarder(Fwd!StopStep(s)))
    /\ WF_vars(RunsForwarder(Fwd!MainThread))

-----------------------------------------------------------------------------
\* The variables of the programs have their types.
TypeOK == Proxy!TypeOK /\ Fwd!TypeOK /\ Rel!TypeOK

ConnectionsKept == Proxy!ConnectionsKept
NobodyLeftAsleep == Proxy!NobodyLeftAsleep
StopReturnsUnlessLate == Proxy!StopReturnsUnlessLate
ProxyIsSource == Proxy!ImplementsSource
Forwarded == Fwd!Forwarded
ProgramEnds == Fwd!ProgramEnds
OthersCostLittle == Rel!OthersCostLittle
=============================================================================

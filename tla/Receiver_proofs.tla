--------------------------- MODULE Receiver_proofs --------------------------
(***************************************************************************)
(* Proofs about the receiver of tiled streams (TiledReceiver).             *)
(*                                                                         *)
(* What is delivered depends on what the servers sent and not on how three *)
(* layers of threads pass it on, because of what holds for each tile: the  *)
(* packets behind the one the synchronizer holds are in the places of the  *)
(* pipeline in the order of sending (Sorted, Chain), and what is in no     *)
(* place has been delivered, or is out of reach behind a decoder that has  *)
(* ended and later than all that still comes (NoGap).                      *)
(***************************************************************************)
EXTENDS TiledReceiver, Queues_proofs

(* The inductive invariant                                                 *)

\* The places of tile t, from the synchronizer back to the server; 0 is none.
Held(t) == {heads[t]}
Decoded(t) == Items(decoderQ[t])
Decoding(t) == {decoderPC[t]}
Received(t) == Items(clientQ[t])
Receiving(t) == {clientPC[t]}
Behind(t) == Decoding(t) \cup Received(t) \cup Receiving(t)

\* For each tile a sequence.
Shapes ==
    /\ sent \in [Tiles -> Seq(Times)] /\ clientQ \in [Tiles -> Seq(Packets)]
    /\ decoderQ \in [Tiles -> Seq(Times)]

\* What the threads have in hand.
Hands ==
    \A t \in Tiles :
        /\ client[t] # "put" => clientPC[t] = 0
        /\ decoder[t] # "put" <=> decoderPC[t] = 0
        /\ owner = "idle" => client[t] = "off"

\* Everything on its way was sent by the server of the tile.
FromServer(t) == Held(t) \cup Decoded(t) \cup Behind(t) \subseteq SentBy(t) \cup {0}
Origin == \A t \in Tiles : FromServer(t)

\* The round of the synchronizer.
Round ==
    /\ sync \in {"fill", "get"} =>
         \A t \in Tiles :
            /\ t \in todo => heads[t] = 0
            /\ heads[t] = 0 \/ heads[t] >= earliest
            /\ ~missing => heads[t] # 0 \/ t \in todo
    /\ sync = "get" => todo # {}

\* earliest is later than all that is delivered, but than no tile's last cloud
\* by more than one.
Past ==
    /\ \A d \in Delivered : d.ts < earliest
    /\ earliest # 0 => \A t \in Tiles : \E i \in SentBy(t) : earliest <= i + 1

\* The results in the hands of the application and in the queue.
InResults ==
    /\ Advances(got) /\ Advances(outputQ)
    /\ \A i \in 1 .. Len(got), j \in 1 .. Len(outputQ) :
         outputQ[j] # None => got[i].ts < outputQ[j].ts
    /\ \A i \in 1 .. Len(got) : got[i] # None

AllInOrder == \A t \in Tiles : InOrder(t)

\* In its places they are in the order of sending.
Sorted(t) == Rising(decoderQ[t]) /\ Rising(clientQ[t])
Chain(t) ==
    /\ Precede(Held(t), Decoded(t) \cup Behind(t))
    /\ Precede(Decoded(t), Behind(t))
    /\ Precede(Decoding(t), Received(t) \cup Receiving(t))
    /\ Precede(Received(t), Receiving(t))

\* What is in none of them.
NoGap(t) ==
    \A i \in SentBy(t) :
        \/ i < earliest
        \/ i \in Held(t) \cup Decoded(t) \cup Behind(t)
        \/ decoder[t] = "exited" /\ \A x \in Held(t) \cup Decoded(t) : x < i

Pipeline == AllInOrder => \A t \in Tiles : Sorted(t) /\ Chain(t) /\ NoGap(t)

NoneSkipped ==
    AllInOrder =>
        \A t \in Tiles : \A i \in SentBy(t) :
            i < earliest => \E d \in Delivered : d.ts = i

Inv ==
    /\ TypeOK /\ Shapes /\ Hands /\ Origin /\ Round /\ Past /\ InResults /\ Pipeline
    /\ TilesComplete /\ NoneSkipped

-----------------------------------------------------------------------------
(* Types                                                                   *)

LEMMA Constants ==
    /\ Tiles \subseteq Nat /\ 1 \in Tiles /\ NumTiles \in Tiles /\ NumTiles \in Nat
    /\ Times \subseteq Packets /\ Packets \subseteq Nat /\ 0 \in Packets
    /\ \A i \in Packets : i # 0 => i \in Times
    /\ \A i \in Times : i # 0
    /\ ClientQueue \in Nat \ {0} /\ DecoderQueue \in Nat \ {0} /\ OutputQueue \in Nat \ {0}
    /\ MaxTime \in Nat \ {0} /\ None \in Joined
BY TiledReceiverAssumption DEF Tiles, Times, Packets, None, Joined

LEMMA OfferedQueue ==
    ASSUME NEW S, NEW q \in Seq(S), NEW n \in Nat, Len(q) <= n, NEW x \in S
    PROVE  /\ Offered(q, n, x) \in Seq(S) /\ Len(Offered(q, n, x)) <= n
           /\ Items(q) \subseteq Items(Offered(q, n, x))
           /\ Items(Offered(q, n, x)) \subseteq Items(q) \cup {x}
<1>1. Append(q, x) \in Seq(S) /\ Len(Append(q, x)) = Len(q) + 1 /\ Len(q) \in Nat
  BY AppendTo
<1>2. Items(Append(q, x)) = Items(q) \cup {x}
  BY ItemsAfterAppend
<1> QED BY <1>1, <1>2 DEF Offered

ClientStep(t) ==
    ClientTests(t) \/ ClientReceives(t) \/ ClientPuts(t) \/ ClientLeaves(t) \/ ClientDies(t)

LEMMA ReceiverInit == Init => TypeOK /\ Shapes
<1> SUFFICES ASSUME Init PROVE TypeOK /\ Shapes
  OBVIOUS
<1> USE Constants DEF Init
<1>1. ThreadsTypeOK
  BY DEF ThreadsTypeOK
<1>2. QueuesTypeOK
  BY DEF QueuesTypeOK
<1>3. DataTypeOK
  <2>1. \A t \in Tiles : sent[t] \in Seq(Times)
    OBVIOUS
  <2>2. got \in Seq(Joined) /\ earliest \in 0 .. MaxTime + 1
    OBVIOUS
  <2> QED BY <2>1, <2>2 DEF DataTypeOK
<1>4. Shapes
  BY DEF Shapes
<1> QED BY <1>1, <1>2, <1>3, <1>4 DEF TypeOK

LEMMA ThreadsStep ==
    ASSUME ThreadsTypeOK, Next
    PROVE  ThreadsTypeOK'
<1> USE DEF ThreadsTypeOK, Set
<1>1. ASSUME NEW t \in Tiles, Client(t) PROVE ThreadsTypeOK'
  BY <1>1 DEF Client, ClientTests, ClientReceives, ClientPuts, ClientLeaves, ClientDies,
     decoders, synchronizer, application
<1>2. ASSUME NEW t \in Tiles, Decoder(t) PROVE ThreadsTypeOK'
  BY <1>2 DEF Decoder, DecoderTests, DecoderTakes, DecoderPuts, DecoderDies,
     clients, synchronizer, application
<1>3. CASE Synchronizer
  BY <1>3 DEF Synchronizer, SyncTests, SyncLeaves, SyncSkips, SyncGets, SyncTakes,
     SyncRetries, SyncPuts, clients, decoders, application
<1>4. CASE AppGets \/ AppTakes \/ Start \/ Stop
  BY <1>4 DEF AppGets, AppTakes, Start, Stop, clients, decoders, synchronizer
<1>5. CASE Stopping
  BY <1>5, Constants DEF Stopping, StopClient, StopJoinsClient, StopJoinsSync, clients,
     decoders, synchronizer, Tiles
<1> QED BY <1>1, <1>2, <1>3, <1>4, <1>5 DEF Next
\* One tile's entry changes, the others keep theirs.
LEMMA SetOne ==
    ASSUME NEW S, NEW f \in [Tiles -> S], NEW t \in Tiles, NEW v \in S
    PROVE  /\ Set(f, t, v) \in [Tiles -> S] /\ Set(f, t, v)[t] = v
           /\ \A s \in Tiles : s # t => Set(f, t, v)[s] = f[s]
BY DEF Set

\* What the sequences hold.
QueueTypes ==
    /\ sent \in [Tiles -> Seq(Times)] /\ clientQ \in [Tiles -> Seq(Packets)]
    /\ decoderQ \in [Tiles -> Seq(Times)]
    /\ outputQ \in Seq(Joined) /\ got \in Seq(Joined)

LEMMA SequencesClients ==
    ASSUME TypeOK, Shapes, NEW t \in Tiles, Client(t)
    PROVE  QueueTypes'
<1> USE Constants DEF TypeOK, ThreadsTypeOK, QueuesTypeOK, DataTypeOK, Shapes, QueueTypes
<1>1. CASE ClientTests(t) \/ ClientDies(t)
  BY <1>1 DEF ClientTests, ClientDies, decoders, synchronizer, application
<1>2. CASE ClientReceives(t)
  <2>1. PICK i \in Times : sent' = Set(sent, t, Append(sent[t], i))
    BY <1>2 DEF ClientReceives, Newer
  <2>2. Append(sent[t], i) \in Seq(Times)
    BY AppendTo
  <2>3. sent' \in [Tiles -> Seq(Times)]
    BY <2>1, <2>2, SetOne
  <2> QED BY <1>2, <2>3 DEF ClientReceives, decoders, synchronizer, application
<1>3. CASE ClientPuts(t)
  <2>1. Append(clientQ[t], clientPC[t]) \in Seq(Packets)
    BY AppendTo
  <2>2. clientQ' \in [Tiles -> Seq(Packets)]
    BY <1>3, <2>1, SetOne DEF ClientPuts
  <2> QED BY <1>3, <2>2 DEF ClientPuts, decoders, synchronizer, application
<1>4. CASE ClientLeaves(t)
  <2>1. Offered(clientQ[t], ClientQueue, 0) \in Seq(Packets)
    BY OfferedQueue
  <2>2. clientQ' \in [Tiles -> Seq(Packets)]
    BY <1>4, <2>1, SetOne DEF ClientLeaves
  <2> QED BY <1>4, <2>2 DEF ClientLeaves, decoders, synchronizer, application
<1> QED BY <1>1, <1>2, <1>3, <1>4 DEF Client
LEMMA SequencesDecoders ==
    ASSUME TypeOK, Shapes, Hands, NEW t \in Tiles, Decoder(t)
    PROVE  QueueTypes'
<1> USE Constants DEF TypeOK, ThreadsTypeOK, QueuesTypeOK, DataTypeOK, Shapes, QueueTypes
<1>1. CASE DecoderTests(t) \/ DecoderDies(t)
  BY <1>1 DEF DecoderTests, DecoderDies, clients, synchronizer, application
<1>2. CASE DecoderTakes(t)
  <2>1. Tail(clientQ[t]) \in Seq(Packets)
    BY <1>2, TailOf DEF DecoderTakes
  <2>2. clientQ' \in [Tiles -> Seq(Packets)]
    BY <1>2, <2>1, SetOne DEF DecoderTakes
  <2> QED BY <1>2, <2>2 DEF DecoderTakes, synchronizer, application
<1>3. CASE DecoderPuts(t)
  <2>1. decoderPC[t] \in Times
    BY <1>3 DEF DecoderPuts, Hands
  <2>2. Append(decoderQ[t], decoderPC[t]) \in Seq(Times)
    BY <2>1, AppendTo
  <2>3. decoderQ' \in [Tiles -> Seq(Times)]
    BY <1>3, <2>2, SetOne DEF DecoderPuts
  <2> QED BY <1>3, <2>3 DEF DecoderPuts, clients, synchronizer, application
<1> QED BY <1>1, <1>2, <1>3 DEF Decoder

\* The head the synchronizer joins.
LEMMA OldestHead ==
    ASSUME TypeOK
    PROVE  /\ Oldest \in Packets
           /\ \E t \in Tiles : heads[t] = Oldest
           /\ \A t \in Tiles : Oldest <= heads[t]
<1> DEFINE S == {heads[t] : t \in Tiles}
<1>0. \A t \in Tiles : heads[t] \in Packets
  BY DEF TypeOK, DataTypeOK
<1>1. S \in SUBSET Packets /\ S \in SUBSET Nat /\ S # {}
  <2>1. heads[1] \in S
    BY Constants
  <2> QED BY <1>0, <2>1, Constants
<1>2. Min(S) \in S /\ \A x \in S : Min(S) <= x
  BY <1>1, LeastOf
<1>3. Oldest = Min(S)
  BY DEF Oldest
<1> HIDE DEF Oldest
<1>4. Oldest \in S /\ \A x \in S : Oldest <= x
  BY <1>2, <1>3
<1> QED BY <1>1, <1>4

\* The tile whose turn it is.
LEMMA TurnOf ==
    ASSUME TypeOK, todo # {}
    PROVE  Turn \in todo /\ Turn \in Tiles
<1>1. todo \in SUBSET Nat
  BY Constants DEF TypeOK, DataTypeOK
<1> QED BY <1>1, LeastOf DEF Turn, TypeOK, DataTypeOK

LEMMA SequencesSync ==
    ASSUME TypeOK, Shapes, sync = "get" => todo # {}, Synchronizer
    PROVE  QueueTypes'
<1> USE Constants DEF TypeOK, ThreadsTypeOK, QueuesTypeOK, DataTypeOK, Shapes, QueueTypes
<1>1. CASE SyncTests \/ SyncSkips \/ SyncGets \/ SyncRetries
  BY <1>1 DEF SyncTests, SyncSkips, SyncGets, SyncRetries, clients, decoders, rounds,
     application
<1>2. CASE SyncLeaves
  <2>1. Offered(outputQ, OutputQueue, None) \in Seq(Joined)
    BY OfferedQueue
  <2> QED BY <1>2, <2>1 DEF SyncLeaves, clients, decoders, application
<1>3. CASE SyncTakes
  <2>1. Turn \in Tiles
    BY <1>3, TurnOf DEF SyncTakes
  <2>2. Tail(decoderQ[Turn]) \in Seq(Times)
    BY <1>3, <2>1, TailOf DEF SyncTakes
  <2>3. decoderQ' \in [Tiles -> Seq(Times)]
    BY <1>3, <2>1, <2>2, SetOne DEF SyncTakes
  <2> QED BY <1>3, <2>3 DEF SyncTakes, clients, application
<1>4. CASE SyncPuts
  <2>1. [ts |-> Oldest, tiles |-> {t \in Tiles : heads[t] = Oldest}] \in Joined
    BY OldestHead DEF Joined
  <2>2. outputQ' \in Seq(Joined)
    BY <1>4, <2>1 DEF SyncPuts
  <2> QED BY <1>4, <2>2 DEF SyncPuts, clients, decoders, application
<1> QED BY <1>1, <1>2, <1>3, <1>4 DEF Synchronizer

LEMMA SequencesOwner ==
    ASSUME TypeOK, Shapes, AppGets \/ AppTakes \/ Start \/ Stop \/ Stopping
    PROVE  QueueTypes'
<1> USE Constants DEF TypeOK, ThreadsTypeOK, QueuesTypeOK, DataTypeOK, Shapes, QueueTypes
<1>1. CASE AppGets \/ Start \/ Stop \/ StopJoinsSync
  BY <1>1 DEF AppGets, Start, Stop, StopJoinsSync, clients, decoders, synchronizer, rounds
<1>2. CASE AppTakes
  <2>1. Head(outputQ) \in Joined /\ Tail(outputQ) \in Seq(Joined)
    BY <1>2, TailOf DEF AppTakes
  <2>2. Append(got, Head(outputQ)) \in Seq(Joined)
    BY <2>1, AppendTo
  <2> QED BY <1>2, <2>1, <2>2 DEF AppTakes, clients, decoders
<1>3. CASE StopClient
  <2>1. Offered(clientQ[joining], ClientQueue, 0) \in Seq(Packets)
    BY OfferedQueue
  <2>2. clientQ' \in [Tiles -> Seq(Packets)]
    BY <1>3, <2>1, SetOne DEF StopClient
  <2> QED BY <1>3, <2>2 DEF StopClient, decoders, synchronizer
<1>4. CASE StopJoinsClient
  <2>1. Offered(outputQ, OutputQueue, None) \in Seq(Joined)
    BY OfferedQueue
  <2> QED BY <1>4, <2>1 DEF StopJoinsClient, clients, decoders
<1> QED BY <1>1, <1>2, <1>3, <1>4 DEF Stopping
\* No queue outgrows its size.
Bounded ==
    /\ \A t \in Tiles : Len(clientQ[t]) <= ClientQueue /\ Len(decoderQ[t]) <= DecoderQueue
    /\ Len(outputQ) <= OutputQueue

LEMMA BoundedClients ==
    ASSUME TypeOK, Shapes, NEW t \in Tiles, Client(t) \/ StopClient
    PROVE  Bounded'
<1> USE Constants DEF TypeOK, ThreadsTypeOK, QueuesTypeOK, DataTypeOK, Shapes, Bounded
<1>1. CASE ClientTests(t) \/ ClientDies(t) \/ ClientReceives(t)
  BY <1>1 DEF ClientTests, ClientDies, ClientReceives, decoders, synchronizer
<1>2. CASE ClientPuts(t)
  <2>1. Append(clientQ[t], clientPC[t]) \in Seq(Packets)
        /\ Len(Append(clientQ[t], clientPC[t])) <= ClientQueue
    BY <1>2, AppendTo DEF ClientPuts
  <2>2. \A s \in Tiles : Len(clientQ'[s]) <= ClientQueue
    BY <1>2, <2>1 DEF Set, ClientPuts
  <2> QED BY <1>2, <2>2 DEF ClientPuts, decoders, synchronizer
<1>3. CASE ClientLeaves(t)
  <2>1. Offered(clientQ[t], ClientQueue, 0) \in Seq(Packets)
        /\ Len(Offered(clientQ[t], ClientQueue, 0)) <= ClientQueue
    <3>1. /\ clientQ[t] \in Seq(Packets) /\ Len(clientQ[t]) <= ClientQueue
          /\ ClientQueue \in Nat \ {0} /\ 0 \in Packets
      OBVIOUS
    <3> QED BY <3>1, OfferedQueue, SMTT(20)
  <2>2. \A s \in Tiles : Len(clientQ'[s]) <= ClientQueue
    BY <1>3, <2>1 DEF Set, ClientLeaves
  <2> QED BY <1>3, <2>2 DEF ClientLeaves, decoders, synchronizer
<1>4. CASE StopClient
  <2>1. Offered(clientQ[joining], ClientQueue, 0) \in Seq(Packets)
        /\ Len(Offered(clientQ[joining], ClientQueue, 0)) <= ClientQueue
    <3>1. joining \in Tiles
      BY <1>4 DEF StopClient
    <3>2. /\ clientQ[joining] \in Seq(Packets) /\ Len(clientQ[joining]) <= ClientQueue
          /\ ClientQueue \in Nat \ {0} /\ 0 \in Packets
      BY <3>1
    <3> QED BY <3>2, OfferedQueue, SMTT(20)
  <2>2. \A s \in Tiles : Len(clientQ'[s]) <= ClientQueue
    BY <1>4, <2>1 DEF Set, StopClient
  <2> QED BY <1>4, <2>2 DEF StopClient, decoders, synchronizer
<1> QED BY <1>1, <1>2, <1>3, <1>4 DEF Client

LEMMA BoundedDecoders ==
    ASSUME TypeOK, Shapes, Hands, NEW t \in Tiles, Decoder(t)
    PROVE  Bounded'
<1> USE Constants DEF TypeOK, ThreadsTypeOK, QueuesTypeOK, DataTypeOK, Shapes, Bounded
<1>1. CASE DecoderTests(t) \/ DecoderDies(t)
  BY <1>1 DEF DecoderTests, DecoderDies, clients, synchronizer
<1>2. CASE DecoderTakes(t)
  <2>1. Tail(clientQ[t]) \in Seq(Packets) /\ Len(Tail(clientQ[t])) <= ClientQueue
    BY <1>2, TailOf DEF DecoderTakes
  <2>2. \A s \in Tiles : Len(clientQ'[s]) <= ClientQueue
    BY <1>2, <2>1 DEF Set, DecoderTakes
  <2> QED BY <1>2, <2>2 DEF DecoderTakes, synchronizer
<1>3. CASE DecoderPuts(t)
  <2>1. decoderPC[t] \in Times
    BY <1>3 DEF DecoderPuts, Hands
  <2>2. Append(decoderQ[t], decoderPC[t]) \in Seq(Times)
        /\ Len(Append(decoderQ[t], decoderPC[t])) <= DecoderQueue
    BY <1>3, <2>1, AppendTo DEF DecoderPuts
  <2>3. \A s \in Tiles : Len(decoderQ'[s]) <= DecoderQueue
    BY <1>3, <2>2 DEF Set, DecoderPuts
  <2> QED BY <1>3, <2>3 DEF DecoderPuts, clients, synchronizer
<1> QED BY <1>1, <1>2, <1>3 DEF Decoder

LEMMA BoundedOthers ==
    ASSUME TypeOK, Shapes, sync = "get" => todo # {},
           \/ Synchronizer \/ AppGets \/ AppTakes \/ Start \/ Stop
           \/ StopJoinsClient \/ StopJoinsSync
    PROVE  Bounded'
<1> USE Constants DEF TypeOK, ThreadsTypeOK, QueuesTypeOK, DataTypeOK, Shapes, Bounded
<1>1. CASE \/ SyncTests \/ SyncSkips \/ SyncGets \/ SyncRetries
           \/ AppGets \/ Start \/ Stop \/ StopJoinsSync
  BY <1>1 DEF SyncTests, SyncSkips, SyncGets, SyncRetries, AppGets, Start, Stop,
     StopJoinsSync, clients, decoders, synchronizer, rounds
<1>2. CASE SyncLeaves \/ StopJoinsClient
  <2>1. Len(Offered(outputQ, OutputQueue, None)) <= OutputQueue
    BY OfferedQueue
  <2> QED BY <1>2, <2>1 DEF SyncLeaves, StopJoinsClient, clients, decoders
<1>3. CASE SyncTakes
  <2>1. Turn \in Tiles
    BY <1>3, TurnOf DEF SyncTakes
  <2>2. Tail(decoderQ[Turn]) \in Seq(Times) /\ Len(Tail(decoderQ[Turn])) <= DecoderQueue
    BY <1>3, <2>1, TailOf DEF SyncTakes
  <2>3. \A s \in Tiles : Len(decoderQ'[s]) <= DecoderQueue
    BY <1>3, <2>1, <2>2 DEF Set, SyncTakes
  <2> QED BY <1>3, <2>3 DEF SyncTakes, clients
<1>4. CASE SyncPuts
  <2>1. [ts |-> Oldest, tiles |-> {t \in Tiles : heads[t] = Oldest}] \in Joined
    BY OldestHead DEF Joined
  <2>2. Len(outputQ') <= OutputQueue
    BY <1>4, <2>1 DEF SyncPuts
  <2> QED BY <1>4, <2>2 DEF SyncPuts, clients, decoders
<1>5. CASE AppTakes
  <2>1. Len(Tail(outputQ)) <= OutputQueue
    BY <1>5, TailOf DEF AppTakes
  <2> QED BY <1>5, <2>1 DEF AppTakes, clients, decoders
<1> QED BY <1>1, <1>2, <1>3, <1>4, <1>5 DEF Synchronizer

\* The rest of the data.
Scalars ==
    /\ clientPC \in [Tiles -> Packets] /\ decoderPC \in [Tiles -> Packets]
    /\ heads \in [Tiles -> Packets] /\ earliest \in 0 .. MaxTime + 1
    /\ todo \subseteq Tiles
Flags ==
    /\ clientRunning \in [Tiles -> BOOLEAN] /\ refused \in [Tiles -> BOOLEAN]
    /\ decoderRunning \in [Tiles -> BOOLEAN] /\ syncRunning \in BOOLEAN
    /\ missing \in BOOLEAN

LEMMA ScalarsStep ==
    ASSUME TypeOK, Shapes, sync = "get" => todo # {}, Next
    PROVE  Scalars'
<1> USE Constants DEF TypeOK, ThreadsTypeOK, QueuesTypeOK, DataTypeOK, Scalars
<1>1. ASSUME NEW t \in Tiles, Client(t) PROVE Scalars'
  <2>1. CASE ClientTests(t) \/ ClientLeaves(t) \/ ClientDies(t)
    BY <2>1 DEF ClientTests, ClientLeaves, ClientDies, decoders, synchronizer, rounds
  <2>2. CASE ClientReceives(t)
    <3>1. PICK i \in Packets : clientPC' = Set(clientPC, t, i)
      BY <2>2 DEF ClientReceives, Newer
    <3>2. clientPC' \in [Tiles -> Packets]
      BY <3>1, SetOne
    <3> QED BY <2>2, <3>2 DEF ClientReceives, decoders, synchronizer, rounds
  <2>3. CASE ClientPuts(t)
    <3>1. clientPC' \in [Tiles -> Packets]
      BY <2>3, SetOne DEF ClientPuts
    <3> QED BY <2>3, <3>1 DEF ClientPuts, decoders, synchronizer, rounds
  <2> QED BY <1>1, <2>1, <2>2, <2>3 DEF Client
<1>2. ASSUME NEW t \in Tiles, Decoder(t) PROVE Scalars'
  <2>1. CASE DecoderTests(t) \/ DecoderPuts(t) \/ DecoderDies(t)
    <3>1. Set(decoderPC, t, 0) \in [Tiles -> Packets]
      BY SetOne
    <3>2. decoderPC' \in [Tiles -> Packets]
      BY <2>1, <3>1 DEF DecoderTests, DecoderPuts, DecoderDies
    <3> QED
      BY <2>1, <3>2 DEF DecoderTests, DecoderPuts, DecoderDies, clients, synchronizer, rounds
  <2>2. CASE DecoderTakes(t)
    <3>1. Head(clientQ[t]) \in Packets
      BY <2>2, TailOf DEF DecoderTakes
    <3>2. decoderPC' \in [Tiles -> Packets]
      <4>1. Set(decoderPC, t, Head(clientQ[t])) \in [Tiles -> Packets]
        BY <3>1, SetOne
      <4> QED BY <2>2, <4>1 DEF DecoderTakes
    <3> QED BY <2>2, <3>2 DEF DecoderTakes, synchronizer, rounds
  <2> QED BY <1>2, <2>1, <2>2 DEF Decoder
<1>3. CASE Synchronizer
  <2>1. CASE SyncTests \/ SyncLeaves \/ SyncSkips \/ SyncGets \/ SyncRetries
    BY <2>1 DEF SyncTests, SyncLeaves, SyncSkips, SyncGets, SyncRetries, clients, decoders,
       rounds
  <2>2. CASE SyncTakes
    <3>1. Turn \in Tiles
      BY <2>2, TurnOf DEF SyncTakes
    <3>2. Head(decoderQ[Turn]) \in Packets
      BY <2>2, <3>1, TailOf DEF SyncTakes
    <3>3. heads' \in [Tiles -> Packets]
      <4>1. Set(heads, Turn, Head(decoderQ[Turn])) \in [Tiles -> Packets]
        BY <3>1, <3>2, SetOne
      <4> QED BY <2>2, <4>1 DEF SyncTakes
    <3> QED BY <2>2, <3>3 DEF SyncTakes, clients
  <2>3. CASE SyncPuts
    <3>1. Oldest + 1 \in 0 .. MaxTime + 1
      <4>1. \A i \in Packets : i + 1 \in 0 .. MaxTime + 1
        BY DEF Packets
      <4> QED BY <4>1, OldestHead, Zenon
    <3> QED BY <2>3, <3>1 DEF SyncPuts, clients, decoders
  <2> QED BY <1>3, <2>1, <2>2, <2>3 DEF Synchronizer
<1>4. CASE AppGets \/ AppTakes \/ Start \/ Stop \/ Stopping
  BY <1>4 DEF AppGets, AppTakes, Start, Stop, Stopping, StopClient, StopJoinsClient,
     StopJoinsSync, clients, decoders, synchronizer, rounds
<1> QED BY <1>1, <1>2, <1>3, <1>4 DEF Next

LEMMA FlagsStep ==
    ASSUME Flags, Next
    PROVE  Flags'
<1> USE DEF Flags, Set
<1>1. ASSUME NEW t \in Tiles, Client(t) \/ Decoder(t) PROVE Flags'
  BY <1>1 DEF Client, ClientTests, ClientReceives, ClientPuts, ClientLeaves, ClientDies,
     Decoder, DecoderTests, DecoderTakes, DecoderPuts, DecoderDies, clients, decoders,
     synchronizer, rounds
<1>2. CASE Synchronizer
  BY <1>2 DEF Synchronizer, SyncTests, SyncLeaves, SyncSkips, SyncGets, SyncTakes,
     SyncRetries, SyncPuts, clients, decoders, rounds
<1>3. CASE AppGets \/ AppTakes \/ Start \/ Stop \/ Stopping
  BY <1>3 DEF AppGets, AppTakes, Start, Stop, Stopping, StopClient, StopJoinsClient,
     StopJoinsSync, clients, decoders, synchronizer, rounds
<1> QED BY <1>1, <1>2, <1>3 DEF Next

LEMMA TypeStep ==
    ASSUME TypeOK, Shapes, Hands, sync = "get" => todo # {}, [Next]_vars
    PROVE  TypeOK' /\ Shapes'
<1>1. CASE Next
  <2>1. ThreadsTypeOK'
    BY <1>1, ThreadsStep DEF TypeOK
  <2>2. QueueTypes'
    BY <1>1, SequencesClients, SequencesDecoders, SequencesSync, SequencesOwner DEF Next
  <2>3. Bounded'
    BY <1>1, BoundedClients, BoundedDecoders, BoundedOthers, Constants DEF Next, Stopping
  <2>4. Scalars'
    BY <1>1, ScalarsStep
  <2>5. Flags'
    BY <1>1, FlagsStep DEF TypeOK, DataTypeOK, Flags
  <2>6. QueuesTypeOK'
    BY <2>2, <2>3 DEF QueueTypes, Bounded, QueuesTypeOK
  <2>7. DataTypeOK'
    BY <2>2, <2>4, <2>5 DEF QueueTypes, Scalars, Flags, DataTypeOK
  <2> QED BY <2>1, <2>2, <2>6, <2>7 DEF TypeOK, QueueTypes, Shapes
<1>2. CASE UNCHANGED vars
  BY <1>2 DEF vars, clients, decoders, synchronizer, rounds, application, TypeOK,
     ThreadsTypeOK, QueuesTypeOK, DataTypeOK, Shapes
<1> QED BY <1>1, <1>2
-----------------------------------------------------------------------------
(* What the threads have in hand, and the round of the synchronizer        *)

\* The timestamps are numbers.
LEMMA Numbers ==
    ASSUME TypeOK
    PROVE  earliest \in Nat /\ \A t \in Tiles : heads[t] \in Nat
<1>1. earliest \in Nat
  BY Constants DEF TypeOK, DataTypeOK
<1>2. \A t \in Tiles : heads[t] \in Packets
  BY DEF TypeOK, DataTypeOK
<1> QED BY <1>1, <1>2, Constants

LEMMA HandsStep ==
    ASSUME TypeOK, Hands, [Next]_vars
    PROVE  Hands'
<1> USE DEF Hands
<1>1. ASSUME NEW t \in Tiles, Client(t) PROVE Hands'
  BY <1>1 DEF Client, ClientTests, ClientReceives, ClientPuts, ClientLeaves, ClientDies, Set,
     decoders, application, TypeOK, ThreadsTypeOK, DataTypeOK
<1>2. ASSUME NEW t \in Tiles, Decoder(t) PROVE Hands'
  BY <1>2 DEF Decoder, DecoderTests, DecoderTakes, DecoderPuts, DecoderDies, Set, clients,
     application, TypeOK, ThreadsTypeOK, DataTypeOK
<1>3. CASE Synchronizer
  BY <1>3 DEF Synchronizer, SyncTests, SyncLeaves, SyncSkips, SyncGets, SyncTakes,
     SyncRetries, SyncPuts, clients, decoders, application
<1>4. CASE AppGets \/ AppTakes \/ Start \/ Stop \/ Stopping
  BY <1>4 DEF AppGets, AppTakes, Start, Stop, Stopping, StopClient, StopJoinsClient,
     StopJoinsSync, clients, decoders
<1>5. CASE UNCHANGED vars
  BY <1>5 DEF vars, clients, decoders, application
<1> QED BY <1>1, <1>2, <1>3, <1>4, <1>5 DEF Next

LEMMA RoundStep ==
    ASSUME TypeOK, Shapes, Round, [Next]_vars
    PROVE  Round'
<1>1. CASE Next /\ UNCHANGED <<sync, heads, earliest, todo, missing>>
  BY <1>1 DEF Round
<1>2. CASE UNCHANGED vars
  BY <1>2 DEF vars, synchronizer, rounds, Round
<1>3. CASE Start \/ SyncPuts \/ SyncLeaves \/ SyncRetries
  BY <1>3 DEF Start, SyncPuts, SyncLeaves, SyncRetries, Round
<1>4. CASE SyncTests
  <2>1. \A t \in Tiles : heads'[t] = IF heads[t] < earliest THEN 0 ELSE heads[t]
    BY <1>4 DEF SyncTests
  <2>2. \A t \in Tiles : heads[t] \in Nat /\ earliest \in Nat
    BY Numbers
  <2>3. /\ todo' = {t \in Tiles : heads'[t] = 0}
        /\ missing' = FALSE /\ sync' = "fill" /\ earliest' = earliest
    BY <1>4 DEF SyncTests
  <2>4. \A t \in Tiles : heads'[t] = 0 \/ heads'[t] >= earliest'
    BY <2>1, <2>2, <2>3
  <2>5. \A t \in Tiles : t \in todo' <=> heads'[t] = 0
    BY <2>3
  <2> QED BY <2>3, <2>4, <2>5 DEF Round
<1>5. CASE SyncSkips
  BY <1>5 DEF SyncSkips, Round
<1>6. CASE SyncGets
  BY <1>6 DEF SyncGets, Round, rounds
<1>7. CASE SyncTakes
  <2>1. Turn \in todo /\ Turn \in Tiles
    BY <1>7, TurnOf DEF SyncTakes, Round
  <2>2. decoderQ[Turn] \in Seq(Times) /\ decoderQ[Turn] # <<>>
    BY <1>7, <2>1 DEF SyncTakes, Shapes
  <2>3. /\ Head(decoderQ[Turn]) \in Times /\ Head(decoderQ[Turn]) # 0
        /\ Head(decoderQ[Turn]) \in Nat /\ earliest \in Nat
    BY <2>2, TailOf, Constants, Numbers
  <2>4. CASE Head(decoderQ[Turn]) >= earliest /\ missing' = missing
    <3>1. heads'[Turn] = Head(decoderQ[Turn])
          /\ \A s \in Tiles : s # Turn => heads'[s] = heads[s]
      BY <1>7, <2>1, <2>4, <2>3 DEF SyncTakes, Set, TypeOK, DataTypeOK
    <3>2. sync' = "fill" /\ todo' = todo \ {Turn} /\ earliest' = earliest /\ sync = "get"
      BY <1>7 DEF SyncTakes
    <3>3. heads'[Turn] >= earliest' /\ heads'[Turn] # 0 /\ Turn \notin todo'
      BY <2>3, <2>4, <3>1, <3>2
    <3>4. ASSUME NEW s \in Tiles, s # Turn
          PROVE  /\ s \in todo' => heads'[s] = 0
                 /\ heads'[s] = 0 \/ heads'[s] >= earliest'
                 /\ ~missing' => heads'[s] # 0 \/ s \in todo'
      BY <2>4, <3>1, <3>2, <3>4 DEF Round
    <3> QED BY <3>2, <3>3, <3>4 DEF Round
  <2>5. CASE Head(decoderQ[Turn]) < earliest /\ missing' = TRUE /\ heads' = heads
    BY <1>7, <2>1, <2>5 DEF SyncTakes, Round
  <2> QED BY <1>7, <2>4, <2>5 DEF SyncTakes
<1>8. ASSUME NEW t \in Tiles, Client(t) \/ Decoder(t)
      PROVE  UNCHANGED <<sync, heads, earliest, todo, missing>>
  BY <1>8 DEF Client, ClientTests, ClientReceives, ClientPuts, ClientLeaves, ClientDies,
     Decoder, DecoderTests, DecoderTakes, DecoderPuts, DecoderDies, synchronizer, rounds
<1>9. ASSUME AppGets \/ AppTakes \/ Stop \/ Stopping
      PROVE  UNCHANGED <<sync, heads, earliest, todo, missing>>
  BY <1>9 DEF AppGets, AppTakes, Stop, Stopping, StopClient, StopJoinsClient, StopJoinsSync,
     synchronizer, rounds
<1> QED BY <1>1, <1>2, <1>3, <1>4, <1>5, <1>6, <1>7, <1>8, <1>9 DEF Next, Synchronizer
-----------------------------------------------------------------------------
(* One tile's way from its server to the synchronizer                      *)

\* What a step has to keep for tile t.
Kept(t) ==
    /\ FromServer(t)'
    /\ InOrder(t)' => InOrder(t)
    /\ InOrder(t)' /\ Sorted(t) /\ Chain(t) /\ NoGap(t) => Sorted(t)' /\ Chain(t)' /\ NoGap(t)'

Same(t) ==
    /\ sent'[t] = sent[t] /\ heads'[t] = heads[t]
    /\ decoderQ'[t] = decoderQ[t] /\ decoderPC'[t] = decoderPC[t]
    /\ clientQ'[t] = clientQ[t] /\ clientPC'[t] = clientPC[t]

LEMMA PlacesType ==
    ASSUME TypeOK, Shapes, NEW t \in Tiles
    PROVE  /\ Held(t) \subseteq Nat /\ Decoded(t) \subseteq Nat /\ Behind(t) \subseteq Nat
           /\ SentBy(t) \subseteq Times /\ SentBy(t) \subseteq Nat
           /\ clientQ[t] \in Seq(Nat) /\ decoderQ[t] \in Seq(Nat) /\ earliest \in Nat
<1>1. /\ sent[t] \in Seq(Times) /\ decoderQ[t] \in Seq(Times) /\ clientQ[t] \in Seq(Packets)
      /\ heads[t] \in Packets /\ decoderPC[t] \in Packets /\ clientPC[t] \in Packets
  BY DEF Shapes, TypeOK, DataTypeOK
<1>2. SentBy(t) \subseteq Times
  BY <1>1, ItemsType DEF Items, SentBy
<1>3. Items(decoderQ[t]) \subseteq Times
  BY <1>1, ItemsType
<1>4. Items(clientQ[t]) \subseteq Packets
  BY <1>1, ItemsType
<1>5. Times \in SUBSET Nat /\ Packets \in SUBSET Nat
  BY Constants
<1>6. clientQ[t] \in Seq(Nat) /\ decoderQ[t] \in Seq(Nat)
  BY <1>1, <1>5, QueueOfNumbers
<1>7. Held(t) \subseteq Nat
  BY <1>1, <1>5 DEF Held
<1>8. Behind(t) \subseteq Nat
  BY <1>1, <1>4, <1>5 DEF Behind, Decoding, Received, Receiving
<1> QED BY <1>2, <1>3, <1>5, <1>6, <1>7, <1>8, Numbers DEF Decoded

LEMMA SameIsKept ==
    ASSUME TypeOK, Shapes, NEW t \in Tiles, Same(t), FromServer(t),
           earliest' \in Nat, earliest <= earliest',
           decoder[t] = "exited" => decoder'[t] = "exited"
    PROVE  Kept(t)
<1>1. /\ Held(t)' = Held(t) /\ Decoded(t)' = Decoded(t) /\ Decoding(t)' = Decoding(t)
      /\ Received(t)' = Received(t) /\ Receiving(t)' = Receiving(t) /\ SentBy(t)' = SentBy(t)
  BY DEF Same, Held, Decoded, Decoding, Received, Receiving, SentBy, Items
<1>2. Behind(t)' = Behind(t)
  BY <1>1 DEF Behind
<1>3. InOrder(t)' = InOrder(t)
  BY DEF Same, InOrder
<1>4. Sorted(t)' = Sorted(t)
  BY DEF Same, Sorted, Rising
<1>5. Chain(t)' = Chain(t)
  BY <1>1, <1>2 DEF Chain, Precede
<1>6. NoGap(t) => NoGap(t)'
  BY <1>1, <1>2, PlacesType DEF NoGap
<1>7. FromServer(t)'
  BY <1>1, <1>2 DEF FromServer
<1> QED BY <1>3, <1>4, <1>5, <1>6, <1>7, Zenon DEF Kept

LEMMA ClientReceivesKeeps ==
    ASSUME TypeOK, Shapes, Hands, NEW t \in Tiles, FromServer(t), ClientReceives(t)
    PROVE  Kept(t)
<1>1. PICK i \in Times : /\ sent' = Set(sent, t, Append(sent[t], i))
                         /\ clientPC' = Set(clientPC, t, i)
  BY DEF ClientReceives, Newer
<1>2. clientPC[t] = 0
  BY DEF ClientReceives, Hands
<1>3. sent[t] \in Seq(Times) /\ sent'[t] = Append(sent[t], i) /\ clientPC'[t] = i
  BY <1>1 DEF Set, Shapes, TypeOK, DataTypeOK
<1>4. /\ heads' = heads /\ decoderQ' = decoderQ /\ decoderPC' = decoderPC
      /\ clientQ' = clientQ /\ decoder' = decoder /\ earliest' = earliest
  BY DEF ClientReceives, decoders, synchronizer, rounds
<1>5. /\ Held(t)' = Held(t) /\ Decoded(t)' = Decoded(t) /\ Decoding(t)' = Decoding(t)
      /\ Received(t)' = Received(t) /\ Receiving(t) = {0} /\ Receiving(t)' = {i}
  BY <1>2, <1>3, <1>4 DEF Held, Decoded, Decoding, Received, Receiving, Items
<1>6. /\ Len(sent[t]) \in Nat /\ Len(sent'[t]) = Len(sent[t]) + 1
      /\ sent'[t][Len(sent[t]) + 1] = i /\ \A j \in 1 .. Len(sent[t]) : sent'[t][j] = sent[t][j]
  BY <1>3, AppendTo
<1>7. SentBy(t)' = SentBy(t) \cup {i}
  BY <1>3, ItemsAfterAppend DEF SentBy, Items
<1>8. i \in Nat /\ i # 0
  BY Constants
<1>9. Behind(t)' \subseteq Behind(t) \cup {i} /\ Behind(t) \subseteq Behind(t)' \cup {0}
      /\ i \in Behind(t)'
  BY <1>5 DEF Behind
<1>10. FromServer(t)'
  BY <1>5, <1>7, <1>9 DEF FromServer
<1>11. InOrder(t)' => InOrder(t) /\ \A j \in SentBy(t) : j < i
  BY <1>6, SMTT(20) DEF InOrder, SentBy
<1>12. Sorted(t)' = Sorted(t)
  BY <1>4 DEF Sorted
<1>13. ASSUME InOrder(t)', Chain(t), NoGap(t) PROVE Chain(t)' /\ NoGap(t)'
  <2>1. \A x \in Held(t) \cup Decoded(t) \cup Behind(t) : x # 0 => x < i
    BY <1>11, <1>13 DEF FromServer
  <2>2. Chain(t)'
    BY <1>5, <1>13, <2>1 DEF Chain, Precede, Behind
  <2>3. NoGap(t)'
    BY <1>4, <1>5, <1>7, <1>9, <1>13, PlacesType, Constants DEF NoGap
  <2> QED BY <2>2, <2>3
<1> QED BY <1>10, <1>11, <1>12, <1>13, Zenon DEF Kept
LEMMA ClientPutsKeeps ==
    ASSUME TypeOK, Shapes, NEW t \in Tiles, FromServer(t), ClientPuts(t)
    PROVE  Kept(t)
<1> DEFINE p == clientPC[t]
<1>1. clientQ[t] \in Seq(Packets) /\ p \in Packets /\ p \in Nat
  BY Constants DEF Shapes, TypeOK, DataTypeOK
<1>2. clientQ'[t] = Append(clientQ[t], p) /\ clientPC'[t] = 0
  BY DEF ClientPuts, Set, Shapes, TypeOK, DataTypeOK
<1>3. /\ heads' = heads /\ decoderQ' = decoderQ /\ decoderPC' = decoderPC
      /\ sent' = sent /\ decoder' = decoder /\ earliest' = earliest
  BY DEF ClientPuts, decoders, synchronizer, rounds
<1>4. Items(Append(clientQ[t], p)) = Items(clientQ[t]) \cup {p}
  BY <1>1, ItemsAfterAppend
<1>5. /\ Held(t)' = Held(t) /\ Decoded(t)' = Decoded(t) /\ Decoding(t)' = Decoding(t)
      /\ SentBy(t)' = SentBy(t) /\ InOrder(t)' = InOrder(t)
  BY <1>3 DEF Held, Decoded, Decoding, Items, SentBy, InOrder
<1>6. Received(t)' = Received(t) \cup {p} /\ Receiving(t) = {p} /\ Receiving(t)' = {0}
  BY <1>2, <1>4 DEF Received, Receiving, Items
<1>7. Behind(t)' = Behind(t) \cup {0}
  BY <1>5, <1>6 DEF Behind
<1>8. FromServer(t)'
  BY <1>5, <1>7 DEF FromServer
<1>9. ASSUME Sorted(t), Chain(t) PROVE Sorted(t)'
  <2>1. Precede(Items(clientQ[t]), {p})
    BY <1>6, <1>9 DEF Chain, Received
  <2>2. Rising(Append(clientQ[t], p))
    BY <1>1, <1>9, <2>1, PlacesType, RisingAppend DEF Sorted
  <2> QED BY <1>2, <1>3, <1>9, <2>2 DEF Sorted
<1>10. ASSUME Chain(t) PROVE Chain(t)'
  BY <1>5, <1>6, <1>7, <1>10 DEF Chain, Precede
<1>11. ASSUME NoGap(t) PROVE NoGap(t)'
  BY <1>3, <1>5, <1>7, <1>11 DEF NoGap
<1> QED BY <1>5, <1>8, <1>9, <1>10, <1>11, Zenon DEF Kept

\* A None that is put into the queue, or finds no room.
LEMMA EndOfClientKeeps ==
    ASSUME TypeOK, Shapes, NEW t \in Tiles, FromServer(t),
           clientQ'[t] = Offered(clientQ[t], ClientQueue, 0), UNCHANGED clientPC,
           UNCHANGED <<sent, heads, decoderQ, decoderPC, decoder, earliest>>
    PROVE  Kept(t)
<1>1. clientQ[t] \in Seq(Packets) /\ 0 \in Packets
  BY Constants DEF Shapes
<1>2. Items(Append(clientQ[t], 0)) = Items(clientQ[t]) \cup {0}
  BY <1>1, ItemsAfterAppend
<1>3. /\ Held(t)' = Held(t) /\ Decoded(t)' = Decoded(t) /\ Decoding(t)' = Decoding(t)
      /\ Receiving(t)' = Receiving(t) /\ SentBy(t)' = SentBy(t) /\ InOrder(t)' = InOrder(t)
  BY DEF Held, Decoded, Decoding, Receiving, Items, SentBy, InOrder
<1>4. Received(t)' = Received(t) \/ Received(t)' = Received(t) \cup {0}
  <2>1. Received(t)' = Items(Offered(clientQ[t], ClientQueue, 0))
    BY DEF Received, Items
  <2> QED BY <1>2, <2>1 DEF Offered, Received
<1>5. Behind(t)' \subseteq Behind(t) \cup {0} /\ Behind(t) \subseteq Behind(t)'
  BY <1>3, <1>4 DEF Behind
<1>6. FromServer(t)'
  BY <1>3, <1>5 DEF FromServer
<1>7. ASSUME Sorted(t) PROVE Sorted(t)'
  <2>1. Precede(Items(clientQ[t]), {0})
    BY DEF Precede
  <2>2. Rising(Append(clientQ[t], 0))
    BY <1>1, <1>7, <2>1, PlacesType, RisingAppend DEF Sorted
  <2> QED BY <1>7, <2>2 DEF Sorted, Offered
<1>8. ASSUME Chain(t) PROVE Chain(t)'
  BY <1>3, <1>4, <1>5, <1>8 DEF Chain, Precede
<1>9. ASSUME NoGap(t) PROVE NoGap(t)'
  BY <1>3, <1>5, <1>9 DEF NoGap
<1> QED BY <1>3, <1>6, <1>7, <1>8, <1>9, Zenon DEF Kept

LEMMA DecoderTakesKeeps ==
    ASSUME TypeOK, Shapes, Hands, NEW t \in Tiles, FromServer(t), DecoderTakes(t)
    PROVE  Kept(t)
<1> DEFINE h == Head(clientQ[t])
<1>1. clientQ[t] \in Seq(Packets) /\ clientQ[t] # <<>>
  BY DEF DecoderTakes, Shapes
<1>2. h \in Packets /\ h \in Nat /\ Tail(clientQ[t]) \in Seq(Packets)
  BY <1>1, TailOf, Constants
<1>3. decoderPC[t] = 0
  BY DEF DecoderTakes, Hands
<1>4. clientQ'[t] = Tail(clientQ[t]) /\ decoderPC'[t] = h
  BY <1>3 DEF DecoderTakes, Set, Shapes, TypeOK, DataTypeOK
<1>5. /\ heads' = heads /\ decoderQ' = decoderQ /\ clientPC' = clientPC
      /\ sent' = sent /\ earliest' = earliest
  BY DEF DecoderTakes, synchronizer, rounds
<1>6. /\ Held(t)' = Held(t) /\ Decoded(t)' = Decoded(t) /\ Receiving(t)' = Receiving(t)
      /\ SentBy(t)' = SentBy(t) /\ InOrder(t)' = InOrder(t)
  BY <1>5 DEF Held, Decoded, Receiving, Items, SentBy, InOrder
<1>7. Items(clientQ[t]) = {h} \cup Items(Tail(clientQ[t]))
  BY <1>1, ItemsAfterTail
<1>8. /\ Decoding(t) = {0} /\ Decoding(t)' = {h} /\ Received(t) = {h} \cup Received(t)'
  BY <1>3, <1>4, <1>7 DEF Decoding, Received, Items
<1>9. Behind(t) = Behind(t)' \cup {0}
  BY <1>6, <1>8 DEF Behind
<1>10. FromServer(t)'
  BY <1>6, <1>9 DEF FromServer
<1>11. ASSUME Sorted(t) PROVE Sorted(t)' /\ Precede({h}, Received(t)')
  <2>1. Rising(Tail(clientQ[t])) /\ Precede({h}, Items(Tail(clientQ[t])))
    BY <1>1, <1>11, PlacesType, RisingTail DEF Sorted
  <2> QED BY <1>4, <1>5, <1>11, <2>1 DEF Sorted, Received, Items
<1>12. ASSUME Sorted(t), Chain(t) PROVE Chain(t)'
  <2>1. Precede({h}, Received(t)')
    BY <1>11, <1>12
  <2> QED BY <1>6, <1>8, <1>9, <1>12, <2>1 DEF Chain, Precede
<1>13. ASSUME NoGap(t) PROVE NoGap(t)'
  <2>1. \A i \in SentBy(t) : i # 0
    BY PlacesType, Constants
  <2>2. decoder[t] # "exited"
    BY DEF DecoderTakes
  <2> QED BY <1>5, <1>6, <1>9, <1>13, <2>1, <2>2 DEF NoGap
<1> QED BY <1>6, <1>10, <1>11, <1>12, <1>13, Zenon DEF Kept

LEMMA DecoderPutsKeeps ==
    ASSUME TypeOK, Shapes, Hands, NEW t \in Tiles, FromServer(t), DecoderPuts(t)
    PROVE  Kept(t)
<1> DEFINE p == decoderPC[t]
<1>1. p \in Times /\ p \in Nat /\ decoderQ[t] \in Seq(Times)
  <2>1. p \in Packets /\ p # 0
    BY DEF DecoderPuts, Hands, TypeOK, DataTypeOK
  <2> QED BY <2>1, Constants DEF Shapes
<1>2. decoderQ'[t] = Append(decoderQ[t], p) /\ decoderPC'[t] = 0
  BY DEF DecoderPuts, Set, Shapes, TypeOK, DataTypeOK
<1>3. /\ heads' = heads /\ clientQ' = clientQ /\ clientPC' = clientPC
      /\ sent' = sent /\ earliest' = earliest /\ decoder[t] # "exited"
  BY DEF DecoderPuts, clients, synchronizer, rounds
<1>4. /\ Held(t)' = Held(t) /\ Received(t)' = Received(t) /\ Receiving(t)' = Receiving(t)
      /\ SentBy(t)' = SentBy(t) /\ InOrder(t)' = InOrder(t)
  BY <1>3 DEF Held, Received, Receiving, Items, SentBy, InOrder
<1>5. Items(Append(decoderQ[t], p)) = Items(decoderQ[t]) \cup {p}
  BY <1>1, ItemsAfterAppend
<1>6. Decoding(t) = {p} /\ Decoding(t)' = {0} /\ Decoded(t)' = Decoded(t) \cup {p}
  BY <1>2, <1>5 DEF Decoding, Decoded, Items
<1>7. Behind(t)' \cup {p} = Behind(t) \cup {0}
  BY <1>4, <1>6 DEF Behind
<1>8. FromServer(t)'
  BY <1>4, <1>6, <1>7 DEF FromServer
<1>9. ASSUME Sorted(t), Chain(t) PROVE Sorted(t)'
  <2>1. Precede(Items(decoderQ[t]), {p})
    BY <1>6, <1>9 DEF Chain, Decoded, Precede, Behind
  <2>2. Rising(Append(decoderQ[t], p))
    BY <1>1, <1>9, <2>1, PlacesType, RisingAppend DEF Sorted
  <2> QED BY <1>2, <1>3, <1>9, <2>2 DEF Sorted
<1>10. ASSUME Chain(t) PROVE Chain(t)'
  BY <1>4, <1>6, <1>7, <1>10 DEF Chain, Precede, Behind
<1>11. ASSUME NoGap(t) PROVE NoGap(t)'
  <2>1. \A i \in SentBy(t) : i # 0
    BY PlacesType, Constants
  <2> QED BY <1>3, <1>4, <1>6, <1>7, <1>11, <2>1 DEF NoGap
<1> QED BY <1>4, <1>8, <1>9, <1>10, <1>11, Zenon DEF Kept

\* The cloud that cannot be decoded is later than all that still comes.
LEMMA DecoderDiesKeeps ==
    ASSUME TypeOK, Shapes, NEW t \in Tiles, FromServer(t), DecoderDies(t)
    PROVE  Kept(t)
<1> DEFINE p == decoderPC[t]
<1>1. decoderPC'[t] = 0 /\ decoder'[t] = "exited" /\ decoder[t] # "exited"
  BY DEF DecoderDies, Set, TypeOK, ThreadsTypeOK, DataTypeOK
<1>2. /\ heads' = heads /\ clientQ' = clientQ /\ clientPC' = clientPC
      /\ sent' = sent /\ earliest' = earliest /\ decoderQ' = decoderQ
  BY DEF DecoderDies, clients, synchronizer, rounds
<1>3. /\ Held(t)' = Held(t) /\ Received(t)' = Received(t) /\ Receiving(t)' = Receiving(t)
      /\ SentBy(t)' = SentBy(t) /\ InOrder(t)' = InOrder(t) /\ Decoded(t)' = Decoded(t)
      /\ Decoding(t)' = {0} /\ Sorted(t)' = Sorted(t)
  BY <1>1, <1>2
  DEF Held, Received, Receiving, Items, SentBy, InOrder, Decoded, Decoding, Sorted
<1>4. Behind(t)' \cup {p} = Behind(t) \cup {0}
  BY <1>3 DEF Behind, Decoding
<1>5. FromServer(t)'
  BY <1>3, <1>4 DEF FromServer
<1>6. ASSUME Chain(t) PROVE Chain(t)'
  BY <1>3, <1>4, <1>6 DEF Chain, Precede, Behind
<1>7. ASSUME Chain(t), NoGap(t) PROVE NoGap(t)'
  <2>1. ASSUME NEW i \in SentBy(t)
        PROVE  \/ i < earliest
               \/ i \in Held(t) \cup Decoded(t) \cup Behind(t)'
               \/ \A x \in Held(t) \cup Decoded(t) : x < i
    <3>1. i # 0 /\ i \in Nat
      BY PlacesType, Constants
    <3>2. CASE i \in Behind(t)
      BY <1>4, <1>7, <3>1, <3>2, PlacesType DEF Chain, Precede
    <3> QED BY <1>1, <1>7, <3>2 DEF NoGap
  <2> QED BY <1>1, <1>2, <1>3, <2>1 DEF NoGap
<1> QED BY <1>3, <1>5, <1>6, <1>7, Zenon DEF Kept
LEMMA SyncTestsKeeps ==
    ASSUME TypeOK, Shapes, NEW t \in Tiles, FromServer(t), SyncTests
    PROVE  Kept(t)
<1> DEFINE h == heads[t]
<1>1. heads'[t] = IF h < earliest THEN 0 ELSE h
  BY DEF SyncTests
<1>2. /\ clientQ' = clientQ /\ clientPC' = clientPC /\ decoderPC' = decoderPC
      /\ sent' = sent /\ earliest' = earliest /\ decoderQ' = decoderQ /\ decoder' = decoder
  BY DEF SyncTests, clients, decoders
<1>3. /\ Received(t)' = Received(t) /\ Receiving(t)' = Receiving(t)
      /\ SentBy(t)' = SentBy(t) /\ InOrder(t)' = InOrder(t) /\ Decoded(t)' = Decoded(t)
      /\ Decoding(t)' = Decoding(t) /\ Sorted(t)' = Sorted(t)
  BY <1>2
  DEF Received, Receiving, Items, SentBy, InOrder, Decoded, Decoding, Sorted
<1>4. Behind(t)' = Behind(t)
  BY <1>3 DEF Behind
<1>5. Held(t) = {h} /\ (Held(t)' = {0} \/ Held(t)' = {h})
  BY <1>1 DEF Held
<1>6. FromServer(t)'
  BY <1>3, <1>4, <1>5 DEF FromServer
<1>7. ASSUME Chain(t) PROVE Chain(t)'
  BY <1>3, <1>4, <1>5, <1>7 DEF Chain, Precede
<1>8. ASSUME NoGap(t) PROVE NoGap(t)'
  <2> SUFFICES ASSUME NEW i \in SentBy(t)
               PROVE  \/ i < earliest
                      \/ i \in Held(t)' \cup Decoded(t) \cup Behind(t)
                      \/ decoder[t] = "exited" /\ \A x \in Held(t)' \cup Decoded(t) : x < i
    BY <1>2, <1>3, <1>4 DEF NoGap
  <2>1. i # 0 /\ i \in Nat
    BY PlacesType, Constants
  <2>2. CASE i \in Held(t)
    BY <1>1, <1>5, <2>2 DEF Held
  <2>3. CASE decoder[t] = "exited" /\ \A x \in Held(t) \cup Decoded(t) : x < i
    <3>1. \A x \in Held(t)' : x < i
      BY <1>5, <2>1, <2>3
    <3> QED BY <2>3, <3>1
  <2> QED BY <1>8, <2>2, <2>3 DEF NoGap
<1> QED BY <1>3, <1>6, <1>7, <1>8, Zenon DEF Kept

LEMMA SyncTakesKeeps ==
    ASSUME TypeOK, Shapes, Round, NEW t \in Tiles, FromServer(t), SyncTakes, t = Turn
    PROVE  Kept(t)
<1> DEFINE h == Head(decoderQ[t])
<1>1. decoderQ[t] \in Seq(Times) /\ decoderQ[t] # <<>>
  BY DEF SyncTakes, Shapes
<1>2. /\ h \in Times /\ h \in Nat /\ h # 0 /\ Tail(decoderQ[t]) \in Seq(Times)
      /\ earliest \in Nat
  BY <1>1, TailOf, Constants, Numbers
<1>3. heads[t] = 0
  BY TurnOf DEF SyncTakes, Round
<1>4. decoderQ'[t] = Tail(decoderQ[t])
  BY DEF SyncTakes, Set, Shapes
<1>5. heads'[t] = IF h >= earliest THEN h ELSE 0
  BY <1>2, <1>3 DEF SyncTakes, Set, TypeOK, DataTypeOK
<1>6. /\ clientQ' = clientQ /\ clientPC' = clientPC /\ decoderPC' = decoderPC
      /\ sent' = sent /\ earliest' = earliest /\ decoder' = decoder
  BY DEF SyncTakes, clients
<1>7. /\ Received(t)' = Received(t) /\ Receiving(t)' = Receiving(t)
      /\ SentBy(t)' = SentBy(t) /\ InOrder(t)' = InOrder(t)
      /\ Decoding(t)' = Decoding(t)
  BY <1>6 DEF Received, Receiving, Items, SentBy, InOrder, Decoding
<1>8. Behind(t)' = Behind(t)
  BY <1>7 DEF Behind
<1>9. Items(decoderQ[t]) = {h} \cup Items(Tail(decoderQ[t]))
  BY <1>1, ItemsAfterTail
<1>10. Decoded(t) = {h} \cup Decoded(t)' /\ Held(t) = {0} /\ (Held(t)' = {h} \/ Held(t)' = {0})
  <2>1. Decoded(t) = {h} \cup Decoded(t)'
    BY <1>4, <1>9 DEF Decoded, Items
  <2>2. Held(t) = {0} /\ (Held(t)' = {h} \/ Held(t)' = {0})
    BY <1>3, <1>5 DEF Held
  <2> QED BY <2>1, <2>2
<1>11. FromServer(t)'
  BY <1>7, <1>8, <1>10 DEF FromServer
<1>12. ASSUME Sorted(t) PROVE Sorted(t)' /\ Precede({h}, Decoded(t)')
  <2>1. Rising(Tail(decoderQ[t])) /\ Precede({h}, Items(Tail(decoderQ[t])))
    BY <1>1, <1>12, PlacesType, RisingTail DEF Sorted
  <2> QED BY <1>4, <1>6, <1>12, <2>1 DEF Sorted, Decoded, Items
<1>13. ASSUME Sorted(t), Chain(t) PROVE Chain(t)'
  <2>1. Precede({h}, Decoded(t)')
    BY <1>12, <1>13
  <2> QED BY <1>7, <1>8, <1>10, <1>13, <2>1 DEF Chain, Precede
<1>14. ASSUME NoGap(t) PROVE NoGap(t)'
  <2> SUFFICES ASSUME NEW i \in SentBy(t)
               PROVE  \/ i < earliest
                      \/ i \in Held(t)' \cup Decoded(t)' \cup Behind(t)
                      \/ decoder[t] = "exited" /\ \A x \in Held(t)' \cup Decoded(t)' : x < i
    BY <1>6, <1>7, <1>8 DEF NoGap
  <2>1. i # 0 /\ i \in Nat
    BY PlacesType, Constants
  <2>2. CASE i = h
    BY <1>2, <1>5, <2>2 DEF Held
  <2>3. CASE i \in Held(t) \cup Decoded(t) \cup Behind(t)
    BY <1>10, <2>1, <2>2, <2>3
  <2>4. CASE decoder[t] = "exited" /\ \A x \in Held(t) \cup Decoded(t) : x < i
    <3>1. \A x \in Held(t)' \cup Decoded(t)' : x < i
      BY <1>10, <2>1, <2>4
    <3> QED BY <2>4, <3>1
  <2> QED BY <1>14, <2>3, <2>4 DEF NoGap
<1> QED BY <1>7, <1>11, <1>12, <1>13, <1>14, Zenon DEF Kept

-----------------------------------------------------------------------------
(* Every tile's way in every step                                          *)

\* What a step of tile t, or of none, does not touch.
LEMMA OthersSame ==
    ASSUME TypeOK, Shapes, NEW t \in Tiles, NEW s \in Tiles,
           \/ Client(s) /\ s # t
           \/ Decoder(s) /\ s # t
           \/ SyncTakes /\ Turn # t
           \/ StopClient /\ joining # t
           \/ ClientTests(t) \/ ClientDies(t) \/ DecoderTests(t)
           \/ SyncLeaves \/ SyncSkips \/ SyncGets \/ SyncRetries \/ SyncPuts
           \/ AppGets \/ AppTakes \/ Start \/ Stop \/ StopJoinsClient \/ StopJoinsSync
           \/ UNCHANGED vars
    PROVE  Same(t) /\ (decoder[t] = "exited" => decoder'[t] = "exited")
<1> USE DEF Same
<1>1. CASE Client(s) /\ s # t
  BY <1>1 DEF Client, ClientTests, ClientReceives, ClientPuts, ClientLeaves, ClientDies, Set,
     decoders, synchronizer, rounds, Shapes, TypeOK, DataTypeOK
<1>2. CASE Decoder(s) /\ s # t
  BY <1>2 DEF Decoder, DecoderTests, DecoderTakes, DecoderPuts, DecoderDies, Set, clients,
     synchronizer, rounds, Shapes, TypeOK, ThreadsTypeOK, DataTypeOK
<1>3. CASE SyncTakes /\ Turn # t
  BY <1>3 DEF SyncTakes, Set, clients, Shapes, TypeOK, DataTypeOK
<1>4. CASE StopClient /\ joining # t
  BY <1>4 DEF StopClient, Set, decoders, synchronizer, rounds, Shapes
<1>5. CASE ClientTests(t) \/ ClientDies(t) \/ DecoderTests(t)
  BY <1>5 DEF ClientTests, ClientDies, DecoderTests, clients, decoders, synchronizer, rounds
<1>6. CASE SyncLeaves \/ SyncSkips \/ SyncGets \/ SyncRetries \/ SyncPuts
  BY <1>6 DEF SyncLeaves, SyncSkips, SyncGets, SyncRetries, SyncPuts, clients, decoders,
     rounds
<1>7. CASE \/ AppGets \/ AppTakes \/ Start \/ Stop \/ StopJoinsClient \/ StopJoinsSync
           \/ UNCHANGED vars
  BY <1>7 DEF AppGets, AppTakes, Start, Stop, StopJoinsClient, StopJoinsSync, vars, clients,
     decoders, synchronizer, rounds
<1> QED BY <1>1, <1>2, <1>3, <1>4, <1>5, <1>6, <1>7
LEMMA EarliestStays ==
    ASSUME ~SyncPuts, [Next]_vars
    PROVE  earliest' = earliest
<1>1. ASSUME NEW t \in Tiles, Client(t) \/ Decoder(t) PROVE earliest' = earliest
  BY <1>1 DEF Client, ClientTests, ClientReceives, ClientPuts, ClientLeaves, ClientDies,
     Decoder, DecoderTests, DecoderTakes, DecoderPuts, DecoderDies, synchronizer, rounds
<1>2. ASSUME SyncTests \/ SyncLeaves \/ SyncSkips \/ SyncGets \/ SyncTakes \/ SyncRetries
      PROVE  earliest' = earliest
  BY <1>2 DEF SyncTests, SyncLeaves, SyncSkips, SyncGets, SyncTakes, SyncRetries, rounds
<1>3. ASSUME AppGets \/ AppTakes \/ Start \/ Stop \/ Stopping \/ UNCHANGED vars
      PROVE  earliest' = earliest
  BY <1>3 DEF AppGets, AppTakes, Start, Stop, Stopping, StopClient, StopJoinsClient,
     StopJoinsSync, vars, synchronizer, rounds
<1> QED BY <1>1, <1>2, <1>3 DEF Next, Synchronizer

LEMMA EarliestRises ==
    ASSUME TypeOK, Round, [Next]_vars
    PROVE  earliest' \in Nat /\ earliest <= earliest'
<1>1. earliest \in Nat
  BY Numbers
<1>2. CASE SyncPuts
  <2>1. /\ \A t \in Tiles : heads[t] >= earliest
        /\ earliest' = Oldest + 1
    BY <1>2 DEF SyncPuts, Round
  <2>2. PICK t \in Tiles : heads[t] = Oldest
    BY OldestHead
  <2> HIDE DEF Oldest
  <2>3. earliest' = heads[t] + 1 /\ heads[t] >= earliest
    BY <2>1, <2>2
  <2>4. heads[t] \in Nat
    BY Numbers
  <2> QED BY <1>1, <2>3, <2>4
<1> QED BY <1>1, <1>2, EarliestStays

LEMMA EveryTileKept ==
    ASSUME TypeOK, Shapes, Hands, Round, Origin, [Next]_vars, NEW t \in Tiles
    PROVE  Kept(t)
<1>1. FromServer(t)
  BY DEF Origin
<1>2. earliest' \in Nat /\ earliest <= earliest'
  BY EarliestRises
<1>3. ASSUME NEW s \in Tiles, Client(s), s # t PROVE Kept(t)
  BY <1>1, <1>2, <1>3, OthersSame, SameIsKept
<1>4. ASSUME NEW s \in Tiles, Decoder(s), s # t PROVE Kept(t)
  BY <1>1, <1>2, <1>4, OthersSame, SameIsKept
<1>5. CASE Client(t)
  <2>1. CASE ClientTests(t) \/ ClientDies(t)
    BY <1>1, <1>2, <2>1, OthersSame, SameIsKept
  <2>2. CASE ClientLeaves(t)
    <3>1. /\ clientQ'[t] = Offered(clientQ[t], ClientQueue, 0)
          /\ UNCHANGED clientPC
          /\ UNCHANGED <<sent, heads, decoderQ, decoderPC, decoder, earliest>>
      BY <2>2 DEF ClientLeaves, Set, Shapes, decoders, synchronizer, rounds
    <3> QED BY <1>1, <3>1, EndOfClientKeeps
  <2> QED BY <1>1, <1>5, <2>1, <2>2, ClientReceivesKeeps, ClientPutsKeeps DEF Client
<1>6. CASE Decoder(t)
  <2>1. CASE DecoderTests(t)
    BY <1>1, <1>2, <2>1, OthersSame, SameIsKept
  <2> QED
    BY <1>1, <1>6, <2>1, DecoderTakesKeeps, DecoderPutsKeeps, DecoderDiesKeeps DEF Decoder
<1>7. CASE Synchronizer
  <2>1. CASE SyncLeaves \/ SyncSkips \/ SyncGets \/ SyncRetries \/ SyncPuts
    BY <1>1, <1>2, <2>1, OthersSame, SameIsKept
  <2>2. CASE SyncTakes
    BY <1>1, <1>2, <2>2, OthersSame, SameIsKept, SyncTakesKeeps
  <2> QED BY <1>1, <1>7, <2>1, <2>2, SyncTestsKeeps DEF Synchronizer
<1>8. CASE Stopping
  <2>1. CASE StopClient /\ joining = t
    <3>1. /\ clientQ'[t] = Offered(clientQ[t], ClientQueue, 0)
          /\ UNCHANGED clientPC
          /\ UNCHANGED <<sent, heads, decoderQ, decoderPC, decoder, earliest>>
      BY <2>1 DEF StopClient, Set, Shapes, decoders, synchronizer, rounds
    <3> QED BY <1>1, <3>1, EndOfClientKeeps
  <2>2. CASE StopClient /\ joining # t
    BY <1>1, <1>2, <2>2, OthersSame, SameIsKept
  <2>3. CASE StopJoinsClient \/ StopJoinsSync
    BY <1>1, <1>2, <2>3, OthersSame, SameIsKept
  <2> QED BY <1>8, <2>1, <2>2, <2>3 DEF Stopping
<1>9. CASE AppGets \/ AppTakes \/ Start \/ Stop \/ UNCHANGED vars
  BY <1>1, <1>2, <1>9, OthersSame, SameIsKept
<1> QED BY <1>3, <1>4, <1>5, <1>6, <1>7, <1>8, <1>9 DEF Next

LEMMA OriginStep ==
    ASSUME TypeOK, Shapes, Hands, Round, Origin, [Next]_vars
    PROVE  Origin'
BY EveryTileKept DEF Kept, Origin

LEMMA PipelineStep ==
    ASSUME TypeOK, Shapes, Hands, Round, Origin, Pipeline, [Next]_vars
    PROVE  Pipeline' /\ (AllInOrder' => AllInOrder)
BY EveryTileKept DEF Kept, AllInOrder, Pipeline
-----------------------------------------------------------------------------
(* What is delivered                                                       *)

\* What the synchronizer makes.
Joint == [ts |-> Oldest, tiles |-> {t \in Tiles : heads[t] = Oldest}]

LEMMA DeliveredItems == 
    ASSUME outputQ \in Seq(Joined), got \in Seq(Joined)
    PROVE  Delivered = (Items(got) \cup Items(outputQ)) \ {None}
<1>1. Items(Results) = Items(got) \cup Items(outputQ)
  BY ItemsOfBoth DEF Results
<1> QED BY <1>1 DEF Delivered, Items

\* When all heads are there, they are not earlier than what has been delivered.
LEMMA AllHeads ==
    ASSUME TypeOK, Round, SyncPuts
    PROVE  /\ Oldest \in Nat /\ Oldest # 0 /\ earliest <= Oldest /\ earliest' = Oldest + 1
           /\ \A t \in Tiles : heads[t] # 0 /\ Oldest <= heads[t]
           /\ Joint \in Joined /\ Joint # None
<1>1. \A t \in Tiles : heads[t] # 0 /\ heads[t] >= earliest
  BY DEF SyncPuts, Round
<1>2. PICK t \in Tiles : heads[t] = Oldest
  BY OldestHead
<1>3. \A s \in Tiles : Oldest <= heads[s]
  BY OldestHead
<1>4. Oldest \in Packets
  BY OldestHead
<1>5. earliest' = Oldest + 1
  BY DEF SyncPuts
<1>6. Joint \in Joined
  BY <1>4 DEF Joint, Joined
<1>7. Joint.ts = Oldest
  BY DEF Joint
<1> HIDE DEF Oldest
<1>8. Oldest # 0 /\ earliest <= Oldest /\ Oldest \in Nat
  BY <1>1, <1>2, <1>4, Numbers, Constants
<1>9. Joint # None
  BY <1>7, <1>8 DEF None
<1> QED BY <1>1, <1>3, <1>5, <1>6, <1>8, <1>9

\* Only SyncPuts delivers.
LEMMA DeliveredStep ==
    ASSUME TypeOK, Shapes, Hands, Round, [Next]_vars
    PROVE  /\ SyncPuts => Delivered' = Delivered \cup {Joint}
           /\ ~SyncPuts => Delivered' = Delivered
<1>1. outputQ \in Seq(Joined) /\ got \in Seq(Joined) /\ None \in Joined
  BY Constants DEF TypeOK, QueuesTypeOK, DataTypeOK
<1>2. TypeOK'
  BY TypeStep DEF Round
<1>3. outputQ' \in Seq(Joined) /\ got' \in Seq(Joined)
  BY <1>2 DEF TypeOK, QueuesTypeOK, DataTypeOK
<1>4. Delivered = (Items(got) \cup Items(outputQ)) \ {None}
  BY <1>1, DeliveredItems
<1>5. Delivered' = (Items(got') \cup Items(outputQ')) \ {None}
  <2>1. Items(got' \o outputQ') = Items(got') \cup Items(outputQ')
    BY <1>3, ItemsOfBoth
  <2>2. Delivered' = Items(got' \o outputQ') \ {None}
    BY DEF Delivered, Results, Items
  <2> QED BY <2>1, <2>2
<1>6. CASE SyncPuts
  <2>1. outputQ' = Append(outputQ, Joint) /\ got' = got
    BY <1>6 DEF SyncPuts, Joint, application
  <2>2. Items(Append(outputQ, Joint)) = Items(outputQ) \cup {Joint}
    BY <1>1, <1>6, AllHeads, ItemsAfterAppend
  <2> QED BY <1>4, <1>5, <1>6, <2>1, <2>2, AllHeads
<1>7. CASE SyncLeaves \/ StopJoinsClient
  <2>1. (outputQ' = outputQ \/ outputQ' = Append(outputQ, None)) /\ got' = got
    BY <1>7 DEF SyncLeaves, StopJoinsClient, Offered, application
  <2>2. Items(Append(outputQ, None)) = Items(outputQ) \cup {None}
    BY <1>1, ItemsAfterAppend
  <2>3. Delivered' = Delivered
    BY <1>4, <1>5, <2>1, <2>2
  <2>4. ~SyncPuts
    BY <1>7 DEF SyncLeaves, StopJoinsClient, SyncPuts
  <2> QED BY <2>3, <2>4
<1>8. CASE AppTakes
  <2> DEFINE h == Head(outputQ)
  <2>1. Items(outputQ) = {h} \cup Items(Tail(outputQ)) /\ h \in Joined
    BY <1>1, <1>8, ItemsAfterTail, TailOf DEF AppTakes
  <2>2. Items(Append(got, h)) = Items(got) \cup {h}
    BY <1>1, <2>1, ItemsAfterAppend
  <2>3. outputQ' = Tail(outputQ) /\ got' = IF h = None THEN got ELSE Append(got, h)
    BY <1>8 DEF AppTakes
  <2> HIDE DEF h
  <2>4. Delivered' = Delivered
    BY <1>4, <1>5, <2>1, <2>2, <2>3
  <2>5. ~SyncPuts
    BY <1>8 DEF AppTakes, SyncPuts
  <2> QED BY <2>4, <2>5
<1>9. ASSUME outputQ' = outputQ, got' = got, ~SyncPuts PROVE Delivered' = Delivered
  BY <1>4, <1>5, <1>9
<1>10. ASSUME NEW t \in Tiles, Client(t) \/ Decoder(t)
       PROVE  outputQ' = outputQ /\ got' = got
  BY <1>10 DEF Client, ClientTests, ClientReceives, ClientPuts, ClientLeaves, ClientDies,
     Decoder, DecoderTests, DecoderTakes, DecoderPuts, DecoderDies, synchronizer, application
<1>11. ASSUME SyncTests \/ SyncSkips \/ SyncGets \/ SyncTakes \/ SyncRetries
       PROVE  outputQ' = outputQ /\ got' = got
  BY <1>11 DEF SyncTests, SyncSkips, SyncGets, SyncTakes, SyncRetries, application
<1>12. ASSUME AppGets \/ Start \/ Stop \/ StopClient \/ StopJoinsSync \/ UNCHANGED vars
       PROVE  outputQ' = outputQ /\ got' = got
  BY <1>12 DEF AppGets, Start, Stop, StopClient, StopJoinsSync, vars, synchronizer,
     application
<1> QED BY <1>6, <1>7, <1>8, <1>9, <1>10, <1>11, <1>12 DEF Next, Synchronizer, Stopping
\* Each server only sends more, in the order of time what is no earlier than
\* the time the synchronizer is at.
LEMMA SentStep ==
    ASSUME TypeOK, Shapes, Past, [Next]_vars, NEW t \in Tiles
    PROVE  /\ SentBy(t) \subseteq SentBy(t)'
           /\ InOrder(t)' => \A i \in SentBy(t)' : i \in SentBy(t) \/ i >= earliest
<1>1. CASE ClientReceives(t)
  <2>1. PICK i \in Times : sent' = Set(sent, t, Append(sent[t], i))
    BY <1>1 DEF ClientReceives, Newer
  <2>2. sent[t] \in Seq(Times) /\ sent'[t] = Append(sent[t], i) /\ i \in Nat
    BY <2>1, Constants DEF Set, Shapes
  <2>3. SentBy(t)' = SentBy(t) \cup {i}
    BY <2>2, ItemsAfterAppend DEF SentBy, Items
  <2>4. /\ Len(sent[t]) \in Nat /\ Len(sent'[t]) = Len(sent[t]) + 1
        /\ sent'[t][Len(sent[t]) + 1] = i
        /\ \A j \in 1 .. Len(sent[t]) : sent'[t][j] = sent[t][j]
    BY <2>2, AppendTo
  <2>5. InOrder(t)' => \A j \in SentBy(t) : j < i
    BY <2>4 DEF InOrder, SentBy
  <2>6. earliest \in Nat /\ SentBy(t) \subseteq Nat
    BY PlacesType
  <2>7. InOrder(t)' => i >= earliest
    BY <2>2, <2>5, <2>6 DEF Past
  <2> QED BY <2>3, <2>7
<1>2. ASSUME sent'[t] = sent[t] PROVE SentBy(t)' = SentBy(t)
  BY <1>2 DEF SentBy
<1>3. ASSUME NEW s \in Tiles, Client(s), ~ClientReceives(t) PROVE sent'[t] = sent[t]
  BY <1>3 DEF Client, ClientTests, ClientReceives, ClientPuts, ClientLeaves, ClientDies, Set,
     Shapes
<1>4. ASSUME NEW s \in Tiles, Decoder(s) PROVE sent'[t] = sent[t]
  BY <1>4 DEF Decoder, DecoderTests, DecoderTakes, DecoderPuts, DecoderDies
<1>5. ASSUME Synchronizer PROVE sent'[t] = sent[t]
  BY <1>5 DEF Synchronizer, SyncTests, SyncLeaves, SyncSkips, SyncGets, SyncTakes,
     SyncRetries, SyncPuts
<1>6. ASSUME AppGets \/ AppTakes \/ Start \/ Stop \/ Stopping \/ UNCHANGED vars
      PROVE  sent'[t] = sent[t]
  BY <1>6 DEF AppGets, AppTakes, Start, Stop, Stopping, StopClient, StopJoinsClient,
     StopJoinsSync, vars
<1> QED BY <1>1, <1>2, <1>3, <1>4, <1>5, <1>6 DEF Next

LEMMA PastStep ==
    ASSUME TypeOK, Shapes, Hands, Round, Origin, Past, [Next]_vars
    PROVE  Past'
<1>1. earliest \in Nat /\ earliest' \in Nat /\ earliest <= earliest'
  BY EarliestRises, Numbers
<1>2. \A d \in Delivered : d.ts \in Nat
  <2>1. Delivered \subseteq Joined
    BY DeliveredItems, ItemsType DEF TypeOK, QueuesTypeOK, DataTypeOK
  <2> QED BY <2>1, Constants DEF Joined
<1>3. CASE SyncPuts
  <2>1. /\ Oldest \in Nat /\ earliest' = Oldest + 1 /\ Joint.ts = Oldest
        /\ \A t \in Tiles : heads[t] # 0 /\ Oldest <= heads[t] /\ heads[t] \in Nat
    BY <1>3, AllHeads, Numbers DEF Joint
  <2>2. Delivered' = Delivered \cup {Joint}
    BY <1>3, DeliveredStep
  <2> HIDE DEF Oldest
  <2>3. \A d \in Delivered' : d.ts < earliest'
    BY <1>1, <1>2, <2>1, <2>2 DEF Past
  <2>4. ASSUME NEW t \in Tiles PROVE \E i \in SentBy(t)' : earliest' <= i + 1
    <3>1. heads[t] \in SentBy(t)
      BY <2>1 DEF Origin, FromServer, Held
    <3>2. heads[t] \in SentBy(t)'
      BY <3>1, SentStep
    <3> QED BY <2>1, <3>2
  <2> QED BY <2>3, <2>4 DEF Past
<1>4. CASE ~SyncPuts
  <2>1. Delivered' = Delivered
    BY <1>4, DeliveredStep
  <2>2. earliest' = earliest
    BY <1>4, EarliestStays
  <2> QED BY <2>1, <2>2, SentStep DEF Past
<1> QED BY <1>3, <1>4
\* A cloud that the synchronizer makes is later than the others, None is nothing.
LEMMA AdvancesAppend ==
    ASSUME NEW q \in Seq(Joined), Advances(q), NEW d \in Joined,
           d = None \/ \A i \in 1 .. Len(q) : q[i] # None => q[i].ts < d.ts
    PROVE  Advances(Append(q, d))
<1> DEFINE r == Append(q, d)
<1>1. /\ Len(r) = Len(q) + 1 /\ r[Len(q) + 1] = d /\ Len(q) \in Nat
      /\ \A i \in 1 .. Len(q) : r[i] = q[i]
  BY AppendTo
<1> HIDE DEF r
<1>2. \A i \in 1 .. Len(r) : i \in 1 .. Len(q) \/ i = Len(q) + 1
  BY <1>1
<1> SUFFICES ASSUME NEW i \in 1 .. Len(r), NEW j \in 1 .. Len(r), i < j,
                    r[i] # None, r[j] # None
             PROVE  r[i].ts < r[j].ts
  BY DEF Advances, r
<1>3. i \in 1 .. Len(q)
  BY <1>1, <1>2
<1>4. CASE j \in 1 .. Len(q)
  BY <1>1, <1>3, <1>4 DEF Advances
<1>5. CASE j = Len(q) + 1
  BY <1>1, <1>3, <1>5
<1> QED BY <1>2, <1>4, <1>5

LEMMA AdvancesTail ==
    ASSUME NEW q \in Seq(Joined), Advances(q), q # <<>>
    PROVE  /\ Advances(Tail(q))
           /\ Head(q) # None =>
                \A j \in 1 .. Len(Tail(q)) : Tail(q)[j] # None => Head(q).ts < Tail(q)[j].ts
<1>1. /\ Head(q) = q[1] /\ Len(q) \in Nat \ {0} /\ Len(Tail(q)) = Len(q) - 1
      /\ \A i \in 1 .. Len(Tail(q)) :
           Tail(q)[i] = q[i + 1] /\ i + 1 \in 1 .. Len(q) /\ 1 < i + 1
      /\ \A i, j \in 1 .. Len(Tail(q)) : i < j => i + 1 < j + 1
  BY TailOf
<1>2. 1 \in 1 .. Len(q)
  BY <1>1
<1> QED BY <1>1, <1>2 DEF Advances

LEMMA InResultsPuts ==
    ASSUME TypeOK, Shapes, Round, Past, InResults, SyncPuts
    PROVE  InResults'
<1>1. outputQ \in Seq(Joined) /\ got \in Seq(Joined)
  BY DEF TypeOK, QueuesTypeOK, DataTypeOK
<1>2. outputQ' = Append(outputQ, Joint) /\ got' = got
  BY DEF SyncPuts, Joint, application
<1>3. Delivered = (Items(got) \cup Items(outputQ)) \ {None}
  BY <1>1, DeliveredItems
<1>4. Joint \in Joined /\ Joint # None /\ earliest \in Nat /\ earliest <= Joint.ts
  BY AllHeads, Numbers DEF Joint
<1>5. \A d \in Joined : d.ts \in Nat
  BY Constants DEF Joined
<1> HIDE DEF Joint
<1>6. ASSUME NEW d \in Delivered, d \in Joined PROVE d.ts < Joint.ts
  BY <1>4, <1>5, <1>6 DEF Past
<1>7. \A i \in 1 .. Len(outputQ) :
        outputQ[i] \in Joined /\ (outputQ[i] # None => outputQ[i] \in Delivered)
  BY <1>1, <1>3, ItemOf DEF Items
<1>8. \A i \in 1 .. Len(got) : got[i] \in Joined /\ got[i] \in Delivered
  BY <1>1, <1>3, ItemOf DEF Items, InResults
<1>9. Advances(outputQ')
  BY <1>1, <1>2, <1>4, <1>6, <1>7, AdvancesAppend DEF InResults
<1>10. ASSUME NEW i \in 1 .. Len(got), NEW j \in 1 .. Len(outputQ'), outputQ'[j] # None
       PROVE  got[i].ts < outputQ'[j].ts
  <2>1. /\ \A k \in 1 .. Len(outputQ) : outputQ'[k] = outputQ[k]
        /\ outputQ'[Len(outputQ) + 1] = Joint
        /\ Len(outputQ') = Len(outputQ) + 1 /\ Len(outputQ) \in Nat
    BY <1>1, <1>2, <1>4, AppendTo
  <2>2. CASE j \in 1 .. Len(outputQ)
    BY <1>10, <2>1, <2>2 DEF InResults
  <2>3. CASE j = Len(outputQ) + 1
    BY <1>6, <1>8, <2>1, <2>3
  <2> QED BY <2>1, <2>2, <2>3
<1> QED BY <1>2, <1>9, <1>10 DEF InResults

LEMMA InResultsTakes ==
    ASSUME TypeOK, InResults, AppTakes
    PROVE  InResults'
<1> DEFINE h == Head(outputQ)
           r == Tail(outputQ)
<1>1. /\ outputQ \in Seq(Joined) /\ got \in Seq(Joined) /\ outputQ # <<>>
  BY DEF TypeOK, QueuesTypeOK, DataTypeOK, AppTakes
<1>2. outputQ' = r /\ got' = IF h = None THEN got ELSE Append(got, h)
  BY DEF AppTakes
<1>3. /\ h = outputQ[1] /\ h \in Joined /\ r \in Seq(Joined)
      /\ Len(outputQ) \in Nat \ {0} /\ Len(r) = Len(outputQ) - 1
      /\ \A i \in 1 .. Len(r) : r[i] = outputQ[i + 1] /\ i + 1 \in 1 .. Len(outputQ)
  BY <1>1, TailOf
<1>4. /\ Advances(r)
      /\ h # None => \A j \in 1 .. Len(r) : r[j] # None => h.ts < r[j].ts
  BY <1>1, AdvancesTail DEF InResults
<1> HIDE DEF h, r
<1>5. \A i \in 1 .. Len(got), j \in 1 .. Len(r) : r[j] # None => got[i].ts < r[j].ts
  BY <1>3 DEF InResults
<1>6. CASE h = None
  BY <1>2, <1>4, <1>5, <1>6 DEF InResults
<1>7. CASE h # None
  <2>1. got' = Append(got, h)
    BY <1>2, <1>7
  <2>2. /\ Len(got') = Len(got) + 1 /\ Len(got) \in Nat /\ got'[Len(got) + 1] = h
        /\ \A i \in 1 .. Len(got) : got'[i] = got[i]
    BY <1>1, <1>3, <2>1, AppendTo
  <2>3. 1 \in 1 .. Len(outputQ)
    BY <1>3
  <2>4. \A i \in 1 .. Len(got) : got[i].ts < h.ts /\ got[i] # None
    BY <1>3, <1>7, <2>3 DEF InResults
  <2>5. Advances(got')
    BY <1>1, <1>3, <2>1, <2>4, AdvancesAppend DEF InResults
  <2>6. \A i \in 1 .. Len(got') : i \in 1 .. Len(got) \/ i = Len(got) + 1
    BY <2>2
  <2>7. \A i \in 1 .. Len(got') : got'[i] # None
    BY <1>7, <2>2, <2>4, <2>6
  <2>8. ASSUME NEW i \in 1 .. Len(got'), NEW j \in 1 .. Len(r), r[j] # None
        PROVE  got'[i].ts < r[j].ts
    BY <1>4, <1>5, <1>7, <2>2, <2>6, <2>8
  <2> QED BY <1>2, <1>4, <2>5, <2>7, <2>8 DEF InResults
<1> QED BY <1>6, <1>7

LEMMA InResultsNone ==
    ASSUME TypeOK, InResults, outputQ' = Append(outputQ, None), got' = got
    PROVE  InResults'
<1>1. outputQ \in Seq(Joined) /\ None \in Joined
  BY Constants DEF TypeOK, QueuesTypeOK
<1>2. Advances(outputQ')
  BY <1>1, AdvancesAppend DEF InResults
<1>3. /\ \A k \in 1 .. Len(outputQ) : outputQ'[k] = outputQ[k]
      /\ outputQ'[Len(outputQ) + 1] = None
      /\ Len(outputQ') = Len(outputQ) + 1 /\ Len(outputQ) \in Nat
  BY <1>1, AppendTo
<1>4. ASSUME NEW j \in 1 .. Len(outputQ'), outputQ'[j] # None
      PROVE  j \in 1 .. Len(outputQ) /\ outputQ'[j] = outputQ[j]
  BY <1>3, <1>4
<1> QED BY <1>2, <1>4 DEF InResults

LEMMA InResultsStep ==
    ASSUME TypeOK, Shapes, Round, Past, InResults, [Next]_vars
    PROVE  InResults'
<1>1. CASE outputQ' = outputQ /\ got' = got
  BY <1>1 DEF InResults
<1>2. ASSUME SyncLeaves \/ StopJoinsClient
      PROVE  outputQ' \in {outputQ, Append(outputQ, None)} /\ got' = got
  BY <1>2 DEF SyncLeaves, StopJoinsClient, Offered, application
<1>3. ASSUME NEW t \in Tiles, Client(t) \/ Decoder(t)
      PROVE  outputQ' = outputQ /\ got' = got
  BY <1>3 DEF Client, ClientTests, ClientReceives, ClientPuts, ClientLeaves, ClientDies,
     Decoder, DecoderTests, DecoderTakes, DecoderPuts, DecoderDies, synchronizer, application
<1>4. ASSUME SyncTests \/ SyncSkips \/ SyncGets \/ SyncTakes \/ SyncRetries
      PROVE  outputQ' = outputQ /\ got' = got
  BY <1>4 DEF SyncTests, SyncSkips, SyncGets, SyncTakes, SyncRetries, application
<1>5. ASSUME AppGets \/ Start \/ Stop \/ StopClient \/ StopJoinsSync \/ UNCHANGED vars
      PROVE  outputQ' = outputQ /\ got' = got
  BY <1>5 DEF AppGets, Start, Stop, StopClient, StopJoinsSync, vars, synchronizer,
     application
<1> QED
  BY <1>1, <1>2, <1>3, <1>4, <1>5, InResultsPuts, InResultsTakes, InResultsNone
  DEF Next, Synchronizer, Stopping
\* When the synchronizer joins its heads, what a server has sent of the times
\* from earliest to the oldest head is that head.
LEMMA NothingLeftBehind ==
    ASSUME TypeOK, Shapes, Round, Origin, Pipeline, AllInOrder, SyncPuts,
           NEW t \in Tiles, NEW i \in SentBy(t), earliest <= i, i <= Oldest
    PROVE  i = heads[t] /\ i = Oldest
<1>1. heads[t] # 0 /\ Oldest <= heads[t] /\ heads[t] \in Nat /\ Oldest \in Nat
  BY AllHeads, Numbers
<1>2. i # 0 /\ i \in Nat /\ earliest \in Nat
  BY PlacesType, Constants
<1> HIDE DEF Oldest
<1>3. ~(heads[t] < i) /\ ~(i < earliest)
  BY <1>1, <1>2
<1>4. i \in Held(t) \cup Decoded(t) \cup Behind(t)
  BY <1>3 DEF Pipeline, NoGap, Held
<1>5. i \notin Decoded(t) \cup Behind(t)
  BY <1>1, <1>2, <1>3 DEF Pipeline, Chain, Precede, Held
<1>6. i = heads[t]
  BY <1>4, <1>5 DEF Held
<1> QED BY <1>1, <1>6

LEMMA CompleteStep ==
    ASSUME TypeOK, Shapes, Hands, Round, Origin, Past, Pipeline, TilesComplete, [Next]_vars
    PROVE  TilesComplete'
<1> SUFFICES ASSUME AllInOrder'
             PROVE  \A d \in Delivered' : d.tiles = {t \in Tiles : d.ts \in SentBy(t)'}
  BY DEF TilesComplete, AllInOrder
<1>1. AllInOrder
  BY PipelineStep
<1>2. earliest \in Nat /\ \A d \in Delivered : d \in Joined /\ d.ts \in Nat
  <2>1. Delivered \subseteq Joined
    BY DeliveredItems, ItemsType DEF TypeOK, QueuesTypeOK, DataTypeOK
  <2> QED BY <2>1, Constants, Numbers DEF Joined
<1>3. ASSUME NEW d \in Delivered PROVE d.tiles = {t \in Tiles : d.ts \in SentBy(t)'}
  <2>1. d.tiles = {t \in Tiles : d.ts \in SentBy(t)}
    BY <1>1 DEF TilesComplete, AllInOrder
  <2>2. ASSUME NEW t \in Tiles PROVE d.ts \in SentBy(t)' <=> d.ts \in SentBy(t)
    <3>1. /\ SentBy(t) \subseteq SentBy(t)'
          /\ \A i \in SentBy(t)' : i \in SentBy(t) \/ i >= earliest
      BY SentStep DEF AllInOrder
    <3>2. ~(d.ts >= earliest)
      BY <1>2 DEF Past
    <3> QED BY <3>1, <3>2
  <2> QED BY <2>1, <2>2
<1>4. CASE SyncPuts
  <2>1. Joint.ts = Oldest /\ Joint.tiles = {t \in Tiles : heads[t] = Oldest}
    BY DEF Joint
  <2>2. /\ Oldest \in Nat /\ earliest <= Oldest
        /\ \A t \in Tiles : heads[t] # 0
    BY <1>4, AllHeads
  <2>3. ASSUME NEW t \in Tiles PROVE SentBy(t)' = SentBy(t)
    BY <1>4 DEF SyncPuts, SentBy
  <2> HIDE DEF Oldest, Joint
  <2>4. ASSUME NEW t \in Tiles PROVE heads[t] = Oldest <=> Oldest \in SentBy(t)
    <3>1. heads[t] \in SentBy(t)
      BY <2>2 DEF Origin, FromServer, Held
    <3>2. Oldest \in SentBy(t) => Oldest = heads[t]
      BY <1>1, <1>4, <2>2, NothingLeftBehind
    <3> QED BY <3>1, <3>2
  <2>5. Joint.tiles = {t \in Tiles : Joint.ts \in SentBy(t)'}
    BY <2>1, <2>3, <2>4
  <2> QED BY <1>3, <1>4, <2>5, DeliveredStep
<1> QED BY <1>3, <1>4, DeliveredStep

LEMMA NoneSkippedStep ==
    ASSUME TypeOK, Shapes, Hands, Round, Origin, Past, Pipeline, NoneSkipped, [Next]_vars
    PROVE  NoneSkipped'
<1> SUFFICES ASSUME AllInOrder', NEW t \in Tiles, NEW i \in SentBy(t)', i < earliest'
             PROVE  \E d \in Delivered' : d.ts = i
  BY DEF NoneSkipped
<1>1. AllInOrder
  BY PipelineStep
<1>2. /\ SentBy(t) \subseteq SentBy(t)'
      /\ i \in SentBy(t) \/ i >= earliest
  BY SentStep DEF AllInOrder
<1>3. earliest \in Nat /\ SentBy(t) \subseteq Nat /\ SentBy(t) \subseteq Times
  BY PlacesType
<1>4. Delivered \subseteq Delivered'
  BY DeliveredStep
<1>5. i \in Nat
  <2>1. TypeOK' /\ Shapes'
    BY TypeStep DEF Round
  <2>2. sent'[t] \in Seq(Times)
    BY <2>1 DEF Shapes
  <2>3. Items(sent'[t]) \subseteq Times
    BY <2>2, ItemsType
  <2> QED BY <2>3, Constants DEF SentBy, Items
<1>6. CASE i \in SentBy(t) /\ i < earliest
  BY <1>1, <1>4, <1>6 DEF NoneSkipped
<1>7. CASE SyncPuts /\ ~(i < earliest)
  <2>1. SentBy(t)' = SentBy(t)
    BY <1>7 DEF SyncPuts, SentBy
  <2>2. Oldest \in Nat /\ earliest' = Oldest + 1 /\ Joint.ts = Oldest
    BY <1>7, AllHeads DEF Joint
  <2> HIDE DEF Oldest, Joint
  <2>3. i \in SentBy(t) /\ earliest <= i /\ i <= Oldest
    BY <1>3, <1>7, <2>1, <2>2
  <2>4. i = Oldest
    BY <1>1, <1>7, <2>3, NothingLeftBehind
  <2> QED BY <1>7, <2>2, <2>4, DeliveredStep
<1>8. CASE ~SyncPuts
  <2>1. earliest' = earliest
    BY <1>8, EarliestStays
  <2> QED BY <1>2, <1>3, <1>5, <1>6, <2>1
<1> QED BY <1>2, <1>3, <1>6, <1>5, <1>7, <1>8

-----------------------------------------------------------------------------
(* The invariant and what follows from it                                  *)

LEMMA InitInv == Init => Inv
<1> SUFFICES ASSUME Init PROVE Inv
  OBVIOUS
<1>1. TypeOK /\ Shapes
  BY ReceiverInit
<1>2. /\ got = <<>> /\ outputQ = <<>> /\ earliest = 0 /\ sync = "off"
      /\ \A t \in Tiles : /\ sent[t] = <<>> /\ clientQ[t] = <<>> /\ decoderQ[t] = <<>>
                          /\ heads[t] = 0 /\ clientPC[t] = 0 /\ decoderPC[t] = 0
                          /\ client[t] = "off" /\ decoder[t] = "loop"
  BY DEF Init
<1>3. Hands /\ Round
  BY <1>2 DEF Hands, Round
<1>4. Delivered = {}
  BY <1>1, <1>2, DeliveredItems DEF TypeOK, QueuesTypeOK, DataTypeOK, Items
<1>5. \A t \in Tiles : SentBy(t) = {}
  BY <1>2 DEF SentBy
<1>6. Past /\ InResults /\ TilesComplete /\ NoneSkipped
  BY <1>2, <1>4, <1>5 DEF Past, InResults, Advances, TilesComplete, NoneSkipped
<1>7. ASSUME NEW t \in Tiles
      PROVE  Held(t) \cup Decoded(t) \cup Behind(t) = {0}
  BY <1>2 DEF Held, Decoded, Behind, Decoding, Received, Receiving, Items
<1>8. Origin
  BY <1>7 DEF Origin, FromServer
<1>9. ASSUME NEW t \in Tiles PROVE Sorted(t) /\ Chain(t) /\ NoGap(t)
  <2>1. Sorted(t)
    BY <1>2 DEF Sorted, Rising
  <2>2. Chain(t)
    BY <1>7 DEF Chain, Precede, Behind
  <2>3. NoGap(t)
    BY <1>5 DEF NoGap
  <2> QED BY <2>1, <2>2, <2>3
<1> QED BY <1>1, <1>3, <1>6, <1>8, <1>9 DEF Inv, Pipeline

LEMMA NextInv == Inv /\ [Next]_vars => Inv'
<1> SUFFICES ASSUME Inv, [Next]_vars PROVE Inv'
  OBVIOUS
<1>1. sync = "get" => todo # {}
  BY DEF Inv, Round
<1>2. TypeOK' /\ Shapes'
  BY <1>1, TypeStep DEF Inv
<1>3. Hands' /\ Round' /\ Origin' /\ Pipeline'
  BY HandsStep, RoundStep, OriginStep, PipelineStep DEF Inv
<1>4. Past' /\ InResults'
  BY PastStep, InResultsStep DEF Inv
<1>5. TilesComplete' /\ NoneSkipped'
  BY CompleteStep, NoneSkippedStep DEF Inv
<1> QED BY <1>2, <1>3, <1>4, <1>5 DEF Inv

LEMMA InvSynchronized == Inv => Synchronized
<1> SUFFICES ASSUME Inv PROVE Synchronized
  OBVIOUS
<1> USE DEF Inv
<1>1. outputQ \in Seq(Joined) /\ got \in Seq(Joined)
  BY DEF TypeOK, QueuesTypeOK, DataTypeOK
<1>2. TimeAdvances
  <2> DEFINE r == got \o outputQ
  <2>1. /\ Len(got) \in Nat /\ Len(outputQ) \in Nat /\ Len(r) = Len(got) + Len(outputQ)
        /\ \A i \in 1 .. Len(r) :
             r[i] = IF i <= Len(got) THEN got[i] ELSE outputQ[i - Len(got)]
    BY <1>1
  <2> HIDE DEF r
  <2> SUFFICES ASSUME NEW i \in 1 .. Len(r), NEW j \in 1 .. Len(r), i < j,
                      r[i] # None, r[j] # None
               PROVE  r[i].ts < r[j].ts
    BY DEF TimeAdvances, Advances, Results, r
  <2>2. CASE j <= Len(got)
    <3>1. i \in 1 .. Len(got) /\ j \in 1 .. Len(got) /\ r[i] = got[i] /\ r[j] = got[j]
      BY <2>1, <2>2
    <3> QED BY <3>1 DEF InResults, Advances
  <2>3. CASE i <= Len(got) /\ ~(j <= Len(got))
    <3>1. /\ i \in 1 .. Len(got) /\ j - Len(got) \in 1 .. Len(outputQ)
          /\ r[i] = got[i] /\ r[j] = outputQ[j - Len(got)]
      BY <2>1, <2>3
    <3> QED BY <3>1 DEF InResults
  <2>4. CASE ~(i <= Len(got)) /\ ~(j <= Len(got))
    <3>1. /\ i - Len(got) \in 1 .. Len(outputQ) /\ j - Len(got) \in 1 .. Len(outputQ)
          /\ i - Len(got) < j - Len(got)
          /\ r[i] = outputQ[i - Len(got)] /\ r[j] = outputQ[j - Len(got)]
      BY <2>1, <2>4
    <3> QED BY <3>1 DEF InResults, Advances
  <2> QED BY <2>1, <2>2, <2>3, <2>4
<1>3. NoTimeSkipped
  <2> SUFFICES ASSUME AllInOrder, NEW t \in Tiles, NEW i \in SentBy(t),
                      NEW d \in Delivered, i < d.ts
               PROVE  \E e \in Delivered : e.ts = i
    BY DEF NoTimeSkipped, AllInOrder
  <2>1. d.ts < earliest /\ d.ts \in Nat /\ earliest \in Nat /\ i \in Nat
    <3>1. Delivered \subseteq Joined
      BY <1>1, DeliveredItems, ItemsType
    <3>2. d.ts \in Packets
      BY <3>1 DEF Joined
    <3> QED BY <3>2, Constants, PlacesType DEF Past
  <2> QED BY <2>1 DEF NoneSkipped
<1> QED BY <1>2, <1>3 DEF Synchronized

LEMMA ReceiverInv == Spec => []Inv
<1> QED BY InitInv, NextInv, PTL DEF Spec

\* The receiver keeps to its types and no queue outgrows its size, for any
\* number of tiles, sizes of the queues and length of the streams.
THEOREM TypeCorrect == Spec => []TypeOK
<1>1. Inv => TypeOK
  BY DEF Inv
<1> QED BY <1>1, ReceiverInv, PTL

\* Whatever the interleaving of the threads of the receiver, time advances, and
\* for servers that send in order no tile is given up and no time is left out.
THEOREM TilesSynchronized == Spec => []Synchronized
BY InvSynchronized, ReceiverInv, PTL
=============================================================================

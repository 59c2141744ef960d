------------------------------ MODULE Encoder ------------------------------
(***************************************************************************)
(* The threaded encoders of cwipc_codec/src/cwipc_codec.cpp:               *)
(* cwipc_encoder_impl after enable_threads(), and n_parallel of them taken *)
(* in turn by cwipc_multithreaded_encoder_impl.                            *)
(*                                                                         *)
(*   feed() -> m_queue_tilefilter -> tile filter thread -> m_queue_encoder *)
(*          -> encoder thread -> m_result -> available(), copy_data()      *)
(*                                                                         *)
(* The owner of the encoder feeds it, closes it and frees it; another      *)
(* thread, the reader, drains it the way api.h prescribes: available(true),*)
(* then get_encoded_size(), then copy_data().  A cloud, and what it is     *)
(* encoded to, is its number in the order of feeding; 0 is nullptr.        *)
(*                                                                         *)
(* close() puts a nullptr into the queue that the tile filter thread also  *)
(* writes to.  These queues are for a single producer: EnqueuesCollide is  *)
(* what becomes of two calls at the same time.                             *)
(***************************************************************************)
EXTENDS Naturals, Sequences

CONSTANTS
    NumEncoders,        \* m_nencoder, the parameter n_parallel
    Window,             \* the owner feeds at most this many clouds ahead of
                        \* the reader
    MaxClouds           \* bound: clouds fed

ASSUME EncoderAssumption ==
    NumEncoders \in Nat \ {0} /\ Window \in Nat \ {0} /\ MaxClouds \in Nat

Encoders == 0 .. NumEncoders - 1
Clouds == 1 .. MaxClouds

VARIABLES
    alive,              \* m_alive of each encoder
    filterQ, codeQ,     \* m_queue_tilefilter, m_queue_encoder
    filter, filterPC,   \* the tile filter threads: place, cloud in hand
    coder, coderPC,     \* the encoder threads: place, cloud in hand
    result,             \* m_result
    nextIn, nextOut,    \* m_next_in, m_next_out
    owner, closing,     \* the owner: place, the encoder it is closing
    reader, sized,      \* the reader: place, the result it has the size of
    fed, got            \* history: clouds fed, what the reader has copied

queues == <<filterQ, codeQ>>
filters == <<filter, filterPC>>
coders == <<coder, coderPC>>
feeding == <<nextIn, owner, closing, fed>>
reading == <<nextOut, sized, got>>
vars == <<alive, queues, filters, coders, result, feeding, reader, reading>>

Init ==
    /\ alive = [e \in Encoders |-> TRUE]
    /\ filterQ = [e \in Encoders |-> <<>>] /\ codeQ = [e \in Encoders |-> <<>>]
    /\ filter = [e \in Encoders |-> "test"] /\ filterPC = [e \in Encoders |-> 0]
    /\ coder = [e \in Encoders |-> "test"] /\ coderPC = [e \in Encoders |-> 0]
    /\ result = [e \in Encoders |-> 0]
    /\ nextIn = 0 /\ nextOut = 0
    /\ owner = "open" /\ closing = 0
    /\ reader = "idle" /\ sized = 0
    /\ fed = 0 /\ got = <<>>

Set(f, e, v) == [f EXCEPT ![e] = v]

\* try_enqueue(nullptr): succeeds when the queue is empty.  Otherwise it
\* depends on whether enqueue() has ever had to allocate another block.
Nudged(q) == IF q = <<>> THEN {<<0>>} ELSE {q, Append(q, 0)}

\* m_result_cv.notify_one() or notify_all() of encoder e: there is one reader.
ReaderNotified(e) == IF reader = "asleep" /\ nextOut = e THEN "test" ELSE reader

-----------------------------------------------------------------------------
(* The tile filter thread of encoder e                                     *)

\* while (m_alive), and what follows the loop up to the try_enqueue().
FilterTests(e) ==
    /\ filter[e] = "test"
    /\ filter' = Set(filter, e, IF alive[e] THEN "dequeue" ELSE "leave")
    /\ UNCHANGED <<alive, queues, filterPC, coders, result, feeding, reader, reading>>

FilterTakes(e) ==
    /\ filter[e] = "dequeue" /\ filterQ[e] # <<>>
    /\ filterQ' = Set(filterQ, e, Tail(filterQ[e]))
    /\ filterPC' = Set(filterPC, e, Head(filterQ[e]))
    /\ \/ /\ Head(filterQ[e]) # 0
          /\ filter' = Set(filter, e, "filter")
          /\ UNCHANGED alive
       \/ /\ Head(filterQ[e]) = 0
          /\ filter' = Set(filter, e, "leave")
          /\ alive' = Set(alive, e, FALSE)
    /\ UNCHANGED <<codeQ, coders, result, feeding, reader, reading>>

\* The filtered cloud is queued for the encoder thread.
FilterPasses(e) ==
    /\ filter[e] = "filter"
    /\ codeQ' = Set(codeQ, e, Append(codeQ[e], filterPC[e]))
    /\ filterPC' = Set(filterPC, e, 0)
    /\ filter' = Set(filter, e, "test")
    /\ UNCHANGED <<alive, filterQ, coders, result, feeding, reader, reading>>

\* cwipc_tilefilter() returns NULL.
FilterFails(e) ==
    /\ filter[e] = "filter"
    /\ filterPC' = Set(filterPC, e, 0)
    /\ filter' = Set(filter, e, "leave")
    /\ alive' = Set(alive, e, FALSE)
    /\ UNCHANGED <<queues, coders, result, feeding, reader, reading>>

\* The encoder thread is told to stop too.
FilterLeaves(e) ==
    /\ filter[e] = "leave"
    /\ alive' = Set(alive, e, FALSE)
    /\ \E q \in Nudged(codeQ[e]) : codeQ' = Set(codeQ, e, q)
    /\ filter' = Set(filter, e, "exited")
    /\ UNCHANGED <<filterQ, filterPC, coders, result, feeding, reader, reading>>

Filter(e) ==
    \/ FilterTests(e) \/ FilterTakes(e) \/ FilterPasses(e)
    \/ FilterFails(e) \/ FilterLeaves(e)

-----------------------------------------------------------------------------
(* The encoder thread of encoder e                                         *)

CoderTests(e) ==
    /\ coder[e] = "test"
    /\ coder' = Set(coder, e, IF alive[e] THEN "dequeue" ELSE "leave")
    /\ UNCHANGED <<alive, queues, filters, coderPC, result, feeding, reader, reading>>

CoderTakes(e) ==
    /\ coder[e] = "dequeue" /\ codeQ[e] # <<>>
    /\ codeQ' = Set(codeQ, e, Tail(codeQ[e]))
    /\ coderPC' = Set(coderPC, e, Head(codeQ[e]))
    /\ coder' = Set(coder, e, IF Head(codeQ[e]) = 0 THEN "leave" ELSE "encode")
    /\ UNCHANGED <<alive, filterQ, filters, result, feeding, reader, reading>>

\* The reader holds m_result_mutex between its test and its sleep.
ResultFree(e) == ~(reader = "fallAsleep" /\ nextOut = e)

\* MUTANT: the result is stored but nobody is notified.
EncodesUnannounced(e) ==
    /\ coder[e] = "encode" /\ ResultFree(e)
    /\ result' = Set(result, e, coderPC[e])
    /\ coderPC' = Set(coderPC, e, 0)
    /\ coder' = Set(coder, e, "test")
    /\ UNCHANGED <<alive, queues, filters, feeding, reader, reading>>

\* A result that was not read is replaced.
Encodes(e) ==
    /\ coder[e] = "encode" /\ ResultFree(e)
    /\ result' = Set(result, e, coderPC[e])
    /\ coderPC' = Set(coderPC, e, 0)
    /\ coder' = Set(coder, e, "test")
    /\ reader' = ReaderNotified(e)
    /\ UNCHANGED <<alive, queues, filters, feeding, reading>>

\* The cloud has no points to access.
EncodeFails(e) ==
    /\ coder[e] = "encode"
    /\ coderPC' = Set(coderPC, e, 0)
    /\ coder' = Set(coder, e, "leave")
    /\ UNCHANGED <<alive, queues, filters, result, feeding, reader, reading>>

CoderLeaves(e) ==
    /\ coder[e] = "leave"
    /\ alive' = Set(alive, e, FALSE)
    /\ reader' = ReaderNotified(e)
    /\ coder' = Set(coder, e, "exited")
    /\ UNCHANGED <<queues, filters, coderPC, result, feeding, reading>>

Coder(e) ==
    CoderTests(e) \/ CoderTakes(e) \/ Encodes(e) \/ EncodeFails(e) \/ CoderLeaves(e)

-----------------------------------------------------------------------------
(* The owner                                                               *)

\* MUTANT: the turn is not passed on.
FeedSameEncoder ==
    /\ owner = "open" /\ fed < MaxClouds /\ fed - Len(got) < Window
    /\ fed' = fed + 1
    /\ filterQ' = IF alive[nextIn]
                    THEN Set(filterQ, nextIn, Append(filterQ[nextIn], fed'))
                    ELSE filterQ
    /\ UNCHANGED <<alive, codeQ, filters, coders, result, nextIn, owner, closing>>
    /\ UNCHANGED <<reader, reading>>

\* MUTANT: the turn does not start again after the last encoder.
FeedWithoutWrap ==
    /\ owner = "open" /\ fed < MaxClouds /\ fed - Len(got) < Window
    /\ fed' = fed + 1
    /\ filterQ' = IF alive[nextIn]
                    THEN Set(filterQ, nextIn, Append(filterQ[nextIn], fed'))
                    ELSE filterQ
    /\ nextIn' = nextIn + 1
    /\ UNCHANGED <<alive, codeQ, filters, coders, result, owner, closing>>
    /\ UNCHANGED <<reader, reading>>

\* feed(): an encoder that is not alive drops the cloud.
Feed ==
    /\ owner = "open" /\ fed < MaxClouds /\ fed - Len(got) < Window
    /\ fed' = fed + 1
    /\ filterQ' = IF alive[nextIn]
                    THEN Set(filterQ, nextIn, Append(filterQ[nextIn], fed'))
                    ELSE filterQ
    /\ nextIn' = (nextIn + 1) % NumEncoders
    /\ UNCHANGED <<alive, codeQ, filters, coders, result, owner, closing>>
    /\ UNCHANGED <<reader, reading>>

\* close(): m_alive = false, notify the reader, without m_result_mutex ...
CloseSignals ==
    /\ owner \in {"open", "signal"}
    /\ alive' = Set(alive, closing, FALSE)
    /\ reader' = ReaderNotified(closing)
    /\ owner' = "nudge"
    /\ UNCHANGED <<queues, filters, coders, result, nextIn, closing, fed, reading>>

\* MUTANT: only the encoder thread is woken up.
CloseNudgesCoder ==
    /\ owner = "nudge"
    /\ \E q \in Nudged(codeQ[closing]) : codeQ' = Set(codeQ, closing, q)
    /\ owner' = "join"
    /\ UNCHANGED <<alive, filterQ, filters, coders, result, nextIn, closing, fed>>
    /\ UNCHANGED <<reader, reading>>

\* ... wake up the threads ...
CloseNudges ==
    /\ owner = "nudge"
    /\ \E q \in Nudged(codeQ[closing]) : codeQ' = Set(codeQ, closing, q)
    /\ \E q \in Nudged(filterQ[closing]) : filterQ' = Set(filterQ, closing, q)
    /\ owner' = "join"
    /\ UNCHANGED <<alive, filters, coders, result, nextIn, closing, fed>>
    /\ UNCHANGED <<reader, reading>>

\* ... at the same time as the tile filter thread queues a cloud: both write
\* the same place of the queue, the cloud is lost, and both count.
EnqueuesCollide ==
    /\ owner = "nudge" /\ filter[closing] = "filter" /\ codeQ[closing] = <<>>
    /\ codeQ' = Set(codeQ, closing, <<0, 0>>)
    /\ filterPC' = Set(filterPC, closing, 0)
    /\ filter' = Set(filter, closing, "test")
    /\ \E q \in Nudged(filterQ[closing]) : filterQ' = Set(filterQ, closing, q)
    /\ owner' = "join"
    /\ UNCHANGED <<alive, coders, result, nextIn, closing, fed, reader, reading>>

\* ... and join them; then the next encoder.
CloseJoins ==
    /\ owner = "join" /\ coder[closing] = "exited" /\ filter[closing] = "exited"
    /\ \/ /\ closing + 1 \in Encoders
          /\ closing' = closing + 1
          /\ owner' = "signal"
       \/ /\ closing + 1 \notin Encoders
          /\ owner' = "closed"
          /\ UNCHANGED closing
    /\ UNCHANGED <<alive, queues, filters, coders, result, nextIn, fed>>
    /\ UNCHANGED <<reader, reading>>

\* free(), when the reader is not inside; what was not read is freed.
Free ==
    /\ owner = "closed" /\ reader = "idle"
    /\ result' = [e \in Encoders |-> 0]
    /\ owner' = "freed"
    /\ UNCHANGED <<alive, queues, filters, coders, nextIn, closing, fed>>
    /\ UNCHANGED <<reader, reading>>

Closing == CloseSignals \/ CloseNudges \/ EnqueuesCollide \/ CloseJoins

-----------------------------------------------------------------------------
(* The reader                                                              *)

\* available(true), from here to its return under m_next_out_mutex.
Available ==
    /\ reader = "idle" /\ owner # "freed" /\ Len(got) < MaxClouds
    /\ reader' = "test"
    /\ UNCHANGED <<alive, queues, filters, coders, result, feeding, reading>>

AvailableTests ==
    /\ reader = "test"
    /\ reader' = IF result[nextOut] # 0 THEN "available"
                 ELSE IF alive[nextOut] THEN "fallAsleep" ELSE "idle"
    /\ UNCHANGED <<alive, queues, filters, coders, result, feeding, reading>>

AvailableSleeps ==
    /\ reader = "fallAsleep"
    /\ reader' = "asleep"
    /\ UNCHANGED <<alive, queues, filters, coders, result, feeding, reading>>

\* get_encoded_size()
GetSize ==
    /\ reader = "available"
    /\ sized' = result[nextOut]
    /\ reader' = "sized"
    /\ UNCHANGED <<alive, queues, filters, coders, result, feeding, nextOut, got>>

\* copy_data().  It fails when the buffer, which has the size of an earlier
\* result, is too small; the turn is passed on in any case.
Copy ==
    /\ reader = "sized"
    /\ nextOut' = (nextOut + 1) % NumEncoders
    /\ \/ /\ got' = Append(got, result[nextOut])
          /\ result' = Set(result, nextOut, 0)
       \/ /\ result[nextOut] # sized
          /\ UNCHANGED <<got, result>>
    /\ sized' = 0
    /\ reader' = "idle"
    /\ UNCHANGED <<alive, queues, filters, coders, feeding>>

SpuriousWakeup ==
    /\ reader = "asleep"
    /\ reader' = "test"
    /\ UNCHANGED <<alive, queues, filters, coders, result, feeding, reading>>

Reader == AvailableTests \/ AvailableSleeps \/ GetSize \/ Copy

-----------------------------------------------------------------------------
Next ==
    \/ \E e \in Encoders : Filter(e) \/ Coder(e)
    \/ Feed \/ Closing \/ Free
    \/ Available \/ Reader \/ SpuriousWakeup

Spec == Init /\ [][Next]_vars

(* Fairness: the threads run on.  Storing a result needs m_result_mutex,    *)
(* which a reader may take again and again (SF).  Nobody has to call feed(),*)
(* close() or available(), but a close() that has begun goes on.           *)
LiveSpec ==
    /\ Spec
    /\ \A e \in Encoders :
        WF_vars(Filter(e)) /\ WF_vars(Coder(e)) /\ SF_vars(Encodes(e))
    /\ WF_vars(CloseNudges) /\ WF_vars(CloseJoins)
    /\ WF_vars(owner = "signal" /\ CloseSignals)
    /\ WF_vars(Reader)

-----------------------------------------------------------------------------
TypeOK ==
    /\ alive \in [Encoders -> BOOLEAN]
    /\ filterQ \in [Encoders -> Seq(0 .. MaxClouds)]
    /\ codeQ \in [Encoders -> Seq(0 .. MaxClouds)]
    /\ filter \in [Encoders -> {"test", "dequeue", "filter", "leave", "exited"}]
    /\ coder \in [Encoders -> {"test", "dequeue", "encode", "leave", "exited"}]
    /\ filterPC \in [Encoders -> 0 .. MaxClouds]
    /\ coderPC \in [Encoders -> 0 .. MaxClouds]
    /\ result \in [Encoders -> 0 .. MaxClouds]
    /\ nextIn \in Encoders /\ nextOut \in Encoders /\ closing \in Encoders
    /\ owner \in {"open", "signal", "nudge", "join", "closed", "freed"}
    /\ reader \in {"idle", "test", "fallAsleep", "asleep", "available", "sized"}
    /\ sized \in 0 .. MaxClouds /\ fed \in 0 .. MaxClouds
    /\ got \in Seq(0 .. MaxClouds)

\* With at most n_parallel clouds ahead, the reader gets what was fed, in the
\* order of feeding, none twice and none left out in between, although the
\* encoders work at their own pace.
InOrder == \A i \in 1 .. Len(got) : got[i] = i

\* The clouds encoder e has or had in its hands and not delivered.
Holding(e) ==
    {filterPC[e], coderPC[e], result[e]}
    \cup {filterQ[e][i] : i \in 1 .. Len(filterQ[e])}
    \cup {codeQ[e][i] : i \in 1 .. Len(codeQ[e])}

\* Until an encoder gives up, no cloud is lost: each one that was fed and not
\* copied is somewhere in the encoder whose turn it was.
NoneLost ==
    (\A e \in Encoders : alive[e] /\ filter[e] # "leave" /\ coder[e] # "leave") =>
        \A i \in Clouds : Len(got) < i /\ i <= fed =>
            i \in Holding((i - 1) % NumEncoders)

\* Nothing that is fed goes missing or astray.
DeliveredInOrder == InOrder /\ NoneLost

\* What available() has promised stays until copy_data() has copied it: no
\* later result takes its place, and close() does not discard it.
PromiseStands ==
    reader \in {"available", "sized"} =>
        \/ result'[nextOut] = result[nextOut]
        \/ Len(got') = Len(got) + 1 /\ got'[Len(got')] = result[nextOut]
PromiseKept == [][PromiseStands]_vars

\* A thread in available(true) for a cloud that was fed gets an answer, unless
\* an encoder gives up.
FedIsAvailable ==
    (reader \in {"test", "fallAsleep", "asleep"} /\ fed > Len(got))
        ~> (reader \in {"available", "idle"} \/ \E e \in Encoders : ~alive[e])

\* close() returns: the threads are woken up, whatever they were waiting for.
CloseReturns == owner = "nudge" ~> owner = "closed"
=============================================================================

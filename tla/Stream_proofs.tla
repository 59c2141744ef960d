---------------------------- MODULE Stream_proofs ---------------------------
(***************************************************************************)
(* Proofs about the two ends of a stream: the threaded encoders (Encoder)  *)
(* and the viewer (Viewer), under the specification MCStream gives both.   *)
(*                                                                         *)
(* Encoder.  Why do n_parallel encoders that work at their own pace return *)
(* the clouds in the order of feeding?  As long as no more clouds are on   *)
(* their way than there are encoders, an encoder has at most one of them   *)
(* (OneAtATime), the one with its number (OwnClouds), and the two turns    *)
(* count what was fed and what was copied (Turns).                         *)
(*                                                                         *)
(* Viewer.  While forcedrop is not set, a source thread with --nodrop      *)
(* never gives up a cloud (Patient).                                       *)
(***************************************************************************)
EXTENDS MCStream, Integers, TLAPS

-----------------------------------------------------------------------------
(* The inductive invariant of the encoders                                 *)

\* m_next_in and m_next_out count modulo n_parallel, and the owner keeps to
\* its window.
Turns ==
    /\ nextIn = fed % NumEncoders /\ nextOut = Len(got) % NumEncoders
    /\ Len(got) <= fed /\ fed - Len(got) <= Window

\* A cloud in the hands of encoder e was fed in e's turn and is not copied yet.
Own(e, i) == i # 0 => Len(got) < i /\ i <= fed /\ (i - 1) % NumEncoders = e

OwnClouds == \A e \in Encoders : \A i \in Holding(e) : Own(e, i)

\* A queue that holds no cloud, or at most one; nullptrs do not count.
NoCloud(q) == \A i \in 1 .. Len(q) : q[i] = 0
OneCloud(q) == \A i, j \in 1 .. Len(q) : q[i] # 0 /\ q[j] # 0 => i = j

\* On its way through the encoder a cloud is in one place, and alone.
Alone(e) ==
    /\ OneCloud(filterQ[e]) /\ OneCloud(codeQ[e])
    /\ \/ NoCloud(filterQ[e])
       \/ filterPC[e] = 0 /\ NoCloud(codeQ[e]) /\ coderPC[e] = 0 /\ result[e] = 0
    /\ \/ filterPC[e] = 0
       \/ NoCloud(codeQ[e]) /\ coderPC[e] = 0 /\ result[e] = 0
    /\ NoCloud(codeQ[e]) \/ (coderPC[e] = 0 /\ result[e] = 0)
    /\ coderPC[e] = 0 \/ result[e] = 0

OneAtATime == \A e \in Encoders : Alone(e)

\* The threads have a cloud in hand exactly while they work on it.
InHand ==
    \A e \in Encoders :
        /\ filter[e] = "filter" <=> filterPC[e] # 0
        /\ coder[e] = "encode" <=> coderPC[e] # 0

\* What available() and get_encoded_size() have told the reader still holds.
Told ==
    /\ reader \in {"available", "sized"} => result[nextOut] # 0
    /\ reader = "sized" => sized = result[nextOut]
    /\ owner = "freed" => reader = "idle"

\* close() goes on only with an encoder that is told to stop.
ToldToStop ==
    owner \in {"nudge", "join", "closed", "freed"} => ~alive[closing]

EncoderInv ==
    /\ TypeOK /\ Turns /\ OwnClouds /\ OneAtATime
    /\ InHand /\ Told /\ ToldToStop /\ InOrder /\ NoneLost

-----------------------------------------------------------------------------
(* Arithmetic of the turns                                                 *)

LEMMA DivMod ==
    ASSUME NEW n \in Nat \ {0}, NEW a \in Nat
    PROVE  a = n * (a \div n) + (a % n) /\ a % n \in 0 .. n - 1 /\ a \div n \in Nat
OBVIOUS

LEMMA ModUnique ==
    ASSUME NEW n \in Nat \ {0}, NEW a \in Nat, NEW q \in Int, NEW r \in 0 .. n - 1,
           a = n * q + r
    PROVE  a % n = r
OBVIOUS

\* A turn that is passed on is the turn of the next number.
LEMMA ModSucc ==
    ASSUME NEW n \in Nat \ {0}, NEW a \in Nat
    PROVE  (a + 1) % n = ((a % n) + 1) % n
<1> DEFINE q == a \div n
           r == a % n
<1>1. a = n * q + r /\ q \in Nat /\ r \in 0 .. n - 1
  BY DivMod
<1> HIDE DEF q, r
<1>2. CASE r + 1 < n
  <2>1. a + 1 = n * q + (r + 1)
    BY <1>1
  <2>2. (a + 1) % n = r + 1 /\ (r + 1) % n = r + 1
    BY <2>1, <1>1, <1>2, ModUnique
  <2> QED BY <2>2 DEF r
<1>3. CASE r + 1 = n
  <2>1. a + 1 = n * (q + 1) + 0
    BY <1>1, <1>3
  <2>2. (a + 1) % n = 0 /\ (r + 1) % n = 0
    BY <2>1, <1>1, <1>3, ModUnique
  <2> QED BY <2>2 DEF r
<1> QED BY <1>1, <1>2, <1>3

\* Numbers less than n apart take different turns.
LEMMA ModDistinct ==
    ASSUME NEW n \in Nat \ {0}, NEW a \in Nat, NEW b \in Nat, a < b, b - a < n
    PROVE  a % n # b % n
<1> DEFINE q == a \div n
           r == a % n
           p == b \div n
           s == b % n
<1>1. a = n * q + r /\ b = n * p + s /\ q \in Nat /\ p \in Nat /\ r \in 0 .. n - 1
  BY DivMod
<1> SUFFICES ASSUME r = s PROVE FALSE
  OBVIOUS
<1> HIDE DEF q, r, p, s
<1>2. b - a = n * (p - q)
  BY <1>1
<1>3. CASE p - q >= 1
  <2>1. n * (p - q) >= n
    BY <1>3, <1>1
  <2> QED BY <2>1, <1>2
<1>4. CASE p - q <= 0
  <2>1. n * (p - q) <= 0
    BY <1>4, <1>1
  <2> QED BY <2>1, <1>2
<1> QED BY <1>3, <1>4, <1>1

-----------------------------------------------------------------------------
(* Queues                                                                  *)

LEMMA ItemOf ==
    ASSUME NEW S, NEW q \in Seq(S), NEW i \in 1 .. Len(q)
    PROVE  q[i] \in S
OBVIOUS

\* The items of a queue from which the first is taken.
LEMMA TailOf ==
    ASSUME NEW S, NEW q \in Seq(S), q # <<>>
    PROVE  /\ Head(q) = q[1] /\ Head(q) \in S /\ Tail(q) \in Seq(S)
           /\ Len(q) \in Nat \ {0} /\ Len(Tail(q)) = Len(q) - 1
           /\ \A i \in 1 .. Len(Tail(q)) : Tail(q)[i] = q[i + 1]
OBVIOUS

\* The items of a queue to which one is added.
LEMMA AppendTo ==
    ASSUME NEW S, NEW q \in Seq(S), NEW v \in S
    PROVE  /\ Append(q, v) \in Seq(S) /\ Len(Append(q, v)) = Len(q) + 1
           /\ Append(q, v)[Len(q) + 1] = v
           /\ \A i \in 1 .. Len(q) : Append(q, v)[i] = q[i]
OBVIOUS

Items(q) == {q[i] : i \in 1 .. Len(q)}

LEMMA ItemsType ==
    ASSUME NEW q \in Seq(0 .. MaxClouds)
    PROVE  Items(q) \subseteq 0 .. MaxClouds
BY ItemOf DEF Items

LEMMA ItemsAfterTail ==
    ASSUME NEW q \in Seq(0 .. MaxClouds), q # <<>>
    PROVE  Items(q) = {Head(q)} \cup Items(Tail(q))
<1>1. /\ Head(q) = q[1] /\ Len(q) \in Nat \ {0} /\ Len(Tail(q)) = Len(q) - 1
      /\ \A i \in 1 .. Len(Tail(q)) : Tail(q)[i] = q[i + 1]
  BY TailOf
<1>2. ASSUME NEW x \in Items(q) PROVE x \in {Head(q)} \cup Items(Tail(q))
  <2>1. PICK i \in 1 .. Len(q) : x = q[i]
    BY DEF Items
  <2>2. CASE i = 1
    BY <1>1, <2>1, <2>2
  <2>3. CASE i # 1
    <3>1. i - 1 \in 1 .. Len(Tail(q)) /\ Tail(q)[i - 1] = q[i - 1 + 1] /\ i - 1 + 1 = i
      BY <1>1, <2>3
    <3> QED BY <2>1, <3>1 DEF Items
  <2> QED BY <2>2, <2>3
<1>3. Head(q) \in Items(q)
  BY <1>1 DEF Items
<1>4. ASSUME NEW x \in Items(Tail(q)) PROVE x \in Items(q)
  <2>1. PICK i \in 1 .. Len(Tail(q)) : x = Tail(q)[i]
    BY DEF Items
  <2>2. i + 1 \in 1 .. Len(q) /\ x = q[i + 1]
    BY <1>1, <2>1
  <2> QED BY <2>2 DEF Items
<1> QED BY <1>2, <1>3, <1>4

LEMMA ItemsAfterAppend ==
    ASSUME NEW q \in Seq(0 .. MaxClouds), NEW v \in 0 .. MaxClouds
    PROVE  Items(Append(q, v)) = Items(q) \cup {v}
<1> DEFINE r == Append(q, v)
<1>1. /\ Len(r) = Len(q) + 1 /\ r[Len(q) + 1] = v /\ Len(q) \in Nat
      /\ \A i \in 1 .. Len(q) : r[i] = q[i]
  BY AppendTo
<1> HIDE DEF r
<1>2. \A i \in 1 .. Len(r) : i \in 1 .. Len(q) \/ i = Len(q) + 1
  BY <1>1
<1>3. Items(r) = Items(q) \cup {v}
  BY <1>1, <1>2 DEF Items
<1> QED BY <1>3 DEF r

LEMMA CloudsAfterTail ==
    ASSUME NEW q \in Seq(0 .. MaxClouds), q # <<>>
    PROVE  /\ NoCloud(q) => NoCloud(Tail(q))
           /\ OneCloud(q) => OneCloud(Tail(q))
           /\ OneCloud(q) /\ Head(q) # 0 => NoCloud(Tail(q))
<1>1. /\ Head(q) = q[1] /\ Len(q) \in Nat \ {0} /\ Len(Tail(q)) = Len(q) - 1
      /\ \A i \in 1 .. Len(Tail(q)) : Tail(q)[i] = q[i + 1]
  BY TailOf
<1> QED BY <1>1 DEF NoCloud, OneCloud

LEMMA CloudsAfterAppend ==
    ASSUME NEW q \in Seq(0 .. MaxClouds), NEW v \in 0 .. MaxClouds
    PROVE  /\ NoCloud(q) => OneCloud(Append(q, v))
           /\ NoCloud(q) /\ v = 0 => NoCloud(Append(q, v))
           /\ OneCloud(q) /\ v = 0 => OneCloud(Append(q, v))
<1>1. /\ Len(Append(q, v)) = Len(q) + 1 /\ Append(q, v)[Len(q) + 1] = v
      /\ \A i \in 1 .. Len(q) : Append(q, v)[i] = q[i]
      /\ Len(q) \in Nat
  BY AppendTo
<1>2. \A i \in 1 .. Len(q) + 1 : i \in 1 .. Len(q) \/ i = Len(q) + 1
  BY <1>1
<1> QED BY <1>1, <1>2 DEF NoCloud, OneCloud

\* Waking up a thread adds no cloud to its queue, and removes none.
LEMMA NudgedQueue ==
    ASSUME NEW q \in Seq(0 .. MaxClouds), NEW r \in Nudged(q)
    PROVE  /\ r \in Seq(0 .. MaxClouds)
           /\ NoCloud(q) => NoCloud(r)
           /\ OneCloud(q) => OneCloud(r)
           /\ Items(q) \subseteq Items(r) /\ Items(r) \subseteq Items(q) \cup {0}
<1>0. 0 \in 0 .. MaxClouds
  BY EncoderAssumption
<1>1. CASE r = q
  BY <1>1 DEF NoCloud, OneCloud
<1>2. CASE r = Append(q, 0)
  <2>1. r \in Seq(0 .. MaxClouds)
    BY <1>0, <1>2, AppendTo
  <2>2. Items(r) = Items(q) \cup {0}
    BY <1>0, <1>2, ItemsAfterAppend, Zenon
  <2>3. (NoCloud(q) => NoCloud(r)) /\ (OneCloud(q) => OneCloud(r))
    BY <1>0, <1>2, CloudsAfterAppend
  <2> QED BY <2>1, <2>2, <2>3
<1>3. CASE r = <<0>> /\ q = <<>>
  BY <1>0, <1>3 DEF NoCloud, OneCloud, Items
<1> QED BY <1>1, <1>2, <1>3 DEF Nudged

-----------------------------------------------------------------------------
(* The encoders: every step preserves EncoderInv                           *)

\* The steps that change neither a queue nor a cloud's place.
Plain(e) == FilterTests(e) \/ CoderTests(e) \/ CoderLeaves(e)
Waits ==
    \/ CloseSignals \/ CloseJoins
    \/ Available \/ AvailableTests \/ AvailableSleeps \/ GetSize \/ SpuriousWakeup

LEMMA EncoderCases ==
    ASSUME Next
    PROVE  \/ \E e \in Encoders :
                \/ Plain(e) \/ FilterTakes(e) \/ FilterPasses(e) \/ FilterFails(e)
                \/ FilterLeaves(e) \/ CoderTakes(e) \/ Encodes(e) \/ EncodeFails(e)
           \/ Waits \/ Feed \/ CloseNudges \/ EnqueuesCollide \/ Free \/ Copy
BY DEF Next, Filter, Coder, Closing, Reader, Plain, Waits

LEMMA EncoderInit == Init => EncoderInv
<1> SUFFICES ASSUME Init PROVE EncoderInv
  OBVIOUS
<1> USE EncoderAssumption DEF Init
<1>1. TypeOK
  BY DEF TypeOK, Encoders
<1>2. Turns
  <2>1. 0 % NumEncoders = 0
    BY ModUnique
  <2> QED BY <2>1 DEF Turns
<1>3. OwnClouds /\ OneAtATime /\ InHand
  BY DEF OwnClouds, Own, Holding, OneAtATime, Alone, OneCloud, NoCloud, InHand
<1>4. Told /\ ToldToStop /\ InOrder
  BY DEF Told, ToldToStop, InOrder
<1>5. NoneLost
  BY DEF NoneLost, Clouds
<1> QED BY <1>1, <1>2, <1>3, <1>4, <1>5 DEF EncoderInv

LEMMA TurnIn == ASSUME NEW n \in Nat PROVE n % NumEncoders \in Encoders
BY EncoderAssumption, DivMod DEF Encoders

LEMMA EncoderTypeStep == TypeOK /\ Next => TypeOK'
<1> SUFFICES ASSUME TypeOK, Next PROVE TypeOK'
  OBVIOUS
<1>0. 0 \in 0 .. MaxClouds /\ <<>> \in Seq(0 .. MaxClouds) /\ Encoders \subseteq Nat
  BY EncoderAssumption DEF Encoders
<1>1. ASSUME NEW e \in Encoders, Plain(e) PROVE TypeOK'
  BY <1>1 DEF TypeOK, Plain, FilterTests, CoderTests, CoderLeaves, Set, ReaderNotified,
     queues, filters, coders, feeding, reading
<1>2. ASSUME NEW e \in Encoders, FilterTakes(e) PROVE TypeOK'
  <2>1. Head(filterQ[e]) \in 0 .. MaxClouds /\ Tail(filterQ[e]) \in Seq(0 .. MaxClouds)
    BY <1>2, TailOf DEF FilterTakes, TypeOK
  <2> QED BY <1>2, <2>1 DEF TypeOK, FilterTakes, Set, queues, filters, coders, feeding, reading
<1>3. ASSUME NEW e \in Encoders, FilterPasses(e) PROVE TypeOK'
  <2>1. Append(codeQ[e], filterPC[e]) \in Seq(0 .. MaxClouds)
    BY AppendTo DEF TypeOK
  <2> QED BY <1>3, <2>1, <1>0 DEF TypeOK, FilterPasses, Set, queues, filters, coders, feeding, reading
<1>4. ASSUME NEW e \in Encoders, FilterFails(e) PROVE TypeOK'
  BY <1>4, <1>0 DEF TypeOK, FilterFails, Set, queues, filters, coders, feeding, reading
<1>5. ASSUME NEW e \in Encoders, FilterLeaves(e) PROVE TypeOK'
  <2>1. \A q \in Nudged(codeQ[e]) : q \in Seq(0 .. MaxClouds)
    BY NudgedQueue DEF TypeOK
  <2> QED BY <1>5, <2>1 DEF TypeOK, FilterLeaves, Set, queues, filters, coders, feeding, reading
<1>6. ASSUME NEW e \in Encoders, CoderTakes(e) PROVE TypeOK'
  <2>1. Head(codeQ[e]) \in 0 .. MaxClouds /\ Tail(codeQ[e]) \in Seq(0 .. MaxClouds)
    BY <1>6, TailOf DEF CoderTakes, TypeOK
  <2> QED BY <1>6, <2>1 DEF TypeOK, CoderTakes, Set, queues, filters, coders, feeding, reading
<1>7. ASSUME NEW e \in Encoders, Encodes(e) \/ EncodeFails(e) PROVE TypeOK'
  <2>1. CASE Encodes(e)
    BY <2>1, <1>0 DEF TypeOK, Encodes, Set, ReaderNotified,
       queues, filters, coders, feeding, reading
  <2>2. CASE EncodeFails(e)
    BY <2>2, <1>0 DEF TypeOK, EncodeFails, Set, ReaderNotified,
       queues, filters, coders, feeding, reading
  <2> QED BY <1>7, <2>1, <2>2
<1>8. CASE Waits
  BY <1>8 DEF TypeOK, Waits, CloseSignals, CloseJoins, Available, AvailableTests,
     AvailableSleeps, GetSize, SpuriousWakeup, Set, ReaderNotified,
     queues, filters, coders, feeding, reading
<1>9. CASE Feed
  <2>1. fed + 1 \in 0 .. MaxClouds
    BY <1>9, EncoderAssumption DEF Feed, TypeOK
  <2>2. Append(filterQ[nextIn], fed + 1) \in Seq(0 .. MaxClouds)
    BY <2>1, AppendTo DEF TypeOK
  <2>3. (nextIn + 1) % NumEncoders \in Encoders
    BY <1>0, TurnIn DEF TypeOK
  <2> QED BY <1>9, <2>1, <2>2, <2>3 DEF TypeOK, Feed, Set, queues, filters, coders, feeding, reading
<1>10. CASE CloseNudges \/ EnqueuesCollide
  <2>1. /\ \A q \in Nudged(codeQ[closing]) : q \in Seq(0 .. MaxClouds)
        /\ \A q \in Nudged(filterQ[closing]) : q \in Seq(0 .. MaxClouds)
    BY NudgedQueue DEF TypeOK
  <2>2. <<0, 0>> \in Seq(0 .. MaxClouds)
    BY <1>0
  <2>3. CASE CloseNudges
    <3>1. codeQ' \in [Encoders -> Seq(0 .. MaxClouds)]
      BY <2>1, <2>3 DEF TypeOK, CloseNudges, Set
    <3>2. filterQ' \in [Encoders -> Seq(0 .. MaxClouds)]
      BY <2>1, <2>3 DEF TypeOK, CloseNudges, Set
    <3> QED BY <2>3, <3>1, <3>2 DEF TypeOK, CloseNudges, filters, coders, reading
  <2>4. CASE EnqueuesCollide
    BY <1>0, <2>1, <2>2, <2>4 DEF TypeOK, EnqueuesCollide, Set, coders, reading
  <2> QED BY <1>10, <2>3, <2>4
<1>11. CASE Free
  BY <1>0, <1>11 DEF TypeOK, Free, queues, filters, coders, feeding, reading
<1>12. CASE Copy
  <2>1. Append(got, result[nextOut]) \in Seq(0 .. MaxClouds)
    BY AppendTo DEF TypeOK
  <2>2. (nextOut + 1) % NumEncoders \in Encoders
    BY <1>0, TurnIn DEF TypeOK
  <2> QED BY <1>0, <1>12, <2>1, <2>2 DEF TypeOK, Copy, Set, queues, filters, coders, feeding, reading
<1> QED BY EncoderCases, <1>1, <1>2, <1>3, <1>4, <1>5, <1>6, <1>7, <1>8, <1>9, <1>10, <1>11, <1>12

LEMMA HoldingType ==
    ASSUME TypeOK, NEW e \in Encoders
    PROVE  Holding(e) \subseteq 0 .. MaxClouds
<1>1. /\ {filterPC[e], coderPC[e], result[e]} \subseteq 0 .. MaxClouds
      /\ filterQ[e] \in Seq(0 .. MaxClouds) /\ codeQ[e] \in Seq(0 .. MaxClouds)
  BY DEF TypeOK
<1> QED BY <1>1, ItemOf DEF Holding

\* Encoder e has no cloud.
NothingIn(e) ==
    /\ NoCloud(filterQ[e]) /\ NoCloud(codeQ[e])
    /\ filterPC[e] = 0 /\ coderPC[e] = 0 /\ result[e] = 0

\* The encoder whose turn it is to be fed is empty: what it had has been
\* copied, or the owner would be further ahead of the reader than allowed.
LEMMA RoomForOne ==
    ASSUME Window <= NumEncoders, TypeOK, Turns, OwnClouds, fed - Len(got) < Window
    PROVE  NothingIn(nextIn)
<1>0. nextIn \in Encoders /\ fed \in Nat /\ Len(got) \in Nat
  BY EncoderAssumption DEF TypeOK
<1>1. ASSUME NEW i \in 0 .. MaxClouds, Own(nextIn, i), i # 0 PROVE FALSE
  <2>1. Len(got) < i /\ i <= fed /\ (i - 1) % NumEncoders = fed % NumEncoders
    BY <1>1 DEF Own, Turns
  <2>2. i - 1 \in Nat /\ i - 1 < fed /\ fed - (i - 1) < NumEncoders
    BY <2>1, <1>0, EncoderAssumption
  <2> QED BY <2>1, <2>2, <1>0, EncoderAssumption, ModDistinct
<1>2. Holding(nextIn) \subseteq {0}
  BY <1>0, <1>1, HoldingType DEF OwnClouds
<1> QED BY <1>2 DEF NothingIn, NoCloud, Holding

\* What the reader copies is the next cloud; no other encoder has that one.
LEMMA NextInTurn ==
    ASSUME Window <= NumEncoders, TypeOK, Turns, OwnClouds, Told, reader = "sized"
    PROVE  /\ result[nextOut] = Len(got) + 1 /\ Len(got) + 1 <= fed
           /\ \A e \in Encoders, i \in 0 .. MaxClouds :
                e # nextOut /\ Own(e, i) => i # Len(got) + 1
<1>0. nextOut \in Encoders /\ fed \in Nat /\ Len(got) \in Nat
  BY EncoderAssumption DEF TypeOK
<1> DEFINE r == result[nextOut]
<1>1. /\ r \in Nat /\ Len(got) < r /\ r <= fed
      /\ (r - 1) % NumEncoders = Len(got) % NumEncoders
  <2>1. r \in 0 .. MaxClouds /\ r # 0
    BY <1>0 DEF TypeOK, Told
  <2>2. Own(nextOut, r)
    BY <1>0 DEF OwnClouds, Holding
  <2> QED BY <2>1, <2>2, EncoderAssumption DEF Own, Turns
<1>2. r - 1 \in Nat /\ r - 1 >= Len(got) /\ r - 1 - Len(got) < NumEncoders
  BY <1>0, <1>1, EncoderAssumption DEF Turns
<1>3. r - 1 = Len(got)
  BY <1>0, <1>1, <1>2, EncoderAssumption, ModDistinct
<1>4. ASSUME NEW e \in Encoders, NEW i \in 0 .. MaxClouds, e # nextOut, Own(e, i)
      PROVE  i # Len(got) + 1
  <2> SUFFICES ASSUME i = Len(got) + 1 PROVE FALSE
    OBVIOUS
  <2>1. i # 0 /\ i - 1 = Len(got)
    BY <1>0
  <2> QED BY <1>4, <2>1 DEF Own, Turns
<1> QED BY <1>0, <1>1, <1>3, <1>4

LEMMA TurnsStep ==
    ASSUME Window <= NumEncoders, EncoderInv, Next
    PROVE  Turns'
<1> USE DEF EncoderInv
<1>0. Len(got) \in Nat /\ fed \in Nat
  BY EncoderAssumption DEF TypeOK
<1>1. ASSUME NEW e \in Encoders,
             \/ Plain(e) \/ FilterTakes(e) \/ FilterPasses(e) \/ FilterFails(e)
             \/ FilterLeaves(e) \/ CoderTakes(e) \/ Encodes(e) \/ EncodeFails(e)
      PROVE  Turns'
  BY <1>1 DEF Turns, Plain, FilterTests, CoderTests, CoderLeaves, FilterTakes, FilterPasses,
     FilterFails, FilterLeaves, CoderTakes, Encodes, EncodeFails, feeding, reading
<1>2. CASE Waits \/ CloseNudges \/ EnqueuesCollide \/ Free
  BY <1>2 DEF Turns, Waits, CloseSignals, CloseJoins, Available, AvailableTests,
     AvailableSleeps, GetSize, SpuriousWakeup, CloseNudges, EnqueuesCollide, Free,
     feeding, reading
<1>3. CASE Feed
  <2>1. nextIn' = (fed + 1) % NumEncoders
    BY <1>0, <1>3, EncoderAssumption, ModSucc DEF Feed, Turns
  <2> QED BY <2>1, <1>0, <1>3, EncoderAssumption DEF Feed, Turns, reading
<1>4. CASE Copy
  <2>1. got' = Append(got, result[nextOut]) /\ Len(got) + 1 <= fed
    BY <1>4, NextInTurn DEF Copy, Told
  <2>2. Len(got') = Len(got) + 1
    BY <2>1, AppendTo DEF TypeOK
  <2>3. nextOut' = (Len(got) + 1) % NumEncoders
    BY <1>0, <1>4, EncoderAssumption, ModSucc DEF Copy, Turns
  <2> QED BY <2>1, <2>2, <2>3, <1>0, <1>4, EncoderAssumption DEF Copy, Turns, feeding
<1> QED BY EncoderCases, <1>1, <1>2, <1>3, <1>4

\* What an encoder has, as the items of its queues and what its threads hold.
Parts(e) ==
    {filterPC[e], coderPC[e], result[e]} \cup Items(filterQ[e]) \cup Items(codeQ[e])

\* No step but feed() brings a cloud into an encoder.
LEMMA HoldingStep ==
    ASSUME TypeOK, TypeOK', Next, ~Feed
    PROVE  \A e \in Encoders : Parts(e)' \subseteq Parts(e) \cup {0}
<1> USE DEF Parts, Set
<1>1. ASSUME NEW e \in Encoders, Plain(e) \/ FilterFails(e) \/ EncodeFails(e) \/ Encodes(e)
      PROVE \A d \in Encoders : Parts(d)' \subseteq Parts(d) \cup {0}
  <2> SUFFICES ASSUME NEW d \in Encoders PROVE Parts(d)' \subseteq Parts(d) \cup {0}
    OBVIOUS
  <2>1. /\ filterQ' = filterQ /\ codeQ' = codeQ
        /\ filterPC'[d] \in {filterPC[d], 0} /\ coderPC'[d] \in {coderPC[d], 0}
        /\ result'[d] \in {result[d], coderPC[d]}
    <3>1. CASE Plain(e)
      BY <3>1 DEF Plain, FilterTests, CoderTests, CoderLeaves, queues, filters, coders
    <3>2. CASE FilterFails(e) \/ EncodeFails(e)
      BY <3>2 DEF TypeOK, FilterFails, EncodeFails, queues, filters, coders
    <3>3. CASE Encodes(e)
      BY <3>3 DEF TypeOK, Encodes, queues, filters
    <3> QED BY <1>1, <3>1, <3>2, <3>3
  <2> QED BY <2>1
<1>2. ASSUME NEW e \in Encoders, FilterTakes(e)
      PROVE \A d \in Encoders : Parts(d)' \subseteq Parts(d) \cup {0}
  <2>1. Items(filterQ[e]) = {Head(filterQ[e])} \cup Items(Tail(filterQ[e]))
    BY <1>2, ItemsAfterTail DEF FilterTakes, TypeOK
  <2> SUFFICES ASSUME NEW d \in Encoders PROVE Parts(d)' \subseteq Parts(d) \cup {0}
    OBVIOUS
  <2>2. codeQ' = codeQ /\ coderPC' = coderPC /\ result' = result
    BY <1>2 DEF FilterTakes, coders
  <2>3. /\ filterQ'[d] = IF d = e THEN Tail(filterQ[e]) ELSE filterQ[d]
        /\ filterPC'[d] = IF d = e THEN Head(filterQ[e]) ELSE filterPC[d]
    BY <1>2 DEF TypeOK, FilterTakes
  <2> QED BY <2>1, <2>2, <2>3
<1>3. ASSUME NEW e \in Encoders, CoderTakes(e)
      PROVE \A d \in Encoders : Parts(d)' \subseteq Parts(d) \cup {0}
  <2>1. Items(codeQ[e]) = {Head(codeQ[e])} \cup Items(Tail(codeQ[e]))
    BY <1>3, ItemsAfterTail DEF CoderTakes, TypeOK
  <2> SUFFICES ASSUME NEW d \in Encoders PROVE Parts(d)' \subseteq Parts(d) \cup {0}
    OBVIOUS
  <2>2. filterQ' = filterQ /\ filterPC' = filterPC /\ result' = result
    BY <1>3 DEF CoderTakes, filters
  <2>3. /\ codeQ'[d] = IF d = e THEN Tail(codeQ[e]) ELSE codeQ[d]
        /\ coderPC'[d] = IF d = e THEN Head(codeQ[e]) ELSE coderPC[d]
    BY <1>3 DEF TypeOK, CoderTakes
  <2> QED BY <2>1, <2>2, <2>3
<1>4. ASSUME NEW e \in Encoders, FilterPasses(e)
      PROVE \A d \in Encoders : Parts(d)' \subseteq Parts(d) \cup {0}
  <2>1. Items(Append(codeQ[e], filterPC[e])) = Items(codeQ[e]) \cup {filterPC[e]}
    <3>1. codeQ[e] \in Seq(0 .. MaxClouds) /\ filterPC[e] \in 0 .. MaxClouds
      BY DEF TypeOK
    <3> QED BY <3>1, ItemsAfterAppend, Zenon
  <2> SUFFICES ASSUME NEW d \in Encoders PROVE Parts(d)' \subseteq Parts(d) \cup {0}
    OBVIOUS
  <2>2. filterQ' = filterQ /\ coderPC' = coderPC /\ result' = result
    BY <1>4 DEF FilterPasses, coders
  <2>3. /\ codeQ'[d] = IF d = e THEN Append(codeQ[e], filterPC[e]) ELSE codeQ[d]
        /\ filterPC'[d] = IF d = e THEN 0 ELSE filterPC[d]
    BY <1>4 DEF TypeOK, FilterPasses
  <2> QED BY <2>1, <2>2, <2>3
<1>5. ASSUME NEW e \in Encoders, FilterLeaves(e)
      PROVE \A d \in Encoders : Parts(d)' \subseteq Parts(d) \cup {0}
  <2>1. \A q \in Nudged(codeQ[e]) : Items(q) \subseteq Items(codeQ[e]) \cup {0}
    BY NudgedQueue DEF TypeOK
  <2> SUFFICES ASSUME NEW d \in Encoders PROVE Parts(d)' \subseteq Parts(d) \cup {0}
    OBVIOUS
  <2>2. filterQ' = filterQ /\ filterPC' = filterPC /\ coderPC' = coderPC /\ result' = result
    BY <1>5 DEF FilterLeaves, coders
  <2>3. codeQ'[d] = codeQ[d] \/ (d = e /\ codeQ'[d] \in Nudged(codeQ[e]))
    <3>1. PICK q \in Nudged(codeQ[e]) : codeQ' = Set(codeQ, e, q)
      BY <1>5 DEF FilterLeaves
    <3> QED BY <3>1 DEF TypeOK
  <2> QED BY <2>1, <2>2, <2>3
<1>6. CASE Waits
  BY <1>6 DEF Waits, CloseSignals, CloseJoins, Available, AvailableTests,
     AvailableSleeps, GetSize, SpuriousWakeup, queues, filters, coders, feeding, reading
<1>7. CASE Free
  BY <1>7 DEF Free, queues, filters, coders, reading
<1>8. CASE CloseNudges \/ EnqueuesCollide
  <2>1. /\ \A q \in Nudged(codeQ[closing]) : Items(q) \subseteq Items(codeQ[closing]) \cup {0}
        /\ \A q \in Nudged(filterQ[closing]) : Items(q) \subseteq Items(filterQ[closing]) \cup {0}
    BY NudgedQueue DEF TypeOK
  <2> SUFFICES ASSUME NEW d \in Encoders PROVE Parts(d)' \subseteq Parts(d) \cup {0}
    OBVIOUS
  <2>2. coderPC' = coderPC /\ result' = result /\ filterPC'[d] \in {filterPC[d], 0}
    BY <1>8 DEF TypeOK, CloseNudges, EnqueuesCollide, filters, coders, reading
  <2>3. Items(filterQ'[d]) \subseteq Items(filterQ[d]) \cup {0}
    BY <1>8, <2>1 DEF TypeOK, CloseNudges, EnqueuesCollide
  <2>4. Items(codeQ'[d]) \subseteq Items(codeQ[d]) \cup {0}
    <3>1. Items(<<0, 0>>) = {0}
      BY DEF Items
    <3> QED BY <1>8, <2>1, <3>1 DEF TypeOK, CloseNudges, EnqueuesCollide
  <2> QED BY <2>2, <2>3, <2>4
<1>9. CASE Copy
  BY <1>9 DEF TypeOK, Copy, queues, filters, coders, feeding
<1> QED BY EncoderCases, <1>1, <1>2, <1>3, <1>4, <1>5, <1>6, <1>7, <1>8, <1>9

LEMMA HoldingParts ==
    /\ \A e \in Encoders : Holding(e) = Parts(e)
    /\ \A e \in Encoders : Holding(e)' = Parts(e)'
BY DEF Holding, Parts, Items

\* feed() brings the next cloud to the encoder whose turn it is.
LEMMA HoldingFeed ==
    ASSUME TypeOK, TypeOK', Feed
    PROVE  \A e \in Encoders :
             \/ Holding(e)' = Holding(e)
             \/ e = nextIn /\ Holding(e)' = Holding(e) \cup {fed + 1}
<1>1. fed + 1 \in 0 .. MaxClouds
  BY DEF Feed, TypeOK
<1>2. filterQ[nextIn] \in Seq(0 .. MaxClouds)
  BY DEF TypeOK
<1>3. Items(Append(filterQ[nextIn], fed + 1)) = Items(filterQ[nextIn]) \cup {fed + 1}
  BY <1>1, <1>2, ItemsAfterAppend, Zenon
<1>4. UNCHANGED <<codeQ, filterPC, coderPC, result>>
  BY DEF Feed, filters, coders
<1> SUFFICES ASSUME NEW e \in Encoders
             PROVE  \/ Parts(e)' = Parts(e)
                    \/ e = nextIn /\ Parts(e)' = Parts(e) \cup {fed + 1}
  BY HoldingParts
<1>5. \/ filterQ'[e] = filterQ[e]
      \/ e = nextIn /\ filterQ'[e] = Append(filterQ[e], fed + 1)
  BY DEF Feed, Set, TypeOK
<1> QED BY <1>3, <1>4, <1>5 DEF Parts

LEMMA CountsStep ==
    ASSUME Next, ~Feed, ~Copy
    PROVE  fed' = fed /\ got' = got
<1>1. ASSUME NEW e \in Encoders,
             \/ Plain(e) \/ FilterTakes(e) \/ FilterPasses(e) \/ FilterFails(e)
             \/ FilterLeaves(e) \/ CoderTakes(e) \/ Encodes(e) \/ EncodeFails(e)
      PROVE  fed' = fed /\ got' = got
  BY <1>1 DEF Plain, FilterTests, CoderTests, CoderLeaves, FilterTakes, FilterPasses,
     FilterFails, FilterLeaves, CoderTakes, Encodes, EncodeFails, feeding, reading
<1>2. CASE Waits \/ CloseNudges \/ EnqueuesCollide \/ Free
  BY <1>2 DEF Waits, CloseSignals, CloseJoins, Available, AvailableTests,
     AvailableSleeps, GetSize, SpuriousWakeup, CloseNudges, EnqueuesCollide, Free,
     feeding, reading
<1> QED BY EncoderCases, <1>1, <1>2

LEMMA OwnCloudsStep ==
    ASSUME Window <= NumEncoders, EncoderInv, TypeOK', Next
    PROVE  OwnClouds'
<1> USE DEF EncoderInv
<1>0. Len(got) \in Nat /\ fed \in Nat /\ 0 .. MaxClouds \subseteq Nat
  BY EncoderAssumption DEF TypeOK
<1>1. \A e \in Encoders : Holding(e) \subseteq 0 .. MaxClouds /\ Holding(e)' \subseteq 0 .. MaxClouds
  <2>1. \A e \in Encoders : Holding(e) \subseteq 0 .. MaxClouds
    BY HoldingType
  <2>2. \A e \in Encoders : Parts(e)' \subseteq 0 .. MaxClouds
    <3> SUFFICES ASSUME NEW e \in Encoders PROVE Parts(e)' \subseteq 0 .. MaxClouds
      OBVIOUS
    <3>1. /\ filterQ'[e] \in Seq(0 .. MaxClouds) /\ codeQ'[e] \in Seq(0 .. MaxClouds)
          /\ {filterPC'[e], coderPC'[e], result'[e]} \subseteq 0 .. MaxClouds
      BY DEF TypeOK
    <3>2. Items(filterQ'[e]) \subseteq 0 .. MaxClouds /\ Items(codeQ'[e]) \subseteq 0 .. MaxClouds
      BY <3>1, ItemsType
    <3> QED BY <3>1, <3>2 DEF Parts
  <2> QED BY <2>1, <2>2, HoldingParts
<1>2. \A e : Own(e, 0)'
  BY DEF Own
<1>3. CASE Feed
  <2>1. fed' = fed + 1 /\ nextIn \in Encoders /\ got' = got
    BY <1>3 DEF Feed, TypeOK, reading
  <2>2. \A e \in Encoders, i \in 0 .. MaxClouds : Own(e, i) => Own(e, i)'
    BY <2>1, <1>0 DEF Own
  <2>3. \A e, i : e = nextIn /\ i = fed + 1 => Own(e, i)'
    <3>1. fed + 1 - 1 = fed
      BY <1>0
    <3> QED BY <2>1, <1>0, <3>1 DEF Own, Turns
  <2> QED BY <1>1, <1>3, <2>1, <2>2, <2>3, HoldingFeed DEF OwnClouds
<1>4. CASE Copy
  <2>1. /\ result[nextOut] = Len(got) + 1
        /\ \A e \in Encoders, i \in 0 .. MaxClouds :
             e # nextOut /\ Own(e, i) => i # Len(got) + 1
    BY <1>4, NextInTurn DEF Copy
  <2>2. /\ got' = Append(got, result[nextOut]) /\ result' = Set(result, nextOut, 0)
        /\ UNCHANGED <<filterQ, codeQ, filterPC, coderPC, fed>>
        /\ nextOut \in Encoders
    BY <1>4 DEF Copy, Told, queues, filters, coders, feeding, TypeOK
  <2>3. Len(got') = Len(got) + 1
    BY <2>2, AppendTo DEF TypeOK
  <2>4. \A e \in Encoders \ {nextOut}, i \in 0 .. MaxClouds : Own(e, i) => Own(e, i)'
    BY <2>1, <2>2, <2>3, <1>0 DEF Own
  <2>5. \A e : e = nextOut => Holding(e)' \subseteq {0}
    <3>1. /\ NoCloud(filterQ[nextOut]) /\ NoCloud(codeQ[nextOut])
          /\ filterPC[nextOut] = 0 /\ coderPC[nextOut] = 0
      BY <2>1, <2>2, <1>0 DEF OneAtATime, Alone
    <3>2. result'[nextOut] = 0
      BY <2>2 DEF Set, TypeOK
    <3> QED BY <2>2, <3>1, <3>2 DEF Holding, NoCloud
  <2>6. \A e \in Encoders : Holding(e)' \subseteq Holding(e) \cup {0}
    <3>1. ~Feed
      BY <1>4 DEF Copy, Feed, reading, TypeOK
    <3> QED BY <3>1, HoldingStep, HoldingParts
  <2> QED BY <1>1, <1>2, <2>4, <2>5, <2>6 DEF OwnClouds
<1>5. CASE ~Feed /\ ~Copy
  <2>1. fed' = fed /\ got' = got
    BY <1>5, CountsStep
  <2>2. \A e \in Encoders : Holding(e)' \subseteq Holding(e) \cup {0}
    BY <1>5, HoldingStep, HoldingParts
  <2>3. \A e \in Encoders, i \in 0 .. MaxClouds : Own(e, i) => Own(e, i)'
    BY <2>1 DEF Own
  <2> QED BY <1>1, <1>2, <2>2, <2>3 DEF OwnClouds
<1> QED BY <1>3, <1>4, <1>5

LEMMA InHandStep ==
    ASSUME TypeOK, InHand, Next
    PROVE  InHand'
<1>1. ASSUME NEW e \in Encoders,
             Plain(e) \/ FilterFails(e) \/ EncodeFails(e) \/ Encodes(e) \/ FilterPasses(e)
      PROVE  InHand'
  <2>1. CASE Plain(e)
    <3>1. CASE FilterTests(e)
      BY <3>1, SMTT(20) DEF InHand, TypeOK, FilterTests, Set, coders
    <3>2. CASE CoderTests(e) \/ CoderLeaves(e)
      <4>1. CASE CoderTests(e)
        BY <4>1 DEF InHand, TypeOK, CoderTests, Set, filters
      <4>2. CASE CoderLeaves(e)
        BY <4>2 DEF InHand, TypeOK, CoderLeaves, Set, filters
      <4> QED BY <3>2, <4>1, <4>2
    <3> QED BY <2>1, <3>1, <3>2 DEF Plain
  <2>2. CASE FilterFails(e) \/ FilterPasses(e)
    <3>1. CASE FilterFails(e)
      BY <3>1 DEF InHand, TypeOK, FilterFails, Set, coders
    <3>2. CASE FilterPasses(e)
      BY <3>2 DEF InHand, TypeOK, FilterPasses, Set, coders
    <3> QED BY <2>2, <3>1, <3>2
  <2>3. CASE EncodeFails(e) \/ Encodes(e)
    <3>1. CASE EncodeFails(e)
      BY <3>1 DEF InHand, TypeOK, EncodeFails, Set, filters
    <3>2. CASE Encodes(e)
      BY <3>2 DEF InHand, TypeOK, Encodes, Set, filters
    <3> QED BY <2>3, <3>1, <3>2
  <2> QED BY <1>1, <2>1, <2>2, <2>3
<1>2. ASSUME NEW e \in Encoders, FilterTakes(e) \/ FilterLeaves(e) PROVE InHand'
  <2>1. coder' = coder /\ coderPC' = coderPC
    BY <1>2 DEF FilterTakes, FilterLeaves, coders
  <2>2. ASSUME NEW d \in Encoders PROVE filter'[d] = "filter" <=> filterPC'[d] # 0
    <3>1. CASE d # e
      BY <1>2, <3>1 DEF InHand, TypeOK, FilterTakes, FilterLeaves, Set
    <3>2. CASE d = e /\ FilterTakes(e)
      <4> DEFINE h == Head(filterQ[e])
      <4>1. filterPC'[e] = h /\ ((h # 0 /\ filter'[e] = "filter") \/ (h = 0 /\ filter'[e] = "leave"))
        BY <3>2 DEF TypeOK, FilterTakes, Set
      <4> HIDE DEF h
      <4> QED BY <3>2, <4>1
    <3>3. CASE d = e /\ FilterLeaves(e)
      BY <3>3 DEF InHand, TypeOK, FilterLeaves, Set
    <3> QED BY <1>2, <3>1, <3>2, <3>3
  <2> QED BY <2>1, <2>2 DEF InHand
<1>3. ASSUME NEW e \in Encoders, CoderTakes(e) PROVE InHand'
  <2>1. filter' = filter /\ filterPC' = filterPC
    BY <1>3 DEF CoderTakes, filters
  <2>2. ASSUME NEW d \in Encoders PROVE coder'[d] = "encode" <=> coderPC'[d] # 0
    <3>1. CASE d # e
      BY <1>3, <3>1 DEF InHand, TypeOK, CoderTakes, Set
    <3>2. CASE d = e
      BY <1>3, <3>2 DEF TypeOK, CoderTakes, Set
    <3> QED BY <3>1, <3>2
  <2> QED BY <2>1, <2>2 DEF InHand
<1>4. CASE Waits
  BY <1>4 DEF InHand, Waits, CloseSignals, CloseJoins, Available, AvailableTests,
     AvailableSleeps, GetSize, SpuriousWakeup, filters, coders
<1>5. CASE Free \/ Feed \/ CloseNudges \/ Copy
  BY <1>5 DEF InHand, Free, Feed, CloseNudges, Copy, filters, coders
<1>6. CASE EnqueuesCollide
  BY <1>6 DEF InHand, TypeOK, EnqueuesCollide, Set, coders
<1> QED BY EncoderCases, <1>1, <1>2, <1>3, <1>4, <1>5, <1>6

LEMMA ToldToStopStep ==
    ASSUME TypeOK, ToldToStop, Next
    PROVE  ToldToStop'
<1>1. ASSUME NEW e \in Encoders,
             \/ Plain(e) \/ FilterTakes(e) \/ FilterPasses(e) \/ FilterFails(e)
             \/ FilterLeaves(e) \/ CoderTakes(e) \/ Encodes(e) \/ EncodeFails(e)
      PROVE  ToldToStop'
  <2>1. UNCHANGED <<owner, closing>>
    BY <1>1 DEF Plain, FilterTests, CoderTests, CoderLeaves, FilterTakes, FilterPasses,
       FilterFails, FilterLeaves, CoderTakes, Encodes, EncodeFails, feeding
  <2>2. alive' = alive \/ alive' = Set(alive, e, FALSE)
    BY <1>1 DEF Plain, FilterTests, CoderTests, CoderLeaves, FilterTakes, FilterPasses,
       FilterFails, FilterLeaves, CoderTakes, Encodes, EncodeFails
  <2> QED BY <2>1, <2>2 DEF ToldToStop, TypeOK, Set
<1>2. CASE Waits
  <2>1. CASE CloseSignals
    BY <2>1 DEF ToldToStop, TypeOK, Set, CloseSignals
  <2>2. CASE CloseJoins
    BY <2>2 DEF ToldToStop, TypeOK, CloseJoins
  <2>3. CASE Available \/ AvailableTests \/ AvailableSleeps \/ GetSize \/ SpuriousWakeup
    BY <2>3 DEF ToldToStop, Available, AvailableTests, AvailableSleeps, GetSize,
       SpuriousWakeup, feeding
  <2> QED BY <1>2, <2>1, <2>2, <2>3 DEF Waits
<1>3. CASE Free \/ Feed \/ CloseNudges \/ EnqueuesCollide \/ Copy
  BY <1>3 DEF ToldToStop, Free, Feed, CloseNudges, EnqueuesCollide, Copy, feeding
<1> QED BY EncoderCases, <1>1, <1>2, <1>3

\* The result that the reader was told about stays: its encoder has nothing
\* else to store.
LEMMA ResultStays ==
    ASSUME EncoderInv, Next, reader \in {"available", "sized"}, ~Copy
    PROVE  result'[nextOut] = result[nextOut]
<1> USE DEF EncoderInv
<1>0. nextOut \in Encoders /\ result[nextOut] # 0 /\ coder[nextOut] # "encode"
  BY DEF Told, TypeOK, OneAtATime, Alone, InHand
<1>1. ASSUME NEW e \in Encoders,
             \/ Plain(e) \/ FilterTakes(e) \/ FilterPasses(e) \/ FilterFails(e)
             \/ FilterLeaves(e) \/ CoderTakes(e) \/ EncodeFails(e)
      PROVE  result' = result
  BY <1>1 DEF Plain, FilterTests, CoderTests, CoderLeaves, FilterTakes, FilterPasses,
     FilterFails, FilterLeaves, CoderTakes, EncodeFails
<1>2. ASSUME NEW e \in Encoders, Encodes(e) PROVE result'[nextOut] = result[nextOut]
  BY <1>0, <1>2 DEF Encodes, Set, TypeOK
<1>3. CASE Waits
  BY <1>3 DEF Waits, CloseSignals, CloseJoins, Available, AvailableTests,
     AvailableSleeps, GetSize, SpuriousWakeup
<1>4. CASE Feed \/ CloseNudges \/ EnqueuesCollide \/ Free
  BY <1>4 DEF Feed, CloseNudges, EnqueuesCollide, Free
<1> QED BY EncoderCases, <1>1, <1>2, <1>3, <1>4

LEMMA ToldStep ==
    ASSUME EncoderInv, TypeOK', Next
    PROVE  Told'
<1> USE DEF EncoderInv
<1>1. ASSUME NEW e \in Encoders,
             \/ Plain(e) \/ FilterTakes(e) \/ FilterPasses(e) \/ FilterFails(e)
             \/ FilterLeaves(e) \/ CoderTakes(e) \/ Encodes(e) \/ EncodeFails(e)
      PROVE  /\ reader' \in {reader, "test"} /\ (reader = "idle" => reader' = "idle")
             /\ UNCHANGED <<nextOut, sized, owner>> /\ ~Copy
  BY <1>1 DEF Plain, FilterTests, CoderTests, CoderLeaves, FilterTakes, FilterPasses,
     FilterFails, FilterLeaves, CoderTakes, Encodes, EncodeFails, Copy, ReaderNotified,
     feeding, reading, Set, TypeOK
<1>2. CASE \E e \in Encoders :
                \/ Plain(e) \/ FilterTakes(e) \/ FilterPasses(e) \/ FilterFails(e)
                \/ FilterLeaves(e) \/ CoderTakes(e) \/ Encodes(e) \/ EncodeFails(e)
  <2>1. reader' \in {"available", "sized"} => result'[nextOut] = result[nextOut]
    BY <1>1, <1>2, ResultStays
  <2> QED BY <1>1, <1>2, <2>1 DEF Told
<1>3. CASE Waits
  <2>1. CASE CloseSignals \/ CloseJoins
    BY <2>1 DEF Told, TypeOK, ReaderNotified, CloseSignals, CloseJoins, reading
  <2>2. CASE Available \/ AvailableTests \/ AvailableSleeps
    BY <2>2 DEF Told, TypeOK, Available, AvailableTests, AvailableSleeps, feeding, reading
  <2>3. CASE GetSize \/ SpuriousWakeup
    BY <2>3 DEF Told, TypeOK, GetSize, SpuriousWakeup, feeding
  <2> QED BY <1>3, <2>1, <2>2, <2>3 DEF Waits
<1>4. CASE Feed \/ CloseNudges \/ EnqueuesCollide \/ Free
  BY <1>4 DEF Told, Feed, CloseNudges, EnqueuesCollide, Free, reading
<1>5. CASE Copy
  BY <1>5 DEF Told, Copy
<1> QED BY EncoderCases, <1>2, <1>3, <1>4, <1>5

LEMMA InOrderStep ==
    ASSUME Window <= NumEncoders, EncoderInv, Next
    PROVE  InOrder'
<1> USE DEF EncoderInv
<1>1. CASE Copy
  <2>1. got' = Append(got, Len(got) + 1)
    BY <1>1, NextInTurn DEF Copy, Told
  <2>2. Len(got) + 1 \in 0 .. MaxClouds
    BY <1>1, NextInTurn, EncoderAssumption DEF Copy, TypeOK
  <2>3. /\ Len(got') = Len(got) + 1 /\ got'[Len(got) + 1] = Len(got) + 1
        /\ \A i \in 1 .. Len(got) : got'[i] = got[i]
        /\ Len(got) \in Nat
    <3>1. got \in Seq(0 .. MaxClouds)
      BY DEF TypeOK
    <3> QED BY <2>1, <2>2, <3>1, AppendTo, SMTT(20)
  <2>4. \A i \in 1 .. Len(got') : i \in 1 .. Len(got) \/ i = Len(got) + 1
    BY <2>3
  <2> QED BY <2>3, <2>4 DEF InOrder
<1>2. CASE Feed
  BY <1>2 DEF InOrder, Feed, reading
<1>3. CASE ~Feed /\ ~Copy
  BY <1>3, CountsStep DEF InOrder
<1> QED BY <1>1, <1>2, <1>3

LEMMA OneAtATimeStep ==
    ASSUME Window <= NumEncoders, TypeOK, Turns, OwnClouds, OneAtATime, InHand, Next
    PROVE  OneAtATime'
<1> SUFFICES ASSUME NEW d \in Encoders PROVE Alone(d)'
  BY DEF OneAtATime
<1>0. /\ Alone(d) /\ InHand /\ filterQ[d] \in Seq(0 .. MaxClouds)
      /\ codeQ[d] \in Seq(0 .. MaxClouds) /\ filterPC[d] \in 0 .. MaxClouds
  BY DEF OneAtATime, TypeOK
<1>1. ASSUME NEW e \in Encoders, Plain(e) \/ FilterFails(e) \/ EncodeFails(e) \/ Encodes(e)
      PROVE  Alone(d)'
  <2>1. filterQ' = filterQ /\ codeQ' = codeQ
    BY <1>1 DEF Plain, FilterTests, CoderTests, CoderLeaves, FilterFails, EncodeFails,
       Encodes, queues
  <2>2. CASE Plain(e)
    BY <1>0, <2>1, <2>2 DEF Alone, Plain, FilterTests, CoderTests, CoderLeaves, filters, coders
  <2>3. CASE FilterFails(e)
    BY <1>0, <2>1, <2>3 DEF Alone, FilterFails, Set, TypeOK, coders
  <2>4. CASE EncodeFails(e)
    BY <1>0, <2>1, <2>4 DEF Alone, EncodeFails, Set, TypeOK, filters
  <2>5. CASE Encodes(e)
    BY <1>0, <2>1, <2>5 DEF Alone, Encodes, Set, TypeOK, filters
  <2> QED BY <1>1, <2>2, <2>3, <2>4, <2>5
<1>2. ASSUME NEW e \in Encoders, FilterTakes(e) PROVE Alone(d)'
  <2>1. UNCHANGED <<codeQ, coderPC, result>>
    BY <1>2 DEF FilterTakes, coders
  <2>2. CASE d # e
    <3>1. filterQ'[d] = filterQ[d] /\ filterPC'[d] = filterPC[d]
      BY <1>2, <2>2 DEF FilterTakes, Set, TypeOK
    <3> QED BY <1>0, <2>1, <3>1 DEF Alone
  <2>3. CASE d = e
    <3>1. /\ filterQ'[d] = Tail(filterQ[d]) /\ filterPC'[d] = Head(filterQ[d])
          /\ filterPC[d] = 0 /\ filterQ[d] # <<>>
      BY <1>2, <2>3 DEF FilterTakes, Set, TypeOK, InHand
    <3>2. /\ NoCloud(filterQ[d]) => NoCloud(Tail(filterQ[d]))
          /\ OneCloud(Tail(filterQ[d])) 
          /\ Head(filterQ[d]) # 0 => NoCloud(Tail(filterQ[d]))
      BY <1>0, <3>1, CloudsAfterTail, Zenon DEF Alone
    <3>3. NoCloud(filterQ[d]) => Head(filterQ[d]) = 0
      BY <1>0, <3>1, TailOf DEF NoCloud
    <3> QED BY <1>0, <2>1, <3>1, <3>2, <3>3, Zenon DEF Alone
  <2> QED BY <2>2, <2>3
<1>3. ASSUME NEW e \in Encoders, CoderTakes(e) PROVE Alone(d)'
  <2>1. UNCHANGED <<filterQ, filterPC, result>>
    BY <1>3 DEF CoderTakes, filters
  <2>2. CASE d # e
    <3>1. codeQ'[d] = codeQ[d] /\ coderPC'[d] = coderPC[d]
      BY <1>3, <2>2 DEF CoderTakes, Set, TypeOK
    <3> QED BY <1>0, <2>1, <3>1 DEF Alone
  <2>3. CASE d = e
    <3>1. /\ codeQ'[d] = Tail(codeQ[d]) /\ coderPC'[d] = Head(codeQ[d])
          /\ coderPC[d] = 0 /\ codeQ[d] # <<>>
      BY <1>3, <2>3 DEF CoderTakes, Set, TypeOK, InHand
    <3>2. /\ NoCloud(codeQ[d]) => NoCloud(Tail(codeQ[d]))
          /\ OneCloud(Tail(codeQ[d]))
          /\ Head(codeQ[d]) # 0 => NoCloud(Tail(codeQ[d]))
      BY <1>0, <3>1, CloudsAfterTail, Zenon DEF Alone
    <3>3. NoCloud(codeQ[d]) => Head(codeQ[d]) = 0
      BY <1>0, <3>1, TailOf DEF NoCloud
    <3> QED BY <1>0, <2>1, <3>1, <3>2, <3>3, Zenon DEF Alone
  <2> QED BY <2>2, <2>3
<1>4. ASSUME NEW e \in Encoders, FilterPasses(e) PROVE Alone(d)'
  <2>1. UNCHANGED <<filterQ, coderPC, result>>
    BY <1>4 DEF FilterPasses, coders
  <2>2. CASE d # e
    <3>1. codeQ'[d] = codeQ[d] /\ filterPC'[d] = filterPC[d]
      BY <1>4, <2>2 DEF FilterPasses, Set, TypeOK
    <3> QED BY <1>0, <2>1, <3>1 DEF Alone
  <2>3. CASE d = e
    <3>1. /\ codeQ'[d] = Append(codeQ[d], filterPC[d]) /\ filterPC'[d] = 0
          /\ filterPC[d] # 0
      BY <1>4, <2>3 DEF FilterPasses, Set, TypeOK, InHand
    <3>2. NoCloud(codeQ[d]) /\ coderPC[d] = 0 /\ result[d] = 0 /\ NoCloud(filterQ[d])
      BY <1>0, <3>1 DEF Alone
    <3>3. OneCloud(Append(codeQ[d], filterPC[d]))
      BY <1>0, <3>2, CloudsAfterAppend, Zenon
    <3> QED BY <1>0, <2>1, <3>1, <3>2, <3>3, Zenon DEF Alone
  <2> QED BY <2>2, <2>3
<1>5. ASSUME NEW q \in Nudged(codeQ[d]), NEW r \in Nudged(filterQ[d]),
             codeQ'[d] \in {codeQ[d], q}, filterQ'[d] \in {filterQ[d], r},
             UNCHANGED <<coderPC, result>>, filterPC'[d] = filterPC[d]
      PROVE  Alone(d)'
  <2>1. /\ NoCloud(codeQ[d]) => NoCloud(codeQ'[d])
        /\ OneCloud(codeQ[d]) => OneCloud(codeQ'[d])
    BY <1>0, <1>5, NudgedQueue
  <2>2. /\ NoCloud(filterQ[d]) => NoCloud(filterQ'[d])
        /\ OneCloud(filterQ[d]) => OneCloud(filterQ'[d])
    BY <1>0, <1>5, NudgedQueue
  <2> QED BY <1>0, <1>5, <2>1, <2>2 DEF Alone
<1>6. \E q \in Nudged(codeQ[d]) : TRUE
  BY DEF Nudged
<1>7. \E r \in Nudged(filterQ[d]) : TRUE
  BY DEF Nudged
<1>8. ASSUME NEW e \in Encoders, FilterLeaves(e) PROVE Alone(d)'
  <2>1. PICK q \in Nudged(codeQ[e]) : codeQ' = Set(codeQ, e, q)
    BY <1>8 DEF FilterLeaves
  <2>2. UNCHANGED <<filterQ, filterPC, coderPC, result>>
    BY <1>8 DEF FilterLeaves, coders
  <2>3. \E p \in Nudged(codeQ[d]) : codeQ'[d] \in {codeQ[d], p}
    BY <1>6, <2>1 DEF Set, TypeOK
  <2> QED BY <1>5, <1>7, <2>2, <2>3
<1>9. CASE CloseNudges
  <2>1. PICK q \in Nudged(codeQ[closing]) : codeQ' = Set(codeQ, closing, q)
    BY <1>9 DEF CloseNudges
  <2>2. PICK r \in Nudged(filterQ[closing]) : filterQ' = Set(filterQ, closing, r)
    BY <1>9 DEF CloseNudges
  <2>3. UNCHANGED <<filterPC, coderPC, result>>
    BY <1>9 DEF CloseNudges, filters, coders
  <2>4. \E p \in Nudged(codeQ[d]) : codeQ'[d] \in {codeQ[d], p}
    BY <1>6, <2>1 DEF Set, TypeOK
  <2>5. \E p \in Nudged(filterQ[d]) : filterQ'[d] \in {filterQ[d], p}
    BY <1>7, <2>2 DEF Set, TypeOK
  <2> QED BY <1>5, <2>3, <2>4, <2>5
<1>10. CASE EnqueuesCollide
  <2>1. PICK r \in Nudged(filterQ[closing]) : filterQ' = Set(filterQ, closing, r)
    BY <1>10 DEF EnqueuesCollide
  <2>2. UNCHANGED <<coderPC, result>>
    BY <1>10 DEF EnqueuesCollide, coders
  <2>3. CASE d # closing
    <3>1. codeQ'[d] = codeQ[d] /\ filterQ'[d] = filterQ[d] /\ filterPC'[d] = filterPC[d]
      BY <1>10, <2>1, <2>3 DEF EnqueuesCollide, Set, TypeOK
    <3> QED BY <1>5, <1>6, <1>7, <2>2, <3>1
  <2>4. CASE d = closing
    <3>1. codeQ'[d] = <<0, 0>> /\ filterPC'[d] = 0 /\ filterPC[d] # 0 /\ filterQ'[d] = r
      BY <1>10, <2>1, <2>4 DEF EnqueuesCollide, Set, TypeOK, InHand
    <3>2. NoCloud(<<0, 0>>) /\ OneCloud(<<0, 0>>)
      BY DEF NoCloud, OneCloud
    <3>3. NoCloud(filterQ[d]) /\ OneCloud(filterQ[d]) /\ coderPC[d] = 0 /\ result[d] = 0
      BY <1>0, <3>1 DEF Alone
    <3>4. NoCloud(r) /\ OneCloud(r)
      BY <1>0, <2>4, <3>3, NudgedQueue
    <3> QED BY <2>2, <3>1, <3>2, <3>3, <3>4 DEF Alone
  <2> QED BY <2>3, <2>4
<1>11. CASE Waits
  BY <1>0, <1>11 DEF Alone, Waits, CloseSignals, CloseJoins, Available, AvailableTests,
     AvailableSleeps, GetSize, SpuriousWakeup, queues, filters, coders
<1>12. CASE Free
  BY <1>0, <1>12 DEF Alone, Free, queues, filters, coders
<1>13. CASE Copy
  <2>1. UNCHANGED <<filterQ, codeQ, filterPC, coderPC>> /\ result'[d] \in {result[d], 0}
    BY <1>13 DEF Copy, Set, TypeOK, queues, filters, coders
  <2> QED BY <1>0, <2>1 DEF Alone
<1>14. CASE Feed
  <2>1. UNCHANGED <<codeQ, filterPC, coderPC, result>>
    BY <1>14 DEF Feed, filters, coders
  <2>2. CASE filterQ'[d] = filterQ[d]
    BY <1>0, <2>1, <2>2 DEF Alone
  <2>3. CASE filterQ'[d] # filterQ[d]
    <3>1. d = nextIn /\ filterQ'[d] = Append(filterQ[d], fed + 1) /\ fed + 1 \in 0 .. MaxClouds
      <4>1. filterQ' = Set(filterQ, nextIn, Append(filterQ[nextIn], fed + 1))
        BY <1>14, <2>3 DEF Feed
      <4>2. d = nextIn
        BY <2>3, <4>1 DEF Set, TypeOK
      <4>3. filterQ'[d] = Append(filterQ[d], fed + 1)
        BY <4>1, <4>2 DEF Set, TypeOK
      <4>4. fed + 1 \in 0 .. MaxClouds
        BY <1>14, EncoderAssumption DEF Feed, TypeOK
      <4> QED BY <4>2, <4>3, <4>4
    <3>2. NothingIn(d)
      BY <1>14, <3>1, RoomForOne DEF Feed
    <3>3. OneCloud(Append(filterQ[d], fed + 1))
      BY <1>0, <3>1, <3>2, CloudsAfterAppend, Zenon DEF NothingIn
    <3> QED BY <1>0, <2>1, <3>1, <3>2, <3>3, Zenon DEF Alone, NothingIn
  <2> QED BY <2>2, <2>3
<1> QED BY EncoderCases, <1>1, <1>2, <1>3, <1>4, <1>8, <1>9, <1>10, <1>11, <1>12, <1>13, <1>14

\* No encoder has given up: the condition of NoneLost.
AllUp == \A e \in Encoders : alive[e] /\ filter[e] # "leave" /\ coder[e] # "leave"

\* A cloud leaves an encoder that does not give up in no step but copy_data().
LEMMA KeepStep ==
    ASSUME TypeOK, InHand, OneAtATime, ToldToStop, Next, ~Copy, AllUp'
    PROVE  AllUp /\ \A d \in Encoders : Parts(d) \subseteq Parts(d)' \cup {0}
<1>0. \A d \in Encoders : alive'[d] /\ filter'[d] # "leave" /\ coder'[d] # "leave"
  BY DEF AllUp
<1>1. ASSUME NEW e \in Encoders, Plain(e)
      PROVE  AllUp /\ \A d \in Encoders : Parts(d) \subseteq Parts(d)' \cup {0}
  <2>1. ~CoderLeaves(e)
    BY <1>0 DEF CoderLeaves, Set, TypeOK
  <2>2. UNCHANGED <<alive, queues, filterPC, coderPC, result>>
    BY <1>1, <2>1 DEF Plain, FilterTests, CoderTests, coders, filters
  <2>3. AllUp
    BY <1>0, <1>1, <2>1, <2>2 DEF AllUp, Plain, FilterTests, CoderTests, Set, TypeOK, coders, filters
  <2> QED BY <2>2, <2>3 DEF Parts, queues
<1>2. ASSUME NEW e \in Encoders, FilterTakes(e)
      PROVE  AllUp /\ \A d \in Encoders : Parts(d) \subseteq Parts(d)' \cup {0}
  <2>1. filterQ[e] \in Seq(0 .. MaxClouds) /\ filterQ[e] # <<>> /\ filterPC[e] = 0
    BY <1>2 DEF FilterTakes, TypeOK, InHand
  <2>2. Items(filterQ[e]) = {Head(filterQ[e])} \cup Items(Tail(filterQ[e]))
    BY <2>1, ItemsAfterTail
  <2>3. UNCHANGED <<codeQ, coderPC, result, coder>>
    BY <1>2 DEF FilterTakes, coders
  <2>4. ASSUME NEW d \in Encoders PROVE Parts(d) \subseteq Parts(d)' \cup {0}
    <3>1. CASE d = e
      <4>1. filterQ'[d] = Tail(filterQ[d]) /\ filterPC'[d] = Head(filterQ[d])
        BY <1>2, <3>1 DEF FilterTakes, Set, TypeOK
      <4> QED BY <2>1, <2>2, <2>3, <3>1, <4>1 DEF Parts
    <3>2. CASE d # e
      <4>1. filterQ'[d] = filterQ[d] /\ filterPC'[d] = filterPC[d]
        BY <1>2, <3>2 DEF FilterTakes, Set, TypeOK
      <4> QED BY <2>3, <4>1 DEF Parts
    <3> QED BY <3>1, <3>2
  <2>5. AllUp
    <3>1. alive' = alive /\ filter[e] = "dequeue" /\ filter' = Set(filter, e, "filter")
      BY <1>0, <1>2 DEF FilterTakes, Set, TypeOK
    <3> QED BY <1>0, <2>3, <3>1 DEF AllUp, Set, TypeOK
  <2> QED BY <2>4, <2>5
<1>3. ASSUME NEW e \in Encoders, CoderTakes(e)
      PROVE  AllUp /\ \A d \in Encoders : Parts(d) \subseteq Parts(d)' \cup {0}
  <2>1. codeQ[e] \in Seq(0 .. MaxClouds) /\ codeQ[e] # <<>> /\ coderPC[e] = 0
    BY <1>3 DEF CoderTakes, TypeOK, InHand
  <2>2. Items(codeQ[e]) = {Head(codeQ[e])} \cup Items(Tail(codeQ[e]))
    BY <2>1, ItemsAfterTail
  <2>3. UNCHANGED <<filterQ, filterPC, result, filter, alive>>
    BY <1>3 DEF CoderTakes, filters
  <2>4. ASSUME NEW d \in Encoders PROVE Parts(d) \subseteq Parts(d)' \cup {0}
    <3>1. CASE d = e
      <4>1. codeQ'[d] = Tail(codeQ[d]) /\ coderPC'[d] = Head(codeQ[d])
        BY <1>3, <3>1 DEF CoderTakes, Set, TypeOK
      <4> QED BY <2>1, <2>2, <2>3, <3>1, <4>1 DEF Parts
    <3>2. CASE d # e
      <4>1. codeQ'[d] = codeQ[d] /\ coderPC'[d] = coderPC[d]
        BY <1>3, <3>2 DEF CoderTakes, Set, TypeOK
      <4> QED BY <2>3, <4>1 DEF Parts
    <3> QED BY <3>1, <3>2
  <2>5. AllUp
    BY <1>0, <1>3, <2>3 DEF AllUp, CoderTakes, Set, TypeOK
  <2> QED BY <2>4, <2>5
<1>4. ASSUME NEW e \in Encoders, FilterPasses(e)
      PROVE  AllUp /\ \A d \in Encoders : Parts(d) \subseteq Parts(d)' \cup {0}
  <2>1. codeQ[e] \in Seq(0 .. MaxClouds) /\ filterPC[e] \in 0 .. MaxClouds
    BY DEF TypeOK
  <2>2. Items(Append(codeQ[e], filterPC[e])) = Items(codeQ[e]) \cup {filterPC[e]}
    BY <2>1, ItemsAfterAppend, Zenon
  <2>3. UNCHANGED <<alive, filterQ, coderPC, result, coder>>
    BY <1>4 DEF FilterPasses, coders
  <2>4. ASSUME NEW d \in Encoders PROVE Parts(d) \subseteq Parts(d)' \cup {0}
    <3>1. CASE d = e
      <4>1. codeQ'[d] = Append(codeQ[d], filterPC[d])
        BY <1>4, <3>1 DEF FilterPasses, Set, TypeOK
      <4> QED BY <2>2, <2>3, <3>1, <4>1 DEF Parts
    <3>2. CASE d # e
      <4>1. codeQ'[d] = codeQ[d] /\ filterPC'[d] = filterPC[d]
        BY <1>4, <3>2 DEF FilterPasses, Set, TypeOK
      <4> QED BY <2>3, <4>1 DEF Parts
    <3> QED BY <3>1, <3>2
  <2>5. AllUp
    BY <1>0, <1>4, <2>3 DEF AllUp, FilterPasses, Set, TypeOK
  <2> QED BY <2>4, <2>5
<1>5. ASSUME NEW e \in Encoders, Encodes(e)
      PROVE  AllUp /\ \A d \in Encoders : Parts(d) \subseteq Parts(d)' \cup {0}
  <2>1. UNCHANGED <<alive, filterQ, codeQ, filterPC, filter>>
    BY <1>5 DEF Encodes, queues, filters
  <2>2. result[e] = 0
    BY <1>5 DEF Encodes, InHand, OneAtATime, Alone
  <2>3. ASSUME NEW d \in Encoders
        PROVE  {result[d], coderPC[d]} \subseteq {result'[d], coderPC'[d], 0}
    BY <1>5, <2>2 DEF Encodes, Set, TypeOK
  <2>4. \A d \in Encoders : Parts(d) \subseteq Parts(d)' \cup {0}
    BY <2>1, <2>3 DEF Parts
  <2>5. AllUp
    BY <1>0, <1>5, <2>1 DEF AllUp, Encodes, Set, TypeOK
  <2> QED BY <2>4, <2>5
<1>6. ASSUME NEW e \in Encoders, FilterFails(e) \/ FilterLeaves(e) \/ EncodeFails(e)
      PROVE  FALSE
  BY <1>0, <1>6 DEF FilterFails, FilterLeaves, EncodeFails, Set, TypeOK
<1>7. CASE Waits
  <2>1. ~CloseSignals
    BY <1>0 DEF CloseSignals, Set, TypeOK
  <2> QED BY <1>0, <1>7, <2>1 DEF Waits, CloseJoins, Available, AvailableTests, AvailableSleeps,
       GetSize, SpuriousWakeup, queues, filters, coders, AllUp, Parts
<1>8. CASE CloseNudges \/ EnqueuesCollide \/ Free
  <2>1. alive' = alive /\ ~alive[closing] /\ closing \in Encoders
    BY <1>8 DEF CloseNudges, EnqueuesCollide, Free, ToldToStop, TypeOK
  <2> QED BY <1>0, <2>1
<1>9. CASE Feed
  <2>1. UNCHANGED <<alive, codeQ, filterPC, coderPC, result, filter, coder>>
    BY <1>9 DEF Feed, filters, coders
  <2>2. AllUp
    BY <1>0, <2>1 DEF AllUp
  <2>3. ASSUME NEW d \in Encoders PROVE Parts(d) \subseteq Parts(d)'
    <3>1. fed + 1 \in 0 .. MaxClouds /\ filterQ[nextIn] \in Seq(0 .. MaxClouds)
      BY <1>9, EncoderAssumption DEF Feed, TypeOK
    <3>2. Items(Append(filterQ[nextIn], fed + 1)) = Items(filterQ[nextIn]) \cup {fed + 1}
      BY <3>1, ItemsAfterAppend, Zenon
    <3>3. \/ filterQ'[d] = filterQ[d]
          \/ d = nextIn /\ filterQ'[d] = Append(filterQ[d], fed + 1)
      BY <1>9 DEF Feed, Set, TypeOK
    <3> QED BY <2>1, <3>2, <3>3 DEF Parts
  <2> QED BY <2>2, <2>3
<1> QED BY EncoderCases, <1>1, <1>2, <1>3, <1>4, <1>5, <1>6, <1>7, <1>8, <1>9

LEMMA NoneLostStep ==
    ASSUME Window <= NumEncoders, EncoderInv, TypeOK', Next
    PROVE  NoneLost'
<1> USE DEF EncoderInv
<1>0. Len(got) \in Nat /\ fed \in Nat
  BY EncoderAssumption DEF TypeOK
<1> SUFFICES ASSUME AllUp', NEW i \in Clouds, Len(got') < i, i <= fed'
             PROVE  \A e \in Encoders : e = (i - 1) % NumEncoders => i \in Parts(e)'
  <2>1. \A j \in Clouds : (j - 1) % NumEncoders \in Encoders
    BY TurnIn DEF Clouds
  <2> QED BY <2>1, HoldingParts DEF NoneLost, AllUp
<1>1. i \in Nat \ {0}
  BY DEF Clouds
<1>2. ASSUME AllUp, Len(got) < i, i <= fed, NEW e \in Encoders, e = (i - 1) % NumEncoders
      PROVE  i \in Parts(e)
  BY <1>2, HoldingParts DEF NoneLost, AllUp
<1>3. CASE Copy
  <2>1. got' = Append(got, Len(got) + 1) /\ result[nextOut] = Len(got) + 1 /\ Len(got) + 1 <= fed
    BY <1>3, NextInTurn DEF Copy, Told
  <2>2. Len(got) + 1 \in 0 .. MaxClouds
    BY <1>0, <2>1, EncoderAssumption DEF TypeOK
  <2>3. Len(got') = Len(got) + 1
    BY <2>1, <2>2, AppendTo DEF TypeOK
  <2>4. UNCHANGED <<alive, filterQ, codeQ, filter, filterPC, coder, coderPC, fed>>
    BY <1>3 DEF Copy, queues, filters, coders, feeding
  <2>5. result' = Set(result, nextOut, 0)
    BY <1>3 DEF Copy, Told
  <2>6. AllUp /\ Len(got) < i /\ i <= fed /\ i # Len(got) + 1
    BY <1>0, <1>1, <2>3, <2>4 DEF AllUp
  <2>7. ASSUME NEW e \in Encoders, e = (i - 1) % NumEncoders PROVE i \in Parts(e)'
    <3>1. i \in Parts(e)
      BY <1>2, <2>6, <2>7
    <3>2. result'[e] = result[e] \/ result[e] # i
      BY <2>1, <2>5, <2>6 DEF Set, TypeOK
    <3> QED BY <2>4, <3>1, <3>2 DEF Parts
  <2> QED BY <2>7
<1>4. CASE ~Copy
  <2>1. AllUp /\ \A d \in Encoders : Parts(d) \subseteq Parts(d)' \cup {0}
    BY <1>4, KeepStep
  <2>2. got' = got
    BY <1>4, CountsStep DEF Feed, reading
  <2>3. CASE i <= fed
    BY <1>1, <1>2, <2>1, <2>2, <2>3
  <2>4. CASE ~(i <= fed)
    <3>1. Feed
      BY <1>4, <2>4, CountsStep
    <3>2. fed' = fed + 1 /\ i = fed + 1 /\ i - 1 = fed
      BY <1>0, <1>1, <2>4, <3>1 DEF Feed
    <3>3. filterQ' = Set(filterQ, nextIn, Append(filterQ[nextIn], fed + 1)) /\ nextIn \in Encoders
      BY <2>1, <3>1 DEF Feed, AllUp, TypeOK
    <3>4. fed + 1 \in 0 .. MaxClouds /\ filterQ[nextIn] \in Seq(0 .. MaxClouds)
      BY <3>1, EncoderAssumption DEF Feed, TypeOK
    <3>5. fed + 1 \in Items(Append(filterQ[nextIn], fed + 1))
      BY <3>4, ItemsAfterAppend, Zenon
    <3>6. ASSUME NEW e \in Encoders, e = (i - 1) % NumEncoders PROVE i \in Parts(e)'
      <4>1. e = nextIn
        BY <3>2, <3>6 DEF Turns
      <4>2. filterQ'[e] = Append(filterQ[nextIn], fed + 1)
        BY <3>3, <4>1 DEF Set, TypeOK
      <4> QED BY <3>2, <3>5, <4>2 DEF Parts
    <3> QED BY <3>6
  <2> QED BY <2>3, <2>4
<1> QED BY <1>3, <1>4

LEMMA EncoderStep ==
    ASSUME Window <= NumEncoders, EncoderInv, [Next]_vars
    PROVE  EncoderInv'
<1>1. CASE Next
  <2>1. TypeOK'
    BY <1>1, EncoderTypeStep DEF EncoderInv
  <2>2. Turns' /\ InOrder'
    BY <1>1, TurnsStep, InOrderStep
  <2>3. OwnClouds' /\ NoneLost' /\ Told'
    BY <1>1, <2>1, OwnCloudsStep, NoneLostStep, ToldStep
  <2>4. OneAtATime' /\ InHand' /\ ToldToStop'
    BY <1>1, OneAtATimeStep, InHandStep, ToldToStopStep DEF EncoderInv
  <2> QED BY <2>1, <2>2, <2>3, <2>4 DEF EncoderInv
<1>2. CASE UNCHANGED vars
  <2> USE <1>2 DEF vars, queues, filters, coders, feeding, reading
  <2>1. TypeOK' /\ InOrder' /\ Turns'
    BY DEF EncoderInv, TypeOK, InOrder, Turns
  <2>2. OwnClouds' /\ NoneLost'
    <3>1. \A e \in Encoders : Parts(e)' = Parts(e)
      BY DEF Parts
    <3>2. \A e \in Encoders : \A i : Own(e, i)' <=> Own(e, i)
      BY DEF Own
    <3>3. \A i \in Clouds : (i - 1) % NumEncoders \in Encoders
      BY TurnIn DEF Clouds
    <3>4. OwnClouds'
      BY <3>1, <3>2, HoldingParts DEF EncoderInv, OwnClouds
    <3>5. NoneLost'
      BY <3>1, <3>3, HoldingParts DEF EncoderInv, NoneLost
    <3> QED BY <3>4, <3>5
  <2>3. OneAtATime' /\ InHand'
    BY DEF EncoderInv, OneAtATime, Alone, InHand
  <2>4. Told' /\ ToldToStop'
    BY DEF EncoderInv, Told, ToldToStop
  <2> QED BY <2>1, <2>2, <2>3, <2>4 DEF EncoderInv
<1> QED BY <1>1, <1>2

LEMMA PromiseStep ==
    ASSUME EncoderInv, [Next]_vars
    PROVE  [PromiseStands]_vars
<1> SUFFICES ASSUME Next, reader \in {"available", "sized"}
             PROVE  \/ result'[nextOut] = result[nextOut]
                    \/ Len(got') = Len(got) + 1 /\ got'[Len(got')] = result[nextOut]
  BY DEF PromiseStands
<1>1. CASE ~Copy
  BY <1>1, ResultStays
<1>2. CASE Copy /\ got' = Append(got, result[nextOut])
  BY <1>2, AppendTo DEF EncoderInv, TypeOK
<1>3. CASE Copy /\ result' = result
  BY <1>3
<1> QED BY <1>1, <1>2, <1>3 DEF Copy

-----------------------------------------------------------------------------
(* The viewer                                                              *)

\* A source thread that may not drop waits for its place in the queue, and the
\* queue is emptied only when dropping is allowed.
Patient ==
    /\ nodrop /\ ~forcedrop => source # "tryPut"
    /\ main = "drain" => forcedrop
    /\ source \in {"feed", "put", "tryPut"} => grabbed # 0

ViewerInv == Vie!TypeOK /\ Patient /\ NothingSkipped

\* The types of the flags, and of the others.
FlagsOK ==
    {nodrop, endpaused, srcStopped, forcedrop, interrupted,
     paused, singleStep, pauseLater, stopRequested} \subseteq BOOLEAN

OthersOK ==
    /\ grabbed \in 0 .. MaxGrabbed /\ current \in 0 .. MaxGrabbed
    /\ queue \in Seq(1 .. MaxGrabbed) /\ Len(queue) <= QueueSize
    /\ source \in {"loop", "feed", "put", "tryPut", "exited"}
    /\ main \in {"continue", "fetch", "interact", "leave", "drain", "stopSource",
                 "join", "exited"}

\* The clouds behind the current one, up to and including the newest.
Following(hand) ==
    /\ current + Len(queue) + hand = grabbed
    /\ \A i \in 1 .. Len(queue) : queue[i] = current + i

\* The cloud in the hand of the source thread.
InFlight == IF source \in {"feed", "put", "tryPut"} THEN 1 ELSE 0

LEMMA SkippingIs ==
    /\ NothingSkipped <=> (nodrop /\ ~forcedrop => Following(InFlight))
    /\ NothingSkipped' <=> (nodrop' /\ ~forcedrop' => Following(InFlight)')
BY DEF NothingSkipped, Vie!NothingSkipped, Following, InFlight

LEMMA ViewerTypes ==
    /\ Vie!TypeOK <=> FlagsOK /\ OthersOK
    /\ Vie!TypeOK' <=> FlagsOK' /\ OthersOK'
BY DEF Vie!TypeOK, FlagsOK, OthersOK

LEMMA ViewerStart == Vie!Init => ViewerInv
<1> SUFFICES ASSUME Vie!Init PROVE ViewerInv
  OBVIOUS
<1>0. QueueSize \in Nat \ {0} /\ MaxGrabbed \in Nat
  BY ViewerAssumption DEF Vie!ConstantsOK
<1>1. FlagsOK
  BY DEF Vie!Init, FlagsOK
<1>2. OthersOK
  BY <1>0 DEF Vie!Init, OthersOK
<1>3. Patient /\ NothingSkipped
  BY DEF Vie!Init, Patient, NothingSkipped, Vie!NothingSkipped
<1> QED BY <1>1, <1>2, <1>3, ViewerTypes DEF ViewerInv

LEMMA FlagsStep ==
    ASSUME FlagsOK, Vie!Next
    PROVE  FlagsOK'
<1> USE DEF FlagsOK, Vie!controls, Vie!options, Vie!grabber
<1>1. CASE Vie!SourceThread \/ Vie!SourceGrabs \/ Vie!SourceEnds
  BY <1>1 DEF Vie!SourceThread, Vie!SourceStops, Vie!FeedTests, Vie!FeedPuts,
     Vie!SourceGrabs, Vie!SourceEnds
<1>2. CASE Vie!Continue
  BY <1>2 DEF Vie!Continue
<1>3. CASE Vie!Fetch
  BY <1>3 DEF Vie!Fetch, Vie!Shown
<1>4. CASE Vie!Interact
  BY <1>4 DEF Vie!Interact, Vie!Command
<1>5. CASE Vie!Leave \/ Vie!Drain \/ Vie!StopSource \/ Vie!JoinSource
  BY <1>5 DEF Vie!Leave, Vie!Drain, Vie!StopSource, Vie!JoinSource
<1>6. CASE Vie!WindowClosed \/ Vie!Interrupted
  BY <1>6 DEF Vie!WindowClosed, Vie!Interrupted
<1> QED BY <1>1, <1>2, <1>3, <1>4, <1>5, <1>6 DEF Vie!Next, Vie!MainThread

LEMMA ViewerStep ==
    ASSUME OthersOK, Patient, nodrop /\ ~forcedrop => Following(InFlight), Vie!Next
    PROVE  /\ OthersOK' /\ Patient'
           /\ nodrop' /\ ~forcedrop' => Following(InFlight)'
<1>0. QueueSize \in Nat \ {0} /\ MaxGrabbed \in Nat /\ Len(queue) \in Nat
  BY ViewerAssumption DEF Vie!ConstantsOK, OthersOK
<1>1. CASE Vie!SourceStops \/ Vie!SourceEnds \/ Vie!FeedTests
  BY <1>1 DEF OthersOK, Patient, Following, InFlight, Vie!SourceStops,
     Vie!SourceEnds, Vie!FeedTests, Vie!options
<1>2. CASE Vie!SourceGrabs
  BY <1>0, <1>2 DEF OthersOK, Patient, Following, InFlight, Vie!SourceGrabs, Vie!options
<1>3. CASE Vie!FeedPuts
  <2>0. /\ source \in {"put", "tryPut"} /\ source' = "loop"
        /\ UNCHANGED <<nodrop, grabbed, main, current, forcedrop>>
    BY <1>3 DEF Vie!FeedPuts, Vie!options
  <2>1. CASE queue' = queue /\ source = "tryPut"
    BY <1>0, <2>0, <2>1 DEF OthersOK, Patient
  <2>2. CASE ~Vie!Full /\ queue' = Append(queue, grabbed)
    <3>1. grabbed \in 1 .. MaxGrabbed
      BY <1>0, <2>0 DEF OthersOK, Patient
    <3>2. /\ queue' \in Seq(1 .. MaxGrabbed) /\ Len(queue') = Len(queue) + 1
          /\ queue'[Len(queue) + 1] = grabbed
          /\ \A i \in 1 .. Len(queue) : queue'[i] = queue[i]
      BY <2>2, <3>1, AppendTo DEF OthersOK
    <3>3. Len(queue') <= QueueSize
      BY <1>0, <2>2, <3>2 DEF OthersOK, Vie!Full
    <3>4. OthersOK' /\ Patient'
      BY <2>0, <3>2, <3>3 DEF OthersOK, Patient
    <3>5. ASSUME nodrop, ~forcedrop PROVE Following(InFlight)'
      <4>1. /\ current + Len(queue) + 1 = grabbed
            /\ \A i \in 1 .. Len(queue) : queue[i] = current + i
        BY <2>0, <3>5 DEF Following, InFlight
      <4>2. \A i \in 1 .. Len(queue') : i \in 1 .. Len(queue) \/ i = Len(queue) + 1
        BY <1>0, <3>2
      <4>3. /\ current + Len(queue') = grabbed
            /\ \A i \in 1 .. Len(queue') : queue'[i] = current + i
        <5>1. grabbed = current + (Len(queue) + 1) /\ current \in Nat /\ grabbed \in Nat
          BY <1>0, <4>1 DEF OthersOK
        <5>2. ASSUME NEW i \in 1 .. Len(queue') PROVE queue'[i] = current + i
          <6>1. CASE i \in 1 .. Len(queue)
            BY <3>2, <4>1, <6>1
          <6>2. CASE i = Len(queue) + 1
            BY <3>2, <5>1, <6>2
          <6> QED BY <4>2, <6>1, <6>2
        <5> QED BY <3>2, <5>1, <5>2
      <4> QED BY <1>0, <2>0, <3>2, <4>3 DEF Following, InFlight
    <3> QED BY <2>0, <3>4, <3>5
  <2> QED BY <1>3, <2>1, <2>2 DEF Vie!FeedPuts
<1>4. CASE Vie!Fetch
  <2>1. UNCHANGED <<nodrop, endpaused, grabbed, srcStopped, source, forcedrop, interrupted>>
        /\ main = "fetch" /\ main' \in {"continue", "interact"}
    BY <1>4 DEF Vie!Fetch, Vie!Shown, Vie!options, Vie!grabber
  <2>2. CASE queue' = queue /\ current' = current
    BY <2>1, <2>2 DEF OthersOK, Patient, Following, InFlight
  <2>3. ASSUME queue # <<>>
        PROVE  /\ Head(queue) = queue[1] /\ Head(queue) \in 1 .. MaxGrabbed
               /\ Tail(queue) \in Seq(1 .. MaxGrabbed)
               /\ 1 \in 1 .. Len(queue) /\ Len(Tail(queue)) = Len(queue) - 1
               /\ \A i \in 1 .. Len(Tail(queue)) :
                    Tail(queue)[i] = queue[i + 1] /\ i + 1 \in 1 .. Len(queue)
    BY <1>0, <2>3, TailOf DEF OthersOK
  <2>4. CASE queue # <<>> /\ queue' = Tail(queue) /\ current' = Head(queue)
    <3>1. OthersOK' /\ Patient'
      BY <1>0, <2>1, <2>3, <2>4 DEF OthersOK, Patient
    <3>2. ASSUME nodrop, ~forcedrop PROVE Following(InFlight)'
      <4>1. current' = current + 1 /\ \A i \in 1 .. Len(queue) : queue[i] = current + i
        BY <2>3, <2>4, <3>2 DEF Following
      <4>2. current' + Len(queue') = current + Len(queue)
        BY <1>0, <2>3, <2>4, <4>1 DEF OthersOK
      <4>3. \A i \in 1 .. Len(queue') : queue'[i] = current' + i
        <5> SUFFICES ASSUME NEW i \in 1 .. Len(queue') PROVE queue'[i] = current' + i
          OBVIOUS
        <5>1. queue'[i] = queue[i + 1] /\ i + 1 \in 1 .. Len(queue)
          BY <2>3, <2>4
        <5>2. queue[i + 1] = current + (i + 1) /\ current \in Nat /\ i \in Nat
          BY <1>0, <2>3, <2>4, <4>1, <5>1 DEF OthersOK
        <5> QED BY <4>1, <5>1, <5>2
      <4>4. InFlight' = InFlight /\ grabbed' = grabbed
        BY <2>1 DEF InFlight
      <4> QED BY <3>2, <4>2, <4>3, <4>4 DEF Following
    <3> QED BY <2>1, <3>1, <3>2
  <2>5. CASE queue # <<>> /\ queue' = Tail(queue) /\ current' = current /\ ~nodrop
    <3>1. OthersOK' /\ Patient'
      BY <1>0, <2>1, <2>3, <2>5, SMTT(20) DEF OthersOK, Patient
    <3> QED BY <2>1, <2>5, <3>1
  <2> QED BY <1>4, <2>2, <2>4, <2>5 DEF Vie!Fetch
<1>5. CASE Vie!Drain
  <2>1. forcedrop /\ forcedrop' = forcedrop
    BY <1>5 DEF Vie!Drain, Patient
  <2>2. queue' = queue \/ (queue # <<>> /\ queue' = Tail(queue))
    BY <1>5 DEF Vie!Drain
  <2>3. queue' \in Seq(1 .. MaxGrabbed) /\ Len(queue') <= QueueSize
    <3>1. queue \in Seq(1 .. MaxGrabbed) /\ Len(queue) <= QueueSize
      BY DEF OthersOK
    <3>2. CASE queue # <<>> /\ queue' = Tail(queue)
      BY <1>0, <3>1, <3>2, TailOf
    <3> QED BY <2>2, <3>1, <3>2
  <2> QED BY <1>5, <2>1, <2>3 DEF OthersOK, Patient, Vie!Drain, Vie!options, Vie!grabber
<1>6. CASE Vie!Continue \/ Vie!Interact \/ Vie!WindowClosed \/ Vie!JoinSource
  <2>1. /\ UNCHANGED <<nodrop, grabbed, source, queue, current, forcedrop>>
        /\ main' \in {"leave", "fetch", "continue", "exited"}
    BY <1>6 DEF Vie!Continue, Vie!Interact, Vie!WindowClosed, Vie!JoinSource, Vie!options,
       Vie!grabber
  <2> QED BY <2>1 DEF OthersOK, Patient, Following, InFlight
<1>7. CASE Vie!Leave
  BY <1>7 DEF OthersOK, Patient, Vie!Leave, Vie!options, Vie!grabber
<1>8. CASE Vie!Interrupted \/ Vie!StopSource
  BY <1>8 DEF OthersOK, Patient, Following, InFlight, Vie!Interrupted, Vie!StopSource,
     Vie!options, Vie!grabber
<1> QED BY <1>1, <1>2, <1>3, <1>4, <1>5, <1>6, <1>7, <1>8
        DEF Vie!Next, Vie!SourceThread, Vie!MainThread

-----------------------------------------------------------------------------
(* Both, under the specification that the run checks                       *)

LEMMA StreamSteps ==
    ASSUME [StreamNext]_allVars
    PROVE  /\ [Next]_vars
           /\ Vie!Next \/ UNCHANGED viewing
BY DEF StreamNext, RunsEncoder, RunsViewer, allVars, encoding

LEMMA ViewerInvStep ==
    ASSUME ViewerInv, Vie!Next \/ UNCHANGED viewing
    PROVE  ViewerInv'
<1>1. CASE Vie!Next
  <2>1. FlagsOK /\ OthersOK
    BY ViewerTypes DEF ViewerInv
  <2>2. FlagsOK'
    BY <1>1, <2>1, FlagsStep
  <2>3. OthersOK' /\ Patient' /\ NothingSkipped'
    BY <1>1, <2>1, ViewerStep, SkippingIs DEF ViewerInv
  <2> QED BY <2>2, <2>3, ViewerTypes DEF ViewerInv
<1>2. CASE UNCHANGED viewing
  BY <1>2 DEF viewing, ViewerInv, Vie!TypeOK, Patient, NothingSkipped, Vie!NothingSkipped
<1> QED BY <1>1, <1>2

\* The variables of the encoder and of the viewer have their types, whatever
\* the window: every place holds a cloud that was fed, or nothing.
THEOREM TypeCorrect == StreamSpec => []AllTypesOK
<1>1. StreamInit => TypeOK /\ ViewerInv
  BY EncoderInit, ViewerStart DEF StreamInit, EncoderInv
<1>2. TypeOK /\ ViewerInv /\ [StreamNext]_allVars => (TypeOK /\ ViewerInv)'
  <2> SUFFICES ASSUME TypeOK, ViewerInv, [StreamNext]_allVars PROVE TypeOK' /\ ViewerInv'
    OBVIOUS
  <2>1. ViewerInv'
    BY StreamSteps, ViewerInvStep
  <2>2. CASE Next
    BY <2>1, <2>2, EncoderTypeStep
  <2>3. CASE UNCHANGED vars
    BY <2>1, <2>3 DEF TypeOK, vars, queues, filters, coders, feeding, reading
  <2> QED BY <2>2, <2>3, StreamSteps
<1>3. TypeOK /\ ViewerInv => AllTypesOK
  BY DEF AllTypesOK, ViewerInv
<1> QED BY <1>1, <1>2, <1>3, PTL DEF StreamSpec

LEMMA EncoderInvariant ==
    ASSUME Window <= NumEncoders
    PROVE  StreamSpec => []EncoderInv
<1>1. StreamInit => EncoderInv
  BY EncoderInit DEF StreamInit
<1>2. EncoderInv /\ [StreamNext]_allVars => EncoderInv'
  BY StreamSteps, EncoderStep
<1> QED BY <1>1, <1>2, PTL DEF StreamSpec

\* With at most n_parallel clouds ahead of the reader, it gets what was fed, in
\* the order of feeding, none twice and none left out; and until an encoder
\* gives up, each cloud that was fed is in the encoder whose turn it was.
THEOREM EncoderKeepsOrder ==
    ASSUME Window <= NumEncoders
    PROVE  StreamSpec => []DeliveredInOrder
<1>1. EncoderInv => DeliveredInOrder
  BY DEF EncoderInv, DeliveredInOrder
<1> QED BY <1>1, EncoderInvariant, PTL

\* What available() has promised stays until copy_data() has copied it,
\* whatever the encoder threads and close() do meanwhile.
THEOREM PromiseIsKept ==
    ASSUME Window <= NumEncoders
    PROVE  StreamSpec => PromiseKept
<1>1. EncoderInv /\ [StreamNext]_allVars => [PromiseStands]_vars
  BY StreamSteps, PromiseStep
<1> QED BY <1>1, EncoderInvariant, PTL DEF StreamSpec, PromiseKept

\* With --nodrop the viewer shows every cloud in turn until it quits: those
\* behind the current one are in the queue or in the source thread's hand.
THEOREM ViewerSkipsNothing == StreamSpec => []NothingSkipped
<1>1. StreamInit => ViewerInv
  BY ViewerStart DEF StreamInit
<1>2. ViewerInv /\ [StreamNext]_allVars => ViewerInv'
  BY StreamSteps, ViewerInvStep
<1>3. ViewerInv => NothingSkipped
  BY DEF ViewerInv
<1> QED BY <1>1, <1>2, <1>3, PTL DEF StreamSpec
=============================================================================

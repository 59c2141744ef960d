---------------------------- MODULE Queues_proofs ---------------------------
(***************************************************************************)
(* Facts about queues, which the proofs about the threads that fill and    *)
(* empty them share: what a sequence holds when its head is taken or an    *)
(* element is added, and the least of a set of numbers.                    *)
(***************************************************************************)
EXTENDS Sequences, FiniteSetsExt, FiniteSetTheorems, SequenceTheorems, TLAPS

\* What is in queue q.
Items(q) == {q[i] : i \in 1 .. Len(q)}

LEMMA ItemOf ==
    ASSUME NEW S, NEW q \in Seq(S), NEW i \in 1 .. Len(q)
    PROVE  q[i] \in S
OBVIOUS

LEMMA ItemsType ==
    ASSUME NEW S, NEW q \in Seq(S)
    PROVE  Items(q) \subseteq S
BY ItemOf DEF Items

LEMMA QueueOfNumbers ==
    ASSUME NEW S \in SUBSET Nat, NEW q \in Seq(S)
    PROVE  q \in Seq(Nat)
<1>1. Len(q) \in Nat /\ q = [i \in 1 .. Len(q) |-> q[i]] /\ \A i \in 1 .. Len(q) : q[i] \in Nat
  OBVIOUS
<1>2. q \in [1 .. Len(q) -> Nat]
  BY <1>1
<1> QED BY <1>1, <1>2, SeqDef

\* A queue from which the first item is taken.
LEMMA TailOf ==
    ASSUME NEW S, NEW q \in Seq(S), q # <<>>
    PROVE  /\ Head(q) = q[1] /\ Head(q) \in S /\ Tail(q) \in Seq(S)
           /\ Len(q) \in Nat \ {0} /\ Len(Tail(q)) = Len(q) - 1
           /\ \A i \in 1 .. Len(Tail(q)) : Tail(q)[i] = q[i + 1]
OBVIOUS

\* A queue to which an item is added.
LEMMA AppendTo ==
    ASSUME NEW S, NEW q \in Seq(S), NEW v \in S
    PROVE  /\ Append(q, v) \in Seq(S) /\ Len(q) \in Nat
           /\ Len(Append(q, v)) = Len(q) + 1
           /\ Append(q, v)[Len(q) + 1] = v
           /\ \A i \in 1 .. Len(q) : Append(q, v)[i] = q[i]
OBVIOUS

LEMMA ItemsAfterTail ==
    ASSUME NEW S, NEW q \in Seq(S), q # <<>>
    PROVE  Items(q) = {Head(q)} \cup Items(Tail(q))
<1>1. /\ Head(q) = q[1] /\ Len(q) \in Nat \ {0} /\ Len(Tail(q)) = Len(q) - 1
      /\ \A i \in 1 .. Len(Tail(q)) : Tail(q)[i] = q[i + 1]
  BY TailOf
<1>2. ASSUME NEW x \in Items(q) PROVE x \in {Head(q)} \cup Items(Tail(q))
  <2>1. PICK i \in 1 .. Len(q) : x = q[i]
    BY DEF Items
  <2>2. CASE i = 1
    BY <1>1, <2>1, <2>2
  <2>3. CASE i # 1
    <3>1. i - 1 \in 1 .. Len(Tail(q)) /\ Tail(q)[i - 1] = q[i - 1 + 1] /\ i - 1 + 1 = i
      BY <1>1, <2>3
    <3> QED BY <2>1, <3>1 DEF Items
  <2> QED BY <2>2, <2>3
<1>3. Head(q) \in Items(q)
  BY <1>1 DEF Items
<1>4. ASSUME NEW x \in Items(Tail(q)) PROVE x \in Items(q)
  <2>1. PICK i \in 1 .. Len(Tail(q)) : x = Tail(q)[i]
    BY DEF Items
  <2>2. i + 1 \in 1 .. Len(q) /\ x = q[i + 1]
    BY <1>1, <2>1
  <2> QED BY <2>2 DEF Items
<1> QED BY <1>2, <1>3, <1>4

LEMMA ItemsAfterAppend ==
    ASSUME NEW S, NEW q \in Seq(S), NEW v \in S
    PROVE  Items(Append(q, v)) = Items(q) \cup {v}
<1> DEFINE r == Append(q, v)
<1>1. /\ Len(r) = Len(q) + 1 /\ r[Len(q) + 1] = v /\ Len(q) \in Nat
      /\ \A i \in 1 .. Len(q) : r[i] = q[i]
  BY AppendTo
<1> HIDE DEF r
<1>2. \A i \in 1 .. Len(r) : i \in 1 .. Len(q) \/ i = Len(q) + 1
  BY <1>1
<1>3. Items(r) = Items(q) \cup {v}
  BY <1>1, <1>2 DEF Items
<1> QED BY <1>3 DEF r

LEMMA ItemsOfBoth ==
    ASSUME NEW S, NEW p \in Seq(S), NEW q \in Seq(S)
    PROVE  Items(p \o q) = Items(p) \cup Items(q)
<1> DEFINE r == p \o q
<1>1. /\ Len(p) \in Nat /\ Len(q) \in Nat /\ Len(r) = Len(p) + Len(q)
      /\ \A i \in 1 .. Len(r) : r[i] = IF i <= Len(p) THEN p[i] ELSE q[i - Len(p)]
  OBVIOUS
<1> HIDE DEF r
<1>2. ASSUME NEW i \in 1 .. Len(r) PROVE r[i] \in Items(p) \cup Items(q)
  <2>1. CASE i <= Len(p)
    BY <1>1, <2>1 DEF Items
  <2>2. CASE ~(i <= Len(p))
    <3>1. i - Len(p) \in 1 .. Len(q) /\ r[i] = q[i - Len(p)]
      BY <1>1, <2>2
    <3> QED BY <3>1 DEF Items
  <2> QED BY <2>1, <2>2
<1>3. ASSUME NEW i \in 1 .. Len(p) PROVE p[i] \in Items(r)
  <2>1. i \in 1 .. Len(r) /\ r[i] = p[i]
    BY <1>1
  <2> QED BY <2>1 DEF Items
<1>4. ASSUME NEW i \in 1 .. Len(q) PROVE q[i] \in Items(r)
  <2>1. i + Len(p) \in 1 .. Len(r) /\ ~(i + Len(p) <= Len(p)) /\ i + Len(p) - Len(p) = i
    BY <1>1
  <2>2. r[i + Len(p)] = q[i]
    BY <1>1, <2>1
  <2> QED BY <2>1, <2>2 DEF Items
<1>5. Items(r) = Items(p) \cup Items(q)
  BY <1>2, <1>3, <1>4 DEF Items
<1> QED BY <1>5 DEF r

-----------------------------------------------------------------------------
(* Queues of numbers, in which 0 stands for no item                        *)

\* The numbers in q rise, those in R are later than those in S.
Rising(q) == \A i, j \in 1 .. Len(q) : i < j /\ q[i] # 0 /\ q[j] # 0 => q[i] < q[j]
Precede(S, R) == \A x \in S, y \in R : x # 0 /\ y # 0 => x < y

LEMMA RisingTail ==
    ASSUME NEW q \in Seq(Nat), q # <<>>, Rising(q)
    PROVE  Rising(Tail(q)) /\ Precede({Head(q)}, Items(Tail(q)))
<1>1. /\ Head(q) = q[1] /\ Len(q) \in Nat \ {0} /\ Len(Tail(q)) = Len(q) - 1
      /\ \A i \in 1 .. Len(Tail(q)) :
           Tail(q)[i] = q[i + 1] /\ i + 1 \in 1 .. Len(q) /\ 1 < i + 1
      /\ \A i, j \in 1 .. Len(Tail(q)) : i < j => i + 1 < j + 1
  BY TailOf
<1>2. Rising(Tail(q))
  BY <1>1 DEF Rising
<1>3. 1 \in 1 .. Len(q)
  BY <1>1
<1>4. Precede({Head(q)}, Items(Tail(q)))
  BY <1>1, <1>3 DEF Rising, Precede, Items
<1> QED BY <1>2, <1>4

LEMMA RisingAppend ==
    ASSUME NEW q \in Seq(Nat), NEW v \in Nat, Rising(q), Precede(Items(q), {v})
    PROVE  Rising(Append(q, v))
<1> DEFINE r == Append(q, v)
<1>1. /\ Len(r) = Len(q) + 1 /\ r[Len(q) + 1] = v /\ Len(q) \in Nat
      /\ \A i \in 1 .. Len(q) : r[i] = q[i]
  BY AppendTo
<1> HIDE DEF r
<1>2. \A i \in 1 .. Len(r) : i \in 1 .. Len(q) \/ i = Len(q) + 1
  BY <1>1
<1> SUFFICES ASSUME NEW i \in 1 .. Len(r), NEW j \in 1 .. Len(r), i < j, r[i] # 0, r[j] # 0
             PROVE  r[i] < r[j]
  BY DEF Rising, r
<1>3. i \in 1 .. Len(q)
  BY <1>1, <1>2
<1>4. CASE j \in 1 .. Len(q)
  BY <1>1, <1>3, <1>4 DEF Rising
<1>5. CASE j = Len(q) + 1
  BY <1>1, <1>3, <1>5 DEF Precede, Items
<1> QED BY <1>2, <1>4, <1>5

LEMMA RisingBoth ==
    ASSUME NEW p \in Seq(Nat), NEW q \in Seq(Nat),
           Rising(p), Rising(q), Precede(Items(p), Items(q))
    PROVE  Rising(p \o q)
<1> DEFINE r == p \o q
<1>1. /\ Len(p) \in Nat /\ Len(q) \in Nat /\ Len(r) = Len(p) + Len(q)
      /\ \A i \in 1 .. Len(r) : r[i] = IF i <= Len(p) THEN p[i] ELSE q[i - Len(p)]
  OBVIOUS
<1> HIDE DEF r
<1> SUFFICES ASSUME NEW i \in 1 .. Len(r), NEW j \in 1 .. Len(r), i < j, r[i] # 0, r[j] # 0
             PROVE  r[i] < r[j]
  BY DEF Rising, r
<1>2. CASE j <= Len(p)
  <2>1. i \in 1 .. Len(p) /\ j \in 1 .. Len(p) /\ r[i] = p[i] /\ r[j] = p[j]
    BY <1>1, <1>2
  <2> QED BY <2>1 DEF Rising
<1>3. CASE ~(i <= Len(p))
  <2>1. /\ i - Len(p) \in 1 .. Len(q) /\ j - Len(p) \in 1 .. Len(q)
        /\ i - Len(p) < j - Len(p) /\ r[i] = q[i - Len(p)] /\ r[j] = q[j - Len(p)]
    BY <1>1, <1>3
  <2> QED BY <2>1 DEF Rising
<1>4. CASE i <= Len(p) /\ ~(j <= Len(p))
  <2>1. i \in 1 .. Len(p) /\ j - Len(p) \in 1 .. Len(q) /\ r[i] = p[i] /\ r[j] = q[j - Len(p)]
    BY <1>1, <1>4
  <2> QED BY <2>1 DEF Precede, Items
<1> QED BY <1>2, <1>3, <1>4

-----------------------------------------------------------------------------
\* Min finds the least of a set of natural numbers.
LEMMA LeastOf ==
    ASSUME NEW S \in SUBSET Nat, S # {}
    PROVE  Min(S) \in S /\ \A x \in S : Min(S) <= x
<1>1. PICK n \in S : TRUE
  OBVIOUS
<1> DEFINE T == {0 .. x : x \in {y \in S : y <= n}}
<1>2. IsFiniteSet(0 .. n)
  BY FS_Interval
<1>3. T \subseteq SUBSET (0 .. n) /\ T # {}
  OBVIOUS
<1>4. PICK X \in T : \A Y \in T : ~(<<Y, X>> \in StrictSubsetOrdering(0 .. n))
  <2>1. IsWellFoundedOn(StrictSubsetOrdering(0 .. n), SUBSET (0 .. n))
    BY <1>2, FS_StrictSubsetOrderingWellFounded, FS_FiniteSubsetsOfFinite, Zenon
  <2> HIDE DEF T
  <2> QED BY <1>3, <2>1, WFMin
<1>5. PICK m \in S : m <= n /\ X = 0 .. m
  OBVIOUS
<1>6. \A y \in S : m <= y
  <2> SUFFICES ASSUME NEW y \in S, y < m PROVE FALSE
    BY <1>1
  <2>1. (0 .. y) \in T
    BY <1>5
  <2>2. <<0 .. y, 0 .. m>> \in StrictSubsetOrdering(0 .. n)
    BY <1>5 DEF StrictSubsetOrdering
  <2> QED BY <1>4, <1>5, <2>1, <2>2
<1> QED BY <1>6 DEF Min
=============================================================================

-------------------------- MODULE RingQueueProofs --------------------------
(***************************************************************************)
(* Proofs about RingQueue for any number of threads and slots.             *)
(***************************************************************************)
EXTENDS RingQueue, FiniteSetTheorems, SequenceTheorems, TLAPS

(* Going round the ring from a slot s by at most one turn.                 *)
LEMMA Modulo ==
  ASSUME NEW N \in Nat \ {0}, NEW s \in 0..(N - 1), NEW i \in 0..N
  PROVE  (s + i) % N = IF s + i < N THEN s + i ELSE s + i - N
<1>1. CASE s + i < N
  <2>1. \A x \in 0..(N - 1) : x % N = x
    OBVIOUS
  <2> QED
    BY <1>1, <2>1
<1>2. CASE s + i >= N
  <2>1. \A x \in N..(2 * N - 1) : x % N = x - N
    OBVIOUS
  <2>2. s + i \in N..(2 * N - 1)
    BY <1>2
  <2> QED
    BY <1>2, <2>1, <2>2
<1> QED
  BY <1>1, <1>2

LEMMA SlotAfter ==
  ASSUME NEW s \in Slots
  PROVE  After(s) = (IF s + 1 < Num THEN s + 1 ELSE 0) /\ After(s) \in Slots
<1>1. Num \in Nat \ {0} /\ s \in 0..(Num - 1) /\ 1 \in 0..Num
  BY RingQueueAssumption DEF Slots
<1>2. After(s) = IF s + 1 < Num THEN s + 1 ELSE s + 1 - Num
  BY <1>1, Modulo DEF After
<1> QED
  BY <1>1, <1>2 DEF Slots

LEMMA RingIndexValue ==
  ASSUME c_step \in Slots, NEW i \in 0..Num
  PROVE  /\ RingIndex(i) = IF c_step + i < Num THEN c_step + i ELSE c_step + i - Num
         /\ RingIndex(i) \in Slots
<1>1. Num \in Nat \ {0} /\ c_step \in 0..(Num - 1)
  BY RingQueueAssumption DEF Slots
<1>2. RingIndex(i) = IF c_step + i < Num THEN c_step + i ELSE c_step + i - Num
  BY <1>1, Modulo DEF RingIndex
<1> QED
  BY <1>1, <1>2 DEF Slots

(* How the number of threads at some places changes when thread t moves.   *)
LEMMA CountOne ==
  ASSUME NEW T, IsFiniteSet(T), NEW t \in T, NEW f, NEW g, NEW S,
         \A u \in T : u # t => f[u] = g[u]
  PROVE  Cardinality({u \in T : g[u] \in S}) =
           Cardinality({u \in T : f[u] \in S})
             + (IF g[t] \in S THEN 1 ELSE 0) - (IF f[t] \in S THEN 1 ELSE 0)
<1> DEFINE others == {u \in T \ {t} : f[u] \in S}
<1>1. IsFiniteSet(others) /\ Cardinality(others) \in Nat
  BY FS_Subset, FS_CardinalityType
<1>2. Cardinality(others \cup {t}) = Cardinality(others) + 1
  BY <1>1, FS_AddElement
<1>3. ASSUME NEW h, \A u \in T : u # t => f[u] = h[u]
      PROVE  {u \in T : h[u] \in S} =
               IF h[t] \in S THEN others \cup {t} ELSE others
  BY <1>3
<1>4. {u \in T : f[u] \in S} = IF f[t] \in S THEN others \cup {t} ELSE others
  OBVIOUS
<1>5. {u \in T : g[u] \in S} = IF g[t] \in S THEN others \cup {t} ELSE others
  BY <1>3
<1>6. Cardinality({u \in T : f[u] \in S}) =
        Cardinality(others) + IF f[t] \in S THEN 1 ELSE 0
  BY <1>1, <1>2, <1>4
<1>7. Cardinality({u \in T : g[u] \in S}) =
        Cardinality(others) + IF g[t] \in S THEN 1 ELSE 0
  BY <1>1, <1>2, <1>5
<1> HIDE DEF others
<1> QED
  BY <1>1, <1>6, <1>7

Count(ts, places) == Cardinality(At(ts, places))

LEMMA Finite == IsFiniteSet(Producers) /\ IsFiniteSet(Consumers)
BY RingQueueAssumption

LEMMA CountType ==
  /\ \A S : Count(Producers, S) \in Nat
  /\ \A S : Count(Consumers, S) \in Nat
BY Finite, FS_Subset, FS_CardinalityType DEF Count, At

LEMMA ProducerMoves ==
  ASSUME TypeOK, NEW p \in Producers, NEW there \in States, Goto(p, there)
  PROVE  \A S : /\ Count(Consumers, S)' = Count(Consumers, S)
                /\ Count(Producers, S)' = Count(Producers, S)
                     + (IF there \in S THEN 1 ELSE 0)
                     - (IF pc[p] \in S THEN 1 ELSE 0)
<1> TAKE S
<1>1. /\ pc \in [Threads -> States] /\ p \in Threads
      /\ pc'[p] = there /\ \A u \in Threads : u # p => pc[u] = pc'[u]
  BY DEF TypeOK, Threads, Goto
<1>2. Count(Consumers, S)' = Count(Consumers, S)
  <2>1. At(Consumers, S)' = At(Consumers, S)
    BY <1>1, RingQueueAssumption DEF At, Threads
  <2> QED
    BY <2>1 DEF Count
<1>3. Count(Producers, S)' = Count(Producers, S)
        + (IF there \in S THEN 1 ELSE 0) - (IF pc[p] \in S THEN 1 ELSE 0)
  <2>1. \A u \in Producers : u # p => pc[u] = pc'[u]
    BY <1>1 DEF Threads
  <2>2. Cardinality({u \in Producers : pc'[u] \in S}) =
          Cardinality({u \in Producers : pc[u] \in S})
            + (IF pc'[p] \in S THEN 1 ELSE 0) - (IF pc[p] \in S THEN 1 ELSE 0)
    BY <2>1, Finite, CountOne
  <2> QED
    BY <1>1, <2>2 DEF Count, At
<1> QED
  BY <1>2, <1>3

LEMMA ConsumerMoves ==
  ASSUME TypeOK, NEW c \in Consumers, NEW there \in States, Goto(c, there)
  PROVE  \A S : /\ Count(Producers, S)' = Count(Producers, S)
                /\ Count(Consumers, S)' = Count(Consumers, S)
                     + (IF there \in S THEN 1 ELSE 0)
                     - (IF pc[c] \in S THEN 1 ELSE 0)
<1> TAKE S
<1>1. /\ pc \in [Threads -> States] /\ c \in Threads
      /\ pc'[c] = there /\ \A u \in Threads : u # c => pc[u] = pc'[u]
  BY DEF TypeOK, Threads, Goto
<1>2. Count(Producers, S)' = Count(Producers, S)
  <2>1. At(Producers, S)' = At(Producers, S)
    BY <1>1, RingQueueAssumption DEF At, Threads
  <2> QED
    BY <2>1 DEF Count
<1>3. Count(Consumers, S)' = Count(Consumers, S)
        + (IF there \in S THEN 1 ELSE 0) - (IF pc[c] \in S THEN 1 ELSE 0)
  <2>1. \A u \in Consumers : u # c => pc[u] = pc'[u]
    BY <1>1 DEF Threads
  <2>2. Cardinality({u \in Consumers : pc'[u] \in S}) =
          Cardinality({u \in Consumers : pc[u] \in S})
            + (IF pc'[c] \in S THEN 1 ELSE 0) - (IF pc[c] \in S THEN 1 ELSE 0)
    BY <2>1, Finite, CountOne
  <2> QED
    BY <1>1, <2>2 DEF Count, At
<1> QED
  BY <1>2, <1>3

LEMMA Counts ==
  /\ Stored = data_sem + Count(Consumers, {"lock", "copy"}) + Count(Producers, {"v"})
  /\ Free = space_sem + Count(Producers, {"lock", "copy"}) + Count(Consumers, {"v"})
BY DEF Stored, Free, Count
-----------------------------------------------------------------------------
RingInv == TypeOK /\ Consistent

LEMMA InitInv == Init => RingInv
<1> SUFFICES ASSUME Init PROVE RingInv
  OBVIOUS
<1>1. TypeOK
  BY RingQueueAssumption DEF Init, TypeOK, Slots, States, Spaces, Threads
<1>2. Stored = 0 /\ Free = Num
  <2>1. At(Producers, {"v"}) = {} /\ At(Consumers, {"v"}) = {}
        /\ At(Producers, {"lock", "copy"}) = {}
        /\ At(Consumers, {"lock", "copy"}) = {}
    BY DEF Init, At, Threads
  <2>2. Cardinality({}) = 0
    BY FS_EmptySet
  <2> QED
    BY <2>1, <2>2, RingQueueAssumption DEF Init, Stored, Free, Spaces
<1>3. p_step = RingIndex(Stored)
  BY <1>1, <1>2, RingIndexValue, RingQueueAssumption DEF Init, Slots, TypeOK
<1>4. Holders
  BY RingQueueAssumption DEF Init, Threads, Holders
<1> QED
  BY <1>1, <1>2, <1>3, <1>4, RingQueueAssumption DEF RingInv, Consistent

(* Who may be at the two copies, and what that says of the slots.          *)
LEMMA CopyCounts ==
  ASSUME RingInv
  PROVE  /\ Stored \in 0..Num /\ Free = Num - Stored
         /\ \A p \in Producers : pc[p] \in {"lock", "copy"} => Free >= 1
         /\ \A c \in Consumers : pc[c] \in {"lock", "copy"} => Stored >= 1
<1>1. /\ Count(Producers, {"v"}) \in Nat /\ Count(Producers, {"lock", "copy"}) \in Nat
      /\ Count(Consumers, {"v"}) \in Nat /\ Count(Consumers, {"lock", "copy"}) \in Nat
  BY CountType
<1>2. /\ space_sem \in Nat /\ data_sem \in Nat /\ Stored + Free = Num /\ Num \in Nat
  BY RingQueueAssumption DEF RingInv, TypeOK, Consistent
<1>3. ASSUME NEW T, IsFiniteSet(T), NEW t \in T, pc[t] \in {"lock", "copy"},
             Count(T, {"lock", "copy"}) \in Nat
      PROVE  Count(T, {"lock", "copy"}) >= 1
  <2>1. t \in At(T, {"lock", "copy"}) /\ IsFiniteSet(At(T, {"lock", "copy"}))
    BY <1>3, FS_Subset DEF At
  <2>2. Count(T, {"lock", "copy"}) # 0
    BY <2>1, FS_EmptySet DEF Count
  <2> QED
    BY <1>3, <2>2
<1> QED
  BY <1>1, <1>2, <1>3, Finite, Counts

(* The steps that only pass a semaphore or a mutex keep every slot counted *)
(* where it was.                                                           *)
LEMMA QuietStep ==
  ASSUME RingInv, UNCHANGED <<rq, p_step, c_step>>,
         Stored' = Stored, Free' = Free,
         Holders'
  PROVE  Consistent'
BY DEF RingInv, Consistent, RingIndex

LEMMA NextTypeOK == RingInv /\ [Next]_vars => TypeOK'
<1> SUFFICES ASSUME RingInv, [Next]_vars PROVE TypeOK'
  OBVIOUS
<1> USE DEF TypeOK, States, Threads, Goto
<1>1. TypeOK
  BY DEF RingInv
<1>2. ASSUME NEW p \in Producers, Push(p) PROVE TypeOK'
  <2>1. After(p_step) \in Slots
    BY <1>1, SlotAfter
  <2>2. ASSUME NEW v \in Values, Produce(p, v) PROVE TypeOK'
    BY <1>1, <2>2 DEF Produce
  <2>3. CASE SpaceP(p)
    BY <1>1, <2>3 DEF SpaceP
  <2>4. CASE PLock(p)
    BY <1>1, <2>4 DEF PLock
  <2>5. CASE Store(p)
    BY <1>1, <2>1, <2>5 DEF Store
  <2>6. CASE DataV(p)
    BY <1>1, <2>6 DEF DataV
  <2> QED
    BY <1>2, <2>2, <2>3, <2>4, <2>5, <2>6 DEF Push
<1>3. ASSUME NEW c \in Consumers, Pop(c) PROVE TypeOK'
  <2>1. After(c_step) \in Slots
    BY <1>1, SlotAfter
  <2>2. CASE Consume(c)
    BY <1>1, <2>2 DEF Consume
  <2>3. CASE DataP(c)
    BY <1>1, <2>3 DEF DataP
  <2>4. CASE CLock(c)
    BY <1>1, <2>4 DEF CLock
  <2>5. CASE Load(c)
    BY <1>1, <2>1, <2>5 DEF Load
  <2>6. CASE SpaceV(c)
    BY <1>1, <2>6 DEF SpaceV
  <2> QED
    BY <1>3, <2>2, <2>3, <2>4, <2>5, <2>6 DEF Pop
<1>4. CASE UNCHANGED vars
  BY <1>1, <1>4 DEF vars
<1> QED
  BY <1>2, <1>3, <1>4 DEF Next

(* What each step of a producer does to the counts.                        *)
LEMMA PushCounts ==
  ASSUME RingInv, NEW p \in Producers
  PROVE  /\ (\E v \in Values : Produce(p, v)) \/ SpaceP(p) \/ PLock(p) \/ DataV(p)
              => Stored' = Stored /\ Free' = Free
         /\ Store(p) => Stored' = Stored + 1 /\ Free' = Free - 1
<1>1. TypeOK
  BY DEF RingInv
<1>2. /\ Count(Producers, {"v"}) \in Nat /\ Count(Producers, {"lock", "copy"}) \in Nat
      /\ Count(Consumers, {"v"}) \in Nat /\ Count(Consumers, {"lock", "copy"}) \in Nat
      /\ space_sem \in Nat /\ data_sem \in Nat
  BY <1>1, CountType DEF TypeOK
<1>3. /\ Stored' = data_sem' + Count(Consumers, {"lock", "copy"})'
                             + Count(Producers, {"v"})'
      /\ Free' = space_sem' + Count(Producers, {"lock", "copy"})'
                            + Count(Consumers, {"v"})'
  BY DEF Stored, Free, Count
<1>4. ASSUME NEW v \in Values, Produce(p, v) PROVE Stored' = Stored /\ Free' = Free
  <2>1. /\ pc[p] = "idle" /\ Goto(p, "p") /\ "p" \in States
        /\ UNCHANGED <<data_sem, space_sem>>
    BY <1>4 DEF Produce, States
  <2>2. /\ Count(Consumers, {"lock", "copy"})' = Count(Consumers, {"lock", "copy"})
        /\ Count(Consumers, {"v"})' = Count(Consumers, {"v"})
        /\ Count(Producers, {"lock", "copy"})' = Count(Producers, {"lock", "copy"})
        /\ Count(Producers, {"v"})' = Count(Producers, {"v"})
    BY <1>1, <1>2, <2>1, ProducerMoves
  <2> QED
    BY <1>2, <1>3, <2>1, <2>2, Counts
<1>5. ASSUME SpaceP(p) PROVE Stored' = Stored /\ Free' = Free
  <2>1. /\ pc[p] = "p" /\ Goto(p, "lock") /\ "lock" \in States
        /\ UNCHANGED data_sem /\ space_sem' = space_sem - 1
    BY <1>5 DEF SpaceP, States
  <2>2. /\ Count(Consumers, {"lock", "copy"})' = Count(Consumers, {"lock", "copy"})
        /\ Count(Consumers, {"v"})' = Count(Consumers, {"v"})
        /\ Count(Producers, {"lock", "copy"})' = Count(Producers, {"lock", "copy"}) + 1
        /\ Count(Producers, {"v"})' = Count(Producers, {"v"})
    BY <1>1, <1>2, <2>1, ProducerMoves
  <2> QED
    BY <1>2, <1>3, <2>1, <2>2, Counts
<1>6. ASSUME PLock(p) PROVE Stored' = Stored /\ Free' = Free
  <2>1. /\ pc[p] = "lock" /\ Goto(p, "copy") /\ "copy" \in States
        /\ UNCHANGED <<data_sem, space_sem>>
    BY <1>6 DEF PLock, States
  <2>2. /\ Count(Consumers, {"lock", "copy"})' = Count(Consumers, {"lock", "copy"})
        /\ Count(Consumers, {"v"})' = Count(Consumers, {"v"})
        /\ Count(Producers, {"lock", "copy"})' = Count(Producers, {"lock", "copy"})
        /\ Count(Producers, {"v"})' = Count(Producers, {"v"})
    BY <1>1, <1>2, <2>1, ProducerMoves
  <2> QED
    BY <1>2, <1>3, <2>1, <2>2, Counts
<1>7. ASSUME DataV(p) PROVE Stored' = Stored /\ Free' = Free
  <2>1. /\ pc[p] = "v" /\ Goto(p, "idle") /\ "idle" \in States
        /\ UNCHANGED space_sem /\ data_sem' = data_sem + 1
    BY <1>7 DEF DataV, States
  <2>2. /\ Count(Consumers, {"lock", "copy"})' = Count(Consumers, {"lock", "copy"})
        /\ Count(Consumers, {"v"})' = Count(Consumers, {"v"})
        /\ Count(Producers, {"lock", "copy"})' = Count(Producers, {"lock", "copy"})
        /\ Count(Producers, {"v"})' = Count(Producers, {"v"}) - 1
    BY <1>1, <1>2, <2>1, ProducerMoves
  <2> QED
    BY <1>2, <1>3, <2>1, <2>2, Counts
<1>8. ASSUME Store(p) PROVE Stored' = Stored + 1 /\ Free' = Free - 1
  <2>1. /\ pc[p] = "copy" /\ Goto(p, "v") /\ "v" \in States
        /\ UNCHANGED <<data_sem, space_sem>>
    BY <1>8 DEF Store, States
  <2>2. /\ Count(Consumers, {"lock", "copy"})' = Count(Consumers, {"lock", "copy"})
        /\ Count(Consumers, {"v"})' = Count(Consumers, {"v"})
        /\ Count(Producers, {"lock", "copy"})' = Count(Producers, {"lock", "copy"}) - 1
        /\ Count(Producers, {"v"})' = Count(Producers, {"v"}) + 1
    BY <1>1, <1>2, <2>1, ProducerMoves
  <2> QED
    BY <1>2, <1>3, <2>1, <2>2, Counts
<1> QED
  BY <1>4, <1>5, <1>6, <1>7, <1>8

(* What each step of a consumer does to the counts.                        *)
LEMMA PopCounts ==
  ASSUME RingInv, NEW c \in Consumers
  PROVE  /\ Consume(c) \/ DataP(c) \/ CLock(c) \/ SpaceV(c)
              => Stored' = Stored /\ Free' = Free
         /\ Load(c) => Stored' = Stored - 1 /\ Free' = Free + 1
<1>1. TypeOK
  BY DEF RingInv
<1>2. /\ Count(Producers, {"v"}) \in Nat /\ Count(Producers, {"lock", "copy"}) \in Nat
      /\ Count(Consumers, {"v"}) \in Nat /\ Count(Consumers, {"lock", "copy"}) \in Nat
      /\ space_sem \in Nat /\ data_sem \in Nat
  BY <1>1, CountType DEF TypeOK
<1>3. /\ Stored' = data_sem' + Count(Consumers, {"lock", "copy"})'
                             + Count(Producers, {"v"})'
      /\ Free' = space_sem' + Count(Producers, {"lock", "copy"})'
                            + Count(Consumers, {"v"})'
  BY DEF Stored, Free, Count
<1>4. ASSUME Consume(c) PROVE Stored' = Stored /\ Free' = Free
  <2>1. /\ pc[c] = "idle" /\ Goto(c, "p") /\ "p" \in States
        /\ UNCHANGED <<data_sem, space_sem>>
    BY <1>4 DEF Consume, States
  <2>2. /\ Count(Producers, {"lock", "copy"})' = Count(Producers, {"lock", "copy"})
        /\ Count(Producers, {"v"})' = Count(Producers, {"v"})
        /\ Count(Consumers, {"lock", "copy"})' = Count(Consumers, {"lock", "copy"})
        /\ Count(Consumers, {"v"})' = Count(Consumers, {"v"})
    BY <1>1, <1>2, <2>1, ConsumerMoves
  <2> QED
    BY <1>2, <1>3, <2>1, <2>2, Counts
<1>5. ASSUME DataP(c) PROVE Stored' = Stored /\ Free' = Free
  <2>1. /\ pc[c] = "p" /\ Goto(c, "lock") /\ "lock" \in States
        /\ UNCHANGED space_sem /\ data_sem' = data_sem - 1
    BY <1>5 DEF DataP, States
  <2>2. /\ Count(Producers, {"lock", "copy"})' = Count(Producers, {"lock", "copy"})
        /\ Count(Producers, {"v"})' = Count(Producers, {"v"})
        /\ Count(Consumers, {"lock", "copy"})' = Count(Consumers, {"lock", "copy"}) + 1
        /\ Count(Consumers, {"v"})' = Count(Consumers, {"v"})
    BY <1>1, <1>2, <2>1, ConsumerMoves
  <2> QED
    BY <1>2, <1>3, <2>1, <2>2, Counts
<1>6. ASSUME CLock(c) PROVE Stored' = Stored /\ Free' = Free
  <2>1. /\ pc[c] = "lock" /\ Goto(c, "copy") /\ "copy" \in States
        /\ UNCHANGED <<data_sem, space_sem>>
    BY <1>6 DEF CLock, States
  <2>2. /\ Count(Producers, {"lock", "copy"})' = Count(Producers, {"lock", "copy"})
        /\ Count(Producers, {"v"})' = Count(Producers, {"v"})
        /\ Count(Consumers, {"lock", "copy"})' = Count(Consumers, {"lock", "copy"})
        /\ Count(Consumers, {"v"})' = Count(Consumers, {"v"})
    BY <1>1, <1>2, <2>1, ConsumerMoves
  <2> QED
    BY <1>2, <1>3, <2>1, <2>2, Counts
<1>7. ASSUME SpaceV(c) PROVE Stored' = Stored /\ Free' = Free
  <2>1. /\ pc[c] = "v" /\ Goto(c, "idle") /\ "idle" \in States
        /\ UNCHANGED data_sem /\ space_sem' = space_sem + 1
    BY <1>7 DEF SpaceV, States
  <2>2. /\ Count(Producers, {"lock", "copy"})' = Count(Producers, {"lock", "copy"})
        /\ Count(Producers, {"v"})' = Count(Producers, {"v"})
        /\ Count(Consumers, {"lock", "copy"})' = Count(Consumers, {"lock", "copy"})
        /\ Count(Consumers, {"v"})' = Count(Consumers, {"v"}) - 1
    BY <1>1, <1>2, <2>1, ConsumerMoves
  <2> QED
    BY <1>2, <1>3, <2>1, <2>2, Counts
<1>8. ASSUME Load(c) PROVE Stored' = Stored - 1 /\ Free' = Free + 1
  <2>1. /\ pc[c] = "copy" /\ Goto(c, "v") /\ "v" \in States
        /\ UNCHANGED <<data_sem, space_sem>>
    BY <1>8 DEF Load, States
  <2>2. /\ Count(Producers, {"lock", "copy"})' = Count(Producers, {"lock", "copy"})
        /\ Count(Producers, {"v"})' = Count(Producers, {"v"})
        /\ Count(Consumers, {"lock", "copy"})' = Count(Consumers, {"lock", "copy"}) - 1
        /\ Count(Consumers, {"v"})' = Count(Consumers, {"v"}) + 1
    BY <1>1, <1>2, <2>1, ConsumerMoves
  <2> QED
    BY <1>2, <1>3, <2>1, <2>2, Counts
<1> QED
  BY <1>4, <1>5, <1>6, <1>7, <1>8
-----------------------------------------------------------------------------
(* A store puts the value behind the stored ones.                          *)
LEMMA StoreSlot ==
  ASSUME RingInv, NEW p \in Producers, Store(p)
  PROVE  /\ Stored \in 0..(Num - 1)
         /\ p_step' = RingIndex(Stored + 1)
         /\ rq'[RingIndex(Stored)] = arg[p]
         /\ \A i \in 0..(Stored - 1) : rq'[RingIndex(i)] = rq[RingIndex(i)]
<1>1. TypeOK /\ Consistent /\ Num \in Nat \ {0}
  BY RingQueueAssumption DEF RingInv
<1>2. Stored \in 0..(Num - 1)
  BY <1>1, CopyCounts DEF Store
<1>3. /\ c_step \in 0..(Num - 1) /\ c_step \in Slots /\ p_step = RingIndex(Stored)
      /\ p_step \in Slots /\ p_step' = After(p_step)
      /\ rq' = [rq EXCEPT ![p_step] = arg[p]] /\ rq \in [Slots -> Values \cup {NoValue}]
  BY <1>1 DEF TypeOK, Consistent, Slots, Store
<1>4. \A i \in 0..Num :
        RingIndex(i) = IF c_step + i < Num THEN c_step + i ELSE c_step + i - Num
  BY <1>3, RingIndexValue
<1>5. p_step' = RingIndex(Stored + 1)
  <2>1. p_step' = IF p_step + 1 < Num THEN p_step + 1 ELSE 0
    BY <1>3, SlotAfter
  <2> QED
    BY <1>1, <1>2, <1>3, <1>4, <2>1
<1>6. \A i \in 0..(Stored - 1) : RingIndex(i) # p_step /\ RingIndex(i) \in Slots
  BY <1>1, <1>2, <1>3, <1>4 DEF Slots
<1> QED
  BY <1>2, <1>3, <1>5, <1>6

(* A load takes the oldest value and leaves the others where they are.     *)
LEMMA LoadSlot ==
  ASSUME RingInv, NEW c \in Consumers, Load(c)
  PROVE  /\ Stored \in 1..Num
         /\ c_step = RingIndex(0)
         /\ \A i \in 0..(Stored - 1) : (c_step' + i) % Num = RingIndex(i + 1)
         /\ p_step = RingIndex(Stored)
<1>1. TypeOK /\ Consistent /\ Num \in Nat \ {0}
  BY RingQueueAssumption DEF RingInv
<1>2. Stored \in 1..Num
  BY <1>1, CopyCounts DEF Load
<1>3. /\ c_step \in 0..(Num - 1) /\ c_step \in Slots /\ c_step' = After(c_step)
      /\ p_step = RingIndex(Stored)
  BY <1>1 DEF TypeOK, Consistent, Slots, Load
<1>4. \A i \in 0..Num :
        RingIndex(i) = IF c_step + i < Num THEN c_step + i ELSE c_step + i - Num
  BY <1>3, RingIndexValue
<1>5. c_step' = (IF c_step + 1 < Num THEN c_step + 1 ELSE 0) /\ c_step' \in 0..(Num - 1)
  BY <1>3, SlotAfter DEF Slots
<1>6. \A i \in 0..(Num - 1) : (c_step' + i) % Num = RingIndex(i + 1)
  <2> TAKE i \in 0..(Num - 1)
  <2>0. i \in 0..Num /\ i + 1 \in 0..Num
    BY <1>1
  <2>1. (c_step' + i) % Num =
          IF c_step' + i < Num THEN c_step' + i ELSE c_step' + i - Num
    BY <1>1, <1>5, <2>0, Modulo
  <2>2. RingIndex(i + 1) =
          IF c_step + i + 1 < Num THEN c_step + i + 1 ELSE c_step + i + 1 - Num
    <3>1. RingIndex(i + 1) = IF c_step + (i + 1) < Num
                             THEN c_step + (i + 1) ELSE c_step + (i + 1) - Num
      BY <2>0, <1>3, RingIndexValue
    <3> QED
      BY <1>1, <1>3, <2>0, <3>1
  <2> QED
    BY <1>1, <1>3, <1>5, <2>1, <2>2
<1>7. c_step = RingIndex(0)
  BY <1>1, <1>3, <1>4
<1> QED
  BY <1>1, <1>2, <1>3, <1>6, <1>7

(* A mutex is held by the thread that copies, in every step.               *)
LEMMA NextHolders == RingInv /\ [Next]_vars => Holders'
<1> SUFFICES ASSUME RingInv, [Next]_vars PROVE Holders'
  OBVIOUS
<1> USE RingQueueAssumption DEF Goto, TypeOK, Threads, Holders
<1>0. TypeOK /\ Holders
  BY DEF RingInv, Consistent
<1>1. ASSUME NEW p \in Producers, Push(p) PROVE Holders'
  <2>1. ASSUME NEW v \in Values, Produce(p, v) PROVE Holders'
    BY <1>0, <2>1 DEF Produce
  <2>2. CASE SpaceP(p)
    BY <1>0, <2>2 DEF SpaceP
  <2>3. CASE PLock(p)
    BY <1>0, <2>3 DEF PLock
  <2>4. CASE Store(p)
    BY <1>0, <2>4 DEF Store
  <2>5. CASE DataV(p)
    BY <1>0, <2>5 DEF DataV
  <2> QED
    BY <1>1, <2>1, <2>2, <2>3, <2>4, <2>5 DEF Push
<1>2. ASSUME NEW c \in Consumers, Pop(c) PROVE Holders'
  <2>1. CASE Consume(c)
    BY <1>0, <2>1 DEF Consume
  <2>2. CASE DataP(c)
    BY <1>0, <2>2 DEF DataP
  <2>3. CASE CLock(c)
    BY <1>0, <2>3 DEF CLock
  <2>4. CASE Load(c)
    BY <1>0, <2>4 DEF Load
  <2>5. CASE SpaceV(c)
    BY <1>0, <2>5 DEF SpaceV
  <2> QED
    BY <1>2, <2>1, <2>2, <2>3, <2>4, <2>5 DEF Pop
<1>3. CASE UNCHANGED vars
  BY <1>0, <1>3 DEF vars
<1> QED
  BY <1>1, <1>2, <1>3 DEF Next

(* Stores and loads move one slot between the stored and the free ones.    *)
LEMMA NextConsistent == RingInv /\ [Next]_vars => Consistent'
<1> SUFFICES ASSUME RingInv, [Next]_vars PROVE Consistent'
  OBVIOUS
<1>0. TypeOK /\ Consistent /\ Holders'
  BY NextHolders DEF RingInv
<1>1. ASSUME NEW p \in Producers, Push(p) PROVE Consistent'
  <2>1. ASSUME NEW v \in Values, Produce(p, v) PROVE Consistent'
    BY <2>1, <1>0, PushCounts, QuietStep DEF Produce
  <2>2. CASE SpaceP(p)
    BY <2>2, <1>0, PushCounts, QuietStep DEF SpaceP
  <2>3. CASE PLock(p)
    BY <2>3, <1>0, PushCounts, QuietStep DEF PLock
  <2>4. CASE DataV(p)
    BY <2>4, <1>0, PushCounts, QuietStep DEF DataV
  <2>5. CASE Store(p)
    <3>1. /\ Stored' = Stored + 1 /\ Free' = Free - 1
          /\ Stored \in 0..Num /\ Free = Num - Stored /\ Num \in Nat
      BY <2>5, PushCounts, CopyCounts, RingQueueAssumption
    <3>2. \A i : RingIndex(i)' = RingIndex(i)
      BY <2>5 DEF Store, RingIndex
    <3>3. arg[p] \in Values
      BY <1>0, <2>5 DEF Store, Consistent, Holders, TypeOK
    <3>4. \A i \in 0..(Stored' - 1) : rq'[RingIndex(i)'] \in Values
      <4> SUFFICES ASSUME NEW i \in 0..(Stored' - 1) PROVE rq'[RingIndex(i)] \in Values
        BY <3>2
      <4>1. i = Stored \/ i \in 0..(Stored - 1)
        BY <3>1
      <4> QED
        BY <1>0, <2>5, <3>3, <4>1, StoreSlot DEF Consistent
    <3>5. p_step' = RingIndex(Stored)'
      BY <2>5, <3>1, StoreSlot DEF Store, RingIndex
    <3> QED
      BY <1>0, <3>1, <3>4, <3>5 DEF Consistent
  <2> QED
    BY <1>1, <2>1, <2>2, <2>3, <2>4, <2>5 DEF Push
<1>2. ASSUME NEW c \in Consumers, Pop(c) PROVE Consistent'
  <2>1. CASE Consume(c)
    BY <2>1, <1>0, PopCounts, QuietStep DEF Consume
  <2>2. CASE DataP(c)
    BY <2>2, <1>0, PopCounts, QuietStep DEF DataP
  <2>3. CASE CLock(c)
    BY <2>3, <1>0, PopCounts, QuietStep DEF CLock
  <2>4. CASE SpaceV(c)
    BY <2>4, <1>0, PopCounts, QuietStep DEF SpaceV
  <2>5. CASE Load(c)
    <3>1. /\ Stored' = Stored - 1 /\ Free' = Free + 1
          /\ Stored \in 1..Num /\ Free = Num - Stored /\ Num \in Nat
      BY <2>5, PopCounts, CopyCounts, LoadSlot, RingQueueAssumption
    <3>2. \A i \in 0..(Stored - 1) : (c_step' + i) % Num = RingIndex(i + 1)
      BY <2>5, LoadSlot
    <3>3. \A i \in 0..(Stored' - 1) : rq'[(c_step' + i) % Num] \in Values
      <4> SUFFICES ASSUME NEW i \in 0..(Stored' - 1)
          PROVE rq'[(c_step' + i) % Num] \in Values
        OBVIOUS
      <4>1. i \in 0..(Stored - 1) /\ i + 1 \in 0..(Stored - 1)
        BY <3>1
      <4> QED
        BY <1>0, <2>5, <3>2, <4>1 DEF Consistent, Load
    <3>4. p_step' = (c_step' + Stored') % Num
      <4>1. Stored - 1 \in 0..(Stored - 1) /\ (Stored - 1) + 1 = Stored
        BY <3>1
      <4>2. (c_step' + (Stored - 1)) % Num = RingIndex((Stored - 1) + 1)
        BY <3>2, <4>1
      <4> QED
        BY <2>5, <3>1, <4>1, <4>2, LoadSlot DEF Load
    <3> QED
      BY <1>0, <3>1, <3>3, <3>4 DEF Consistent, RingIndex
  <2> QED
    BY <1>2, <2>1, <2>2, <2>3, <2>4, <2>5 DEF Pop
<1>3. CASE UNCHANGED vars
  <2>1. Stored' = Stored /\ Free' = Free
    BY <1>3 DEF vars, Stored, Free, At
  <2> QED
    BY <1>0, <1>3, <2>1 DEF vars, Consistent, RingIndex
<1> QED
  BY <1>1, <1>2, <1>3 DEF Next
-----------------------------------------------------------------------------
(* Every slot of the ring is free or stored, once, in every state.         *)
THEOREM RingInvariance == Spec => []RingInv
<1>1. RingInv /\ [Next]_vars => RingInv'
  BY NextTypeOK, NextConsistent DEF RingInv
<1> QED
  BY InitInv, <1>1, PTL DEF Spec

(* The steps stay inside the vector and every variable keeps its type.     *)
THEOREM TypeCorrect == Spec => []TypeOK
BY RingInvariance, PTL DEF RingInv

(* No two threads ever copy to or from one slot at the same time, although *)
(* producers and consumers share no lock: the program has no data race.    *)
THEOREM RaceFreedom == Spec => []NoSlotRace
<1>1. RingInv => NoSlotRace
  <2> SUFFICES ASSUME RingInv, NEW t \in Threads, NEW u \in Threads, t # u,
                      pc[t] = "copy", pc[u] = "copy"
               PROVE  Slot(t) # Slot(u)
    BY DEF NoSlotRace, At
  <2>1. TypeOK /\ Consistent /\ Holders
    BY DEF RingInv, Consistent
  <2>2. ASSUME NEW p \in Producers, NEW c \in Consumers,
               pc[p] = "copy", pc[c] = "copy"
        PROVE  p_step # c_step
    <3>1. Stored \in 1..(Num - 1) /\ Num \in Nat
      BY <2>2, CopyCounts, RingQueueAssumption
    <3>2. c_step \in Slots /\ p_step = RingIndex(Stored) /\ Stored \in 0..Num
      BY <2>1, <3>1 DEF TypeOK, Consistent
    <3>3. p_step = IF c_step + Stored < Num THEN c_step + Stored
                   ELSE c_step + Stored - Num
      BY <3>2, RingIndexValue
    <3> QED
      BY <3>1, <3>2, <3>3 DEF Slots
  <2>3. CASE t \in Producers /\ u \in Producers
    BY <2>1, <2>3 DEF Holders
  <2>4. CASE t \in Consumers /\ u \in Consumers
    BY <2>1, <2>4 DEF Holders
  <2>5. Producers \cap Consumers = {}
    BY RingQueueAssumption
  <2> QED
    BY <2>2, <2>3, <2>4, <2>5 DEF Slot, Threads
<1> QED
  BY RingInvariance, <1>1, PTL

LEMMA SeqAsFunction ==
  ASSUME NEW S, NEW s \in Seq(S)
  PROVE  s = [i \in 1..Len(s) |-> s[i]]
BY LenProperties

(* Contents in terms of the ring, without the abstraction.                 *)
LEMMA ContentsSame ==
  ASSUME UNCHANGED <<rq, c_step>>, Stored' = Stored
  PROVE  Contents' = Contents
BY DEF Contents, RingIndex

(* The ring of any size under any number of threads is a bounded FIFO.     *)
THEOREM Refinement == Spec => ImplementsBoundedFifo
<1>1. Init => Fifo!Init
  <2> SUFFICES ASSUME Init PROVE Fifo!Init
    OBVIOUS
  <2>1. Stored = 0
    <3>1. At(Producers, {"v"}) = {} /\ At(Consumers, {"lock", "copy"}) = {}
      BY DEF Init, At, Threads
    <3> QED
      BY <3>1, FS_EmptySet DEF Init, Stored
  <2>2. Contents = <<>>
    BY <2>1 DEF Contents
  <2> QED
    BY <2>2 DEF Init, Fifo!Init
<1>2. RingInv /\ [Next]_vars => [Fifo!Next]_Fifo!vars
  <2> SUFFICES ASSUME RingInv, [Next]_vars PROVE [Fifo!Next]_Fifo!vars
    OBVIOUS
  <2>0. TypeOK /\ Consistent /\ Holders
    BY DEF RingInv, Consistent
  <2>1. ASSUME NEW p \in Producers, NEW v \in Values, Produce(p, v)
        PROVE  Fifo!Offer(p, v)
    <3>1. Contents' = Contents
      BY <2>1, PushCounts, ContentsSame DEF Produce
    <3>2. arg[p] = NoValue
      BY <2>0, <2>1 DEF Produce, Holders
    <3> QED
      BY <2>1, <3>1, <3>2 DEF Produce, Fifo!Offer
  <2>2. ASSUME NEW p \in Producers, SpaceP(p) \/ PLock(p) \/ DataV(p)
        PROVE  UNCHANGED Fifo!vars
    <3>1. Contents' = Contents
      BY <2>2, PushCounts, ContentsSame DEF SpaceP, PLock, DataV
    <3> QED
      BY <2>2, <3>1 DEF SpaceP, PLock, DataV, Fifo!vars
  <2>3. ASSUME NEW p \in Producers, Store(p) PROVE Fifo!Put(p)
    <3>1. /\ Stored' = Stored + 1 /\ Stored \in 0..(Num - 1)
          /\ rq'[RingIndex(Stored)] = arg[p]
          /\ \A i \in 0..(Stored - 1) : rq'[RingIndex(i)] = rq[RingIndex(i)]
      BY <2>3, PushCounts, StoreSlot
    <3>2. Contents' = [i \in 1..(Stored + 1) |-> rq'[RingIndex(i - 1)]]
      BY <2>3, <3>1 DEF Contents, RingIndex, Store
    <3>3. Contents' = Append(Contents, arg[p]) /\ Len(Contents) = Stored
      BY <3>1, <3>2 DEF Contents
    <3>4. arg[p] # NoValue
      BY <2>0, <2>3 DEF Store, Holders
    <3>5. Len(Contents) < Num
      BY <3>1, <3>3, RingQueueAssumption
    <3> QED
      BY <2>3, <3>3, <3>4, <3>5 DEF Store, Fifo!Put
  <2>4. ASSUME NEW c \in Consumers, Consume(c) \/ DataP(c) \/ CLock(c) \/ SpaceV(c)
        PROVE  UNCHANGED Fifo!vars
    <3>1. Contents' = Contents
      BY <2>4, PopCounts, ContentsSame DEF Consume, DataP, CLock, SpaceV
    <3> QED
      BY <2>4, <3>1 DEF Consume, DataP, CLock, SpaceV, Fifo!vars
  <2>5. ASSUME NEW c \in Consumers, Load(c) PROVE Fifo!Get(c)
    <3>1. /\ Stored' = Stored - 1 /\ Stored \in 1..Num /\ c_step = RingIndex(0)
          /\ \A i \in 0..(Stored - 1) : (c_step' + i) % Num = RingIndex(i + 1)
      BY <2>5, PopCounts, LoadSlot
    <3>2. Contents' = [i \in 1..(Stored - 1) |-> rq[(c_step' + (i - 1)) % Num]]
      BY <2>5, <3>1 DEF Contents, RingIndex, Load
    <3>3. \A i \in 1..(Stored - 1) : (c_step' + (i - 1)) % Num = RingIndex((i + 1) - 1)
      <4> TAKE i \in 1..(Stored - 1)
      <4>1. i - 1 \in 0..(Stored - 1) /\ (i - 1) + 1 = (i + 1) - 1
        BY <3>1
      <4> QED
        BY <3>1, <4>1
    <3>4. Contents' = [i \in 1..(Stored - 1) |-> Contents[i + 1]]
      BY <3>1, <3>2, <3>3 DEF Contents
    <3>4a. /\ Contents \in Seq(Values) /\ Len(Contents) = Stored
           /\ Stored \in Nat /\ Stored >= 1 /\ Contents[1] = rq[c_step]
      <4>1. \A i \in 1..Stored : rq[RingIndex(i - 1)] \in Values
        BY <2>0, <3>1 DEF Consistent
      <4> QED
        BY <3>1, <4>1 DEF Contents
    <3>5. Contents' = Tail(Contents)
      <4>1. Contents # <<>>
        BY <3>4a
      <4>2. /\ Tail(Contents) \in Seq(Values) /\ Len(Tail(Contents)) = Stored - 1
            /\ \A i \in 1..(Stored - 1) : Tail(Contents)[i] = Contents[i + 1]
        BY <3>4a, <4>1, HeadTailProperties
      <4>3. Tail(Contents) = [i \in 1..(Stored - 1) |-> Tail(Contents)[i]]
        BY <4>2, SeqAsFunction
      <4>4. Tail(Contents) = [i \in 1..(Stored - 1) |-> Contents[i + 1]]
        BY <4>2, <4>3
      <4> QED
        BY <3>4, <4>4
    <3>6. Contents # <<>> /\ Head(Contents) = rq[c_step]
      BY <3>4a
    <3> QED
      BY <2>5, <3>5, <3>6 DEF Load, Fifo!Get
  <2>6. CASE UNCHANGED vars
    <3>1. Stored' = Stored
      BY <2>6 DEF vars, Stored, At
    <3> QED
      BY <2>6, <3>1, ContentsSame DEF vars, Fifo!vars
  <2> QED
    BY <2>1, <2>2, <2>3, <2>4, <2>5, <2>6 DEF Next, Push, Pop, Fifo!Next
<1> QED
  BY <1>1, <1>2, RingInvariance, PTL DEF Spec, ImplementsBoundedFifo, Fifo!Spec
=============================================================================

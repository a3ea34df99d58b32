-------------------------- MODULE SpscQueueProofs --------------------------
(***************************************************************************)
(* Proofs about the ring of spsc_queue.h for every capacity, every set of  *)
(* data and a single producer: Inv of SpscQueue is inductive, and FIFO     *)
(* delivery, freedom from slot races and the exactness of the "full" and   *)
(* "empty" answers follow from it; and about its use as the cache of spent *)
(* commands by one worker (CmdCache), which conserves the commands.        *)
(***************************************************************************)
EXTENDS CmdCache, FiniteSetTheorems, TLAPS

\* The ring arithmetic of spsc_enqueue: moving head one slot forward makes the
\* ring one longer unless it runs into the other index.
LEMMA DistSucc ==
    \A i, j \in Slots : Succ(j) # i => Dist(i, Succ(j)) = Dist(i, j) + 1
BY CapAssumption DEF Slots, Succ, Dist

\* The test for a full ring (line 69): the successor of head is tail exactly when
\* one slot is left.
LEMMA DistFull ==
    \A i, j \in Slots : Succ(j) = i <=> Dist(i, j) = Cap - 1
BY CapAssumption DEF Slots, Succ, Dist

\* The test for an empty ring (line 87).
LEMMA DistEmpty == \A i, j \in Slots : Dist(i, j) = 0 <=> i = j
BY CapAssumption DEF Slots, Dist

\* Distances are natural numbers.
LEMMA DistType == \A i, j \in Slots : Dist(i, j) \in Nat
BY CapAssumption DEF Slots, Dist

\* spsc_queue_init establishes the invariant.
LEMMA InitInv == Init => Inv
BY CapAssumption
   DEF Init, Inv, TypeOK, Fifo, OnlyWriter, RingInv, CacheInv, ProducerInv,
       ConsumerInv, Slots, Dist

\* No step of an enqueue by the only producer, nor of a dequeue, breaks the
\* invariant.
LEMMA NextInv ==
    ASSUME SingleProducer, Inv, [Next]_vars
    PROVE  Inv'
<1> USE DEF Inv
<1>1. ASSUME NEW p \in Producers, NEW d \in Data, EnqueueLoad(p, d)
      PROVE  Inv'
  <2> USE <1>1 DEF EnqueueLoad
  <2>1. TypeOK'
    BY DEF TypeOK
  <2>2. Fifo'
    BY DEF Fifo
  <2>3. OnlyWriter'
    BY DEF TypeOK, OnlyWriter, SingleProducer
  <2>4. RingInv'
    BY DEF RingInv
  <2>5. CacheInv'
    BY DEF CacheInv
  <2>6. ProducerInv'
    <3>1. Succ(head) # cached_tail => Succ(head) # tail
      BY CapAssumption DEF TypeOK, CacheInv, Slots, Succ, Dist
    <3> QED
      BY <3>1 DEF TypeOK, ProducerInv, SingleProducer
  <2>7. ConsumerInv'
    BY DEF TypeOK, ConsumerInv
  <2> QED
    BY <2>1, <2>2, <2>3, <2>4, <2>5, <2>6, <2>7
<1>2. ASSUME NEW p \in Producers, EnqueueReload(p)
      PROVE  Inv'
  <2> USE <1>2 DEF EnqueueReload
  <2>1. TypeOK'
    BY DEF TypeOK
  <2>2. Fifo'
    BY DEF Fifo
  <2>3. OnlyWriter'
    BY DEF TypeOK, OnlyWriter, SingleProducer
  <2>4. RingInv'
    BY DEF RingInv
  <2>5. CacheInv'
    <3>1. Dist(tail, head) \in Nat
      BY DistType DEF TypeOK
    <3> QED
      BY <3>1 DEF CacheInv
  <2>6. ProducerInv'
    BY DEF TypeOK, ProducerInv, OnlyWriter, SingleProducer
  <2>7. ConsumerInv'
    BY DEF TypeOK, ConsumerInv
  <2> QED
    BY <2>1, <2>2, <2>3, <2>4, <2>5, <2>6, <2>7
<1>3. ASSUME NEW p \in Producers, EnqueueSlot(p)
      PROVE  Inv'
  <2> USE <1>3 DEF EnqueueSlot
  <2>1. TypeOK'
    BY Zenon DEF TypeOK
  <2>2. Fifo'
    BY DEF Fifo
  <2>3. OnlyWriter'
    BY DEF TypeOK, OnlyWriter, SingleProducer
  <2>4. RingInv'
    <3>1. prod[p].head = head
      BY DEF OnlyWriter
    <3>2. \A s \in Slots : Dist(tail, s) < Dist(tail, head) => s # head
      BY CapAssumption DEF TypeOK, Slots, Dist
    <3>3. \A s \in Slots : s # head => buf'[s] = buf[s]
      BY <3>1 DEF TypeOK
    <3> QED
      BY <3>2, <3>3, Zenon DEF TypeOK, RingInv
  <2>5. CacheInv'
    BY DEF CacheInv
  <2>6. ProducerInv'
    BY DEF TypeOK, ProducerInv, OnlyWriter, SingleProducer
  <2>7. ConsumerInv'
    BY DEF TypeOK, ConsumerInv
  <2> QED
    BY <2>1, <2>2, <2>3, <2>4, <2>5, <2>6, <2>7
<1>4. ASSUME NEW p \in Producers, EnqueueStore(p)
      PROVE  Inv'
  <2> USE <1>4 DEF EnqueueStore
  <2>a. /\ prod[p].head = head /\ prod[p].data \in Data
        /\ head' = Succ(head) /\ head' \in Slots
        /\ Succ(head) # tail /\ Succ(head) # cached_tail
        /\ buf[head] = prod[p].data
    <3>1. prod[p].head = head
      BY DEF OnlyWriter
    <3>2. /\ prod[p].data \in Data /\ buf[head] = prod[p].data
          /\ Succ(head) # tail /\ Succ(head) # cached_tail
      BY DEF ProducerInv
    <3>3. head \in Slots
      BY DEF TypeOK
    <3>4. Succ(head) \in Slots
      BY <3>3, CapAssumption DEF Slots, Succ
    <3> QED
      BY <3>1, <3>2, <3>4
  <2>b. /\ Dist(tail, head') = Dist(tail, head) + 1
        /\ Dist(cached_tail, head') = Dist(cached_tail, head) + 1
    <3>1. head \in Slots /\ tail \in Slots /\ cached_tail \in Slots
      BY DEF TypeOK
    <3> HIDE <1>4
    <3>2. /\ Dist(tail, Succ(head)) = Dist(tail, head) + 1
          /\ Dist(cached_tail, Succ(head)) = Dist(cached_tail, head) + 1
      BY <2>a, <3>1, DistSucc
    <3> QED
      BY <2>a, <3>2
  <2>c. Len(sent') = Len(sent) + 1 /\ Len(sent) \in Nat /\ Len(got) \in Nat
    BY <2>a DEF TypeOK
  <2>1. TypeOK'
    BY <2>a DEF TypeOK, ProducerInv
  <2>2. Fifo'
    BY DEF TypeOK, Fifo
  <2>3. OnlyWriter'
    BY DEF TypeOK, OnlyWriter, SingleProducer
  <2>4. RingInv'
    <3>1. Dist(tail, head') = Len(sent') - Len(got)
      BY <2>b, <2>c DEF RingInv
    <3>2. ASSUME NEW s \in Slots, Dist(tail, s) < Dist(tail, head')
          PROVE  buf[s] = sent'[Len(got) + Dist(tail, s) + 1]
      <4>1. /\ Dist(tail, s) \in Nat /\ Dist(tail, head) \in Nat
        BY DistType DEF TypeOK
      <4> HIDE DEF EnqueueStore
      <4>2. CASE Dist(tail, s) < Dist(tail, head)
        <5>1. buf[s] = sent[Len(got) + Dist(tail, s) + 1]
          BY <4>2 DEF RingInv
        <5>2. Len(got) + Dist(tail, s) + 1 \in 1 .. Len(sent)
          BY <2>c, <4>1, <4>2 DEF RingInv
        <5> QED
          BY <5>1, <5>2, <2>a DEF TypeOK, EnqueueStore
      <4>3. CASE Dist(tail, s) = Dist(tail, head)
        <5>1. s = head
          BY <4>3, CapAssumption DEF TypeOK, Slots, Dist
        <5>2. Len(got) + Dist(tail, s) + 1 = Len(sent) + 1
          BY <2>c, <4>1, <4>3 DEF RingInv
        <5> QED
          BY <5>1, <5>2, <2>a DEF TypeOK, EnqueueStore
      <4>4. Dist(tail, s) < Dist(tail, head) + 1
        BY <2>b, <3>2
      <4> QED
        BY <4>1, <4>2, <4>3, <4>4
    <3> QED
      BY <3>1, <3>2, Zenon DEF RingInv
  <2>5. CacheInv'
    <3>1. /\ Dist(tail, head) \in Nat /\ Dist(cached_tail, head) \in Nat
          /\ Dist(tail, cached_head) \in Nat
      BY DistType DEF TypeOK
    <3> QED
      BY <2>b, <3>1 DEF CacheInv
  <2>6. ProducerInv'
    BY DEF TypeOK, ProducerInv, SingleProducer
  <2>7. ConsumerInv'
    <3>1. cons.pc = "store" => Len(got) + 1 \in 1 .. Len(sent)
      <4>1. tail # head => Dist(tail, head) > 0
        BY CapAssumption DEF TypeOK, Slots, Dist
      <4> QED
        BY <2>c, <4>1 DEF ConsumerInv, RingInv
    <3> QED
      BY <2>a, <3>1 DEF TypeOK, ConsumerInv
  <2> QED
    BY <2>1, <2>2, <2>3, <2>4, <2>5, <2>6, <2>7
<1>5. ASSUME DequeueLoad
      PROVE  Inv'
  <2> USE <1>5 DEF DequeueLoad
  <2>1. TypeOK'
    BY DEF TypeOK
  <2>2. Fifo'
    BY DEF Fifo
  <2>3. OnlyWriter'
    BY DEF TypeOK, OnlyWriter, SingleProducer
  <2>4. RingInv'
    BY DEF RingInv
  <2>5. CacheInv'
    BY DEF CacheInv
  <2>6. ProducerInv'
    BY DEF TypeOK, ProducerInv
  <2>7. ConsumerInv'
    <3>1. tail # cached_head => tail # head
      BY CapAssumption DEF TypeOK, CacheInv, Slots, Dist
    <3> QED
      BY <3>1 DEF TypeOK, ConsumerInv
  <2> QED
    BY <2>1, <2>2, <2>3, <2>4, <2>5, <2>6, <2>7
<1>6. ASSUME DequeueReload
      PROVE  Inv'
  <2> USE <1>6 DEF DequeueReload
  <2>1. TypeOK'
    BY DEF TypeOK
  <2>2. Fifo'
    BY DEF Fifo
  <2>3. OnlyWriter'
    BY DEF TypeOK, OnlyWriter, SingleProducer
  <2>4. RingInv'
    BY DEF RingInv
  <2>5. CacheInv'
    <3>1. Dist(tail, head) \in Nat
      BY DistType DEF TypeOK
    <3> QED
      BY <3>1 DEF CacheInv
  <2>6. ProducerInv'
    BY DEF TypeOK, ProducerInv
  <2>7. ConsumerInv'
    BY DEF TypeOK, ConsumerInv
  <2> QED
    BY <2>1, <2>2, <2>3, <2>4, <2>5, <2>6, <2>7
<1>7. ASSUME DequeueSlot
      PROVE  Inv'
  <2> USE <1>7 DEF DequeueSlot
  <2>1. TypeOK'
    BY DEF TypeOK
  <2>2. Fifo'
    BY DEF Fifo
  <2>3. OnlyWriter'
    BY DEF TypeOK, OnlyWriter, SingleProducer
  <2>4. RingInv'
    BY DEF RingInv
  <2>5. CacheInv'
    BY DEF CacheInv
  <2>6. ProducerInv'
    BY DEF TypeOK, ProducerInv
  <2>7. ConsumerInv'
    <3>1. Dist(tail, tail) = 0 /\ Dist(tail, head) > 0
      BY CapAssumption DEF TypeOK, ConsumerInv, Slots, Dist
    <3>2. buf[tail] = sent[Len(got) + 1]
      BY <3>1 DEF TypeOK, RingInv
    <3> QED
      BY <3>2 DEF TypeOK, ConsumerInv
  <2> QED
    BY <2>1, <2>2, <2>3, <2>4, <2>5, <2>6, <2>7
<1>8. ASSUME DequeueStore
      PROVE  Inv'
  <2> USE <1>8 DEF DequeueStore
  <2>a. /\ tail # head /\ tail # cached_head
        /\ cons.data \in Data \cup {NoData} /\ cons.data = sent[Len(got) + 1]
    BY DEF TypeOK, ConsumerInv
  <2>b. Len(got') = Len(got) + 1 /\ Len(sent) \in Nat /\ Len(got) \in Nat
    BY <2>a DEF TypeOK
  <2>c. /\ Dist(tail, head) > 0
        /\ \A s \in Slots : s # tail => Dist(tail', s) = Dist(tail, s) - 1
    BY <2>a, CapAssumption DEF TypeOK, Slots, Succ, Dist
  <2>1. TypeOK'
    BY <2>a, CapAssumption DEF TypeOK, Slots, Succ
  <2>2. Fifo'
    <3>1. Len(got) + 1 <= Len(sent)
      BY <2>b, <2>c, CapAssumption DEF TypeOK, RingInv, Slots, Dist
    <3> QED
      BY <2>a, <2>b, <3>1 DEF TypeOK, Fifo
  <2>3. OnlyWriter'
    BY DEF TypeOK, OnlyWriter, SingleProducer
  <2>4. RingInv'
    <3>0. Dist(tail', head) = Dist(tail, head) - 1 /\ Dist(tail, head) \in Nat
      BY <2>a, <2>c, DistType DEF TypeOK
    <3>1. Dist(tail', head) = Len(sent) - Len(got')
      BY <2>b, <3>0 DEF RingInv
    <3>2. ASSUME NEW s \in Slots, Dist(tail', s) < Dist(tail', head)
          PROVE  buf[s] = sent[Len(got') + Dist(tail', s) + 1]
      <4>1. s # tail
        BY <2>a, <3>2, CapAssumption DEF TypeOK, Slots, Succ, Dist
      <4>2. Dist(tail, s) \in Int /\ Dist(tail, s) < Dist(tail, head)
        BY <2>a, <2>c, <3>2, <4>1, CapAssumption DEF TypeOK, Slots, Dist
      <4>3. buf[s] = sent[Len(got) + Dist(tail, s) + 1]
        BY <4>2, Zenon DEF RingInv
      <4> QED
        BY <2>b, <2>c, <4>1, <4>2, <4>3
    <3> QED
      BY <3>1, <3>2, Zenon DEF RingInv
  <2>5. CacheInv'
    <3>1. /\ Dist(tail, head) \in Nat /\ Dist(cached_tail, head) \in Nat
          /\ Dist(tail, cached_head) \in Nat
      BY DistType, Zenon DEF TypeOK
    <3> QED
      BY <2>a, <2>c, <3>1 DEF TypeOK, CacheInv
  <2>6. ProducerInv'
    BY <2>a, CapAssumption DEF TypeOK, ProducerInv, Slots, Succ
  <2>7. ConsumerInv'
    BY Zenon DEF TypeOK, ConsumerInv
  <2> QED
    BY <2>1, <2>2, <2>3, <2>4, <2>5, <2>6, <2>7
<1>9. CASE UNCHANGED vars
  BY <1>9 DEF vars, TypeOK, Fifo, OnlyWriter, RingInv, CacheInv, ProducerInv, ConsumerInv
<1> QED
  BY <1>1, <1>2, <1>3, <1>4, <1>5, <1>6, <1>7, <1>8, <1>9
     DEF Next, Enqueue, Dequeue

\* Inv implies that a write and a read never meet in one slot (lines 74, 92).
LEMMA InvImpliesNoSlotRace ==
    ASSUME Inv
    PROVE  NoSlotRace
BY DEF Inv, OnlyWriter, ConsumerInv, NoSlotRace

\* Inv decides the "full" and "empty" answers (lines 69, 87).
LEMMA InvImpliesExactVerdicts ==
    ASSUME Inv, [Next]_vars
    PROVE  /\ (\E p \in Producers : prod[p].pc = "reload" /\ prod'[p].pc = "idle")
                => Len(sent) - Len(got) = Cap - 1
           /\ cons.pc = "reload" /\ cons'.pc = "idle" => Len(sent) = Len(got)
<1> USE DEF Inv
<1>1. ASSUME NEW p \in Producers, prod[p].pc = "reload", prod'[p].pc = "idle"
      PROVE  Len(sent) - Len(got) = Cap - 1
  <2>1. EnqueueReload(p)
    BY <1>1 DEF Next, Enqueue, Dequeue, vars, TypeOK, EnqueueLoad, EnqueueReload,
                EnqueueSlot, EnqueueStore, DequeueLoad, DequeueReload, DequeueSlot,
                DequeueStore
  <2>2. Succ(head) = tail
    BY <1>1, <2>1 DEF EnqueueReload, TypeOK, OnlyWriter
  <2> QED
    BY <2>2, DistFull, Zenon DEF TypeOK, RingInv
<1>2. ASSUME cons.pc = "reload", cons'.pc = "idle"
      PROVE  Len(sent) = Len(got)
  <2>1. DequeueReload
    BY <1>2 DEF Next, Enqueue, Dequeue, vars, TypeOK, EnqueueLoad, EnqueueReload,
                EnqueueSlot, EnqueueStore, DequeueLoad, DequeueReload, DequeueSlot,
                DequeueStore
  <2>2. tail = head
    BY <1>2, <2>1 DEF DequeueReload, TypeOK
  <2>3. Len(sent) \in Nat /\ Len(got) \in Nat
    BY DEF TypeOK
  <2> QED
    BY <2>2, <2>3, DistEmpty DEF TypeOK, RingInv
<1> QED
  BY <1>1, <1>2

\* With a single producer, the invariant holds in every reachable state.
THEOREM Invariance == ASSUME SingleProducer PROVE Spec => []Inv
BY InitInv, NextInv, PTL DEF Spec

\* Type correctness of the ring.
THEOREM TypeCorrect == ASSUME SingleProducer PROVE Spec => []TypeOK
<1>1. Inv => TypeOK
  BY DEF Inv
<1> QED
  BY <1>1, Invariance, PTL

\* spsc_enqueue and spsc_dequeue implement FIFO delivery without loss,
\* duplication or stale reads.
THEOREM FifoDelivery == ASSUME SingleProducer PROVE Spec => []Fifo
<1>1. Inv => Fifo
  BY DEF Inv
<1> QED
  BY <1>1, Invariance, PTL

\* The slot write of line 74 and the slot read of line 92 never race.
THEOREM RaceFreedom == ASSUME SingleProducer PROVE Spec => []NoSlotRace
<1>1. Inv => NoSlotRace
  BY InvImpliesNoSlotRace
<1> QED
  BY <1>1, Invariance, PTL

\* -EAGAIN means full and NULL means empty, in spite of the cached indices.
THEOREM VerdictsAreExact == ASSUME SingleProducer PROVE Spec => ExactVerdicts
<1>1. Inv /\ [Next]_vars =>
        [/\ (\E p \in Producers : prod[p].pc = "reload" /\ prod'[p].pc = "idle")
              => Len(sent) - Len(got) = Cap - 1
         /\ cons.pc = "reload" /\ cons'.pc = "idle" => Len(sent) = Len(got)]_vars
  BY InvImpliesExactVerdicts
<1> QED
  BY <1>1, Invariance, PTL DEF Spec, ExactVerdicts

-----------------------------------------------------------------------------
(* The recycling of commands *)

\* Places(c), of the sets of workers and slots where c is.
Tagged(Q, H, S) ==
    {<<"queue", w>> : w \in Q} \cup {<<"hand", w>> : w \in H} \cup {<<"slot", s>> : s \in S}

\* All in all one worker or slot.
OneOf(Q, H, S) ==
    \E w : \/ Q = {w} /\ H = {} /\ S = {}
           \/ Q = {} /\ H = {w} /\ S = {}
           \/ Q = {} /\ H = {} /\ S = {w}

\* A command is in one place if it is at one worker or slot.
LEMMA PlaceKinds ==
    ASSUME NEW Q, NEW H, NEW S
    PROVE  /\ Tagged(Q, H, S) = {} <=> (Q = {} /\ H = {} /\ S = {})
           /\ (\E x \in Tagged(Q, H, S) : Tagged(Q, H, S) = {x}) <=> OneOf(Q, H, S)
<1> DEFINE P == Tagged(Q, H, S)
<1>1. /\ \A w : <<"queue", w>> \in P <=> w \in Q
      /\ \A w : <<"hand", w>> \in P <=> w \in H
      /\ \A w : <<"slot", w>> \in P <=> w \in S
      BY DEF Tagged
<1>2. ASSUME NEW x \in P
      PROVE  \/ \E w \in Q : x = <<"queue", w>>
             \/ \E w \in H : x = <<"hand", w>>
             \/ \E w \in S : x = <<"slot", w>>
      BY DEF Tagged
<1> HIDE DEF P
<1>3. P = {} <=> (Q = {} /\ H = {} /\ S = {})
      BY <1>1, <1>2, Zenon
<1>4. \A v, w : /\ <<"queue", v>> = <<"queue", w>> => v = w
                /\ <<"hand", v>> = <<"hand", w>> => v = w
                /\ <<"slot", v>> = <<"slot", w>> => v = w
                /\ <<"queue", v>> # <<"hand", w>> /\ <<"queue", v>> # <<"slot", w>>
                /\ <<"hand", v>> # <<"slot", w>>
      OBVIOUS
<1>5. ASSUME NEW x \in P, P = {x}
      PROVE  OneOf(Q, H, S)
      <2>1. CASE \E w \in Q : x = <<"queue", w>>
            <3>1. PICK w \in Q : x = <<"queue", w>>
                  BY <2>1
            <3>2. Q = {w} /\ H = {} /\ S = {}
                  BY <1>1, <1>4, <1>5, <3>1, Zenon
            <3> QED BY <3>2 DEF OneOf
      <2>2. CASE \E w \in H : x = <<"hand", w>>
            <3>1. PICK w \in H : x = <<"hand", w>>
                  BY <2>2
            <3>2. Q = {} /\ H = {w} /\ S = {}
                  BY <1>1, <1>4, <1>5, <3>1, Zenon
            <3> QED BY <3>2 DEF OneOf
      <2>3. CASE \E w \in S : x = <<"slot", w>>
            <3>1. PICK w \in S : x = <<"slot", w>>
                  BY <2>3
            <3>2. Q = {} /\ H = {} /\ S = {w}
                  BY <1>1, <1>4, <1>5, <3>1, Zenon
            <3> QED BY <3>2 DEF OneOf
      <2> QED BY <1>2, <2>1, <2>2, <2>3
<1>6. ASSUME OneOf(Q, H, S)
      PROVE  \E x \in P : P = {x}
      <2>1. PICK w : \/ Q = {w} /\ H = {} /\ S = {}
                     \/ Q = {} /\ H = {w} /\ S = {}
                     \/ Q = {} /\ H = {} /\ S = {w}
            BY <1>6 DEF OneOf
      <2>2. CASE Q = {w} /\ H = {} /\ S = {}
            <3>1. <<"queue", w>> \in P /\ \A x \in P : x = <<"queue", w>>
                  BY <1>1, <1>2, <2>2
            <3> QED BY <3>1, Zenon
      <2>3. CASE Q = {} /\ H = {w} /\ S = {}
            <3>1. <<"hand", w>> \in P /\ \A x \in P : x = <<"hand", w>>
                  BY <1>1, <1>2, <2>3
            <3> QED BY <3>1, Zenon
      <2>4. CASE Q = {} /\ H = {} /\ S = {w}
            <3>1. <<"slot", w>> \in P /\ \A x \in P : x = <<"slot", w>>
                  BY <1>1, <1>2, <2>4
            <3> QED BY <3>1, Zenon
      <2> QED BY <2>1, <2>2, <2>3, <2>4
<1> QED BY <1>3, <1>5, <1>6 DEF P

\* Owned says of each command: it is at one worker or slot, or freed and nowhere.
LEMMA OwnedMeans ==
    /\ Owned <=> \A c \in Data :
          IF c \in alloc THEN OneOf(QueuedAt(c), HeldBy(c), SlotsOf(c))
                         ELSE QueuedAt(c) = {} /\ HeldBy(c) = {} /\ SlotsOf(c) = {}
    /\ Owned' <=> \A c \in Data :
          IF c \in alloc' THEN OneOf(QueuedAt(c)', HeldBy(c)', SlotsOf(c)')
                          ELSE QueuedAt(c)' = {} /\ HeldBy(c)' = {} /\ SlotsOf(c)' = {}
<1>1. \A c \in Data : /\ Places(c) = Tagged(QueuedAt(c), HeldBy(c), SlotsOf(c))
                      /\ Places(c)' = Tagged(QueuedAt(c)', HeldBy(c)', SlotsOf(c)')
      BY DEF Places, Tagged
<1>2. ASSUME NEW c \in Data
      PROVE  /\ Places(c) = {} <=> (QueuedAt(c) = {} /\ HeldBy(c) = {} /\ SlotsOf(c) = {})
             /\ (\E x \in Places(c) : Places(c) = {x})
                   <=> OneOf(QueuedAt(c), HeldBy(c), SlotsOf(c))
      BY <1>1, PlaceKinds
<1>3. ASSUME NEW c \in Data
      PROVE  /\ Places(c)' = {} <=> (QueuedAt(c)' = {} /\ HeldBy(c)' = {} /\ SlotsOf(c)' = {})
             /\ (\E x \in Places(c)' : Places(c)' = {x})
                   <=> OneOf(QueuedAt(c)', HeldBy(c)', SlotsOf(c)')
      BY <1>1, PlaceKinds
<1>4. Owned <=> \A c \in Data : IF c \in alloc THEN \E x \in Places(c) : Places(c) = {x}
                                               ELSE Places(c) = {}
      BY DEF Owned
<1>5. Owned' <=> \A c \in Data : IF c \in alloc' THEN \E x \in Places(c)' : Places(c)' = {x}
                                                 ELSE Places(c)' = {}
      BY DEF Owned
<1> QED BY <1>2, <1>3, <1>4, <1>5, Zenon

\* The slots between tail and head when spsc_enqueue moves head ...
LEMMA RingGrows ==
    ASSUME NEW i \in Slots, NEW j \in Slots, Succ(j) # i
    PROVE  \A s \in Slots : Dist(i, s) < Dist(i, Succ(j)) <=> (Dist(i, s) < Dist(i, j) \/ s = j)
BY CapAssumption DEF Slots, Succ, Dist

\* ... and when spsc_dequeue moves tail.
LEMMA RingShrinks ==
    ASSUME NEW i \in Slots, NEW j \in Slots, i # j
    PROVE  \A s \in Slots : Dist(Succ(i), s) < Dist(Succ(i), j) <=> (Dist(i, s) < Dist(i, j) /\ s # i)
BY CapAssumption DEF Slots, Succ, Dist

\* The ring of the cache is used as spsc_enqueue and spsc_dequeue, by workers and
\* sender, on commands.
LEMMA CacheUsesRing ==
    ASSUME CacheType, [CacheNext]_cacheVars
    PROVE  [Next]_vars
<1>1. ASSUME Sender PROVE Next
      BY <1>1, Zenon DEF Sender, SenderLoad, SenderReload, SenderMiss, SenderSlot, SenderHit, Next, Dequeue
<1>2. ASSUME NEW w \in Producers, Worker(w) PROVE Next
      <2>1. \A c \in queued[w] : c \in Data
            BY DEF CacheType
      <2> QED BY <1>2, <2>1
          DEF Worker, WorkerRun, WorkerReload, WorkerSlot, WorkerStore, Next, Enqueue
<1>3. CASE UNCHANGED cacheVars
      BY <1>3 DEF cacheVars
<1> QED BY <1>1, <1>2, <1>3 DEF CacheNext

\* The command spsc_dequeue is about to return is the one in the slot at tail.
LEMMA CachedCommand ==
    ASSUME Inv, cons.pc = "store"
    PROVE  /\ cons.data \in Data /\ buf[tail] = cons.data
           /\ tail \in SlotsOf(cons.data) /\ tail # head
<1>1. tail # head /\ cons.data = sent[Len(got) + 1] /\ head \in Slots /\ tail \in Slots
      BY DEF Inv, ConsumerInv, TypeOK
<1>2. Dist(tail, tail) = 0 /\ Dist(tail, head) > 0 /\ Dist(tail, head) \in Nat
      BY <1>1, CapAssumption DEF Slots, Dist
<1>3. /\ sent \in Seq(Data) /\ Len(sent) \in Nat /\ Len(got) \in Nat
      /\ Dist(tail, head) = Len(sent) - Len(got)
      /\ buf[tail] = sent[Len(got) + Dist(tail, tail) + 1]
      BY <1>1, <1>2 DEF Inv, TypeOK, RingInv
<1>4. Len(got) + 1 \in 1 .. Len(sent) /\ Len(got) + Dist(tail, tail) + 1 = Len(got) + 1
      BY <1>2, <1>3
<1>5. sent[Len(got) + 1] \in Data
      BY <1>3, <1>4
<1> QED BY <1>1, <1>2, <1>3, <1>4, <1>5 DEF SlotsOf

\* Commands are only taken from the heap, queued and put back as commands.
LEMMA CacheTypeStep ==
    ASSUME OwnerInv, [CacheNext]_cacheVars
    PROVE  CacheType'
<1>1. CacheType /\ Inv
      BY DEF OwnerInv
<1>2. ASSUME NEW w \in Producers, NEW c \in Data, SenderMiss(w, c) PROVE CacheType'
      BY <1>1, <1>2 DEF SenderMiss, CacheType
<1>3. ASSUME NEW w \in Producers, SenderHit(w) PROVE CacheType'
      <2>1. cons.data \in Data
            BY <1>1, <1>3, CachedCommand, Zenon DEF SenderHit, DequeueStore
      <2> QED BY <1>1, <1>3, <2>1, Zenon DEF SenderHit, CacheType
<1>4. ASSUME NEW w \in Producers, Worker(w) PROVE CacheType'
      BY <1>1, <1>4 DEF Worker, WorkerRun, WorkerReload, WorkerSlot, WorkerStore, CacheType
<1>5. ASSUME SenderLoad \/ SenderReload \/ SenderSlot \/ UNCHANGED cacheVars PROVE CacheType'
      BY <1>1, <1>5, Zenon DEF SenderLoad, SenderReload, SenderSlot, cacheVars, CacheType
<1> QED BY <1>2, <1>3, <1>4, <1>5 DEF CacheNext, Sender

\* A step that moves, allocates or frees one command keeps Owned if that command
\* has a place afterwards, or is freed and has none.
LEMMA OneMoves ==
    ASSUME Owned, NEW c \in Data,
           \A d \in Data : d # c =>
              /\ d \in alloc' <=> d \in alloc
              /\ QueuedAt(d)' = QueuedAt(d) /\ HeldBy(d)' = HeldBy(d) /\ SlotsOf(d)' = SlotsOf(d),
           IF c \in alloc' THEN OneOf(QueuedAt(c)', HeldBy(c)', SlotsOf(c)')
                           ELSE QueuedAt(c)' = {} /\ HeldBy(c)' = {} /\ SlotsOf(c)' = {}
    PROVE  Owned'
BY OwnedMeans

\* The place of a command that is at a worker or in a slot is the only one.
LEMMA OnlyPlace ==
    ASSUME Owned, NEW c \in Data, NEW w
    PROVE  /\ w \in QueuedAt(c) => /\ c \in alloc /\ QueuedAt(c) = {w}
                                   /\ HeldBy(c) = {} /\ SlotsOf(c) = {}
           /\ w \in HeldBy(c) => /\ c \in alloc /\ HeldBy(c) = {w}
                                 /\ QueuedAt(c) = {} /\ SlotsOf(c) = {}
           /\ w \in SlotsOf(c) => /\ c \in alloc /\ SlotsOf(c) = {w}
                                  /\ QueuedAt(c) = {} /\ HeldBy(c) = {}
<1>1. IF c \in alloc THEN OneOf(QueuedAt(c), HeldBy(c), SlotsOf(c))
                     ELSE QueuedAt(c) = {} /\ HeldBy(c) = {} /\ SlotsOf(c) = {}
      BY OwnedMeans, Zenon
<1> QED BY <1>1 DEF OneOf

\* A worker runs a command of its queue and holds it.
LEMMA WorkerRunOwned ==
    ASSUME OwnerInv, NEW w \in Producers, WorkerRun(w)
    PROVE  Owned'
<1>1. Inv /\ CacheType /\ Owned /\ TypeOK
      BY DEF OwnerInv, Inv
<1>2. PICK c \in queued[w] : EnqueueLoad(w, c) /\ queued' = [queued EXCEPT ![w] = @ \ {c}]
      BY Zenon DEF WorkerRun
<1>3. c \in Data /\ w \in QueuedAt(c) /\ alloc' = alloc
      BY <1>1, <1>2, Zenon DEF CacheType, QueuedAt, WorkerRun
<1>4. /\ prod[w].pc = "idle" /\ prod'[w].pc # "idle" /\ prod'[w].data = c
      /\ \A v \in Producers : v # w => prod'[v] = prod[v]
      BY <1>1, <1>2 DEF EnqueueLoad, TypeOK
<1>5. /\ queued'[w] = queued[w] \ {c}
      /\ \A v \in Producers : v # w => queued'[v] = queued[v]
      BY <1>1, <1>2, Zenon DEF CacheType
<1>6. \A d \in Data : SlotsOf(d)' = SlotsOf(d)
      BY <1>2, Zenon DEF SlotsOf, EnqueueLoad
<1>7. ASSUME NEW d \in Data, d # c
      PROVE  QueuedAt(d)' = QueuedAt(d) /\ HeldBy(d)' = HeldBy(d)
      BY <1>4, <1>5, <1>7 DEF QueuedAt, HeldBy
<1>8. /\ QueuedAt(c) = {w} /\ HeldBy(c) = {} /\ SlotsOf(c) = {} /\ c \in alloc
      BY <1>1, <1>3, OnlyPlace, Zenon
<1>9. QueuedAt(c)' = {} /\ HeldBy(c)' = {w} /\ SlotsOf(c)' = {}
      BY <1>3, <1>4, <1>5, <1>6, <1>8 DEF QueuedAt, HeldBy
<1>10. OneOf(QueuedAt(c)', HeldBy(c)', SlotsOf(c)')
      BY <1>9, Zenon DEF OneOf
<1> QED BY <1>1, <1>3, <1>6, <1>7, <1>8, <1>10, OneMoves

\* A worker that reloads tail goes on, or finds the ring full and frees the command.
LEMMA WorkerReloadOwned ==
    ASSUME OwnerInv, NEW w \in Producers, WorkerReload(w)
    PROVE  Owned'
<1>1. Inv /\ CacheType /\ Owned /\ TypeOK
      BY DEF OwnerInv, Inv
<1>2. EnqueueReload(w) /\ queued' = queued
      BY DEF WorkerReload
<1>3. PICK c \in Data : c = prod[w].data /\ prod[w].pc = "reload"
      BY <1>1, <1>2 DEF EnqueueReload, Inv, ProducerInv
<1>4. /\ prod'[w].data = c /\ \A v \in Producers : v # w => prod'[v] = prod[v]
      BY <1>1, <1>2, <1>3 DEF EnqueueReload, TypeOK
<1>5. \A d \in Data : SlotsOf(d)' = SlotsOf(d) /\ QueuedAt(d)' = QueuedAt(d)
      BY <1>2, Zenon DEF SlotsOf, QueuedAt, EnqueueReload
<1>6. \A d \in Data : d # c => HeldBy(d)' = HeldBy(d)
      BY <1>3, <1>4 DEF HeldBy
<1>7. /\ HeldBy(c) = {w} /\ QueuedAt(c) = {} /\ SlotsOf(c) = {} /\ c \in alloc
      <2>1. w \in HeldBy(c)
            BY <1>3, Zenon DEF HeldBy
      <2> QED BY <1>1, <2>1, OnlyPlace
<1>8. CASE prod'[w].pc = "idle"
      <2>1. alloc' = alloc \ {c}
            BY <1>3, <1>8, Zenon DEF WorkerReload
      <2>2. HeldBy(c)' = {}
            BY <1>4, <1>7, <1>8, Zenon DEF HeldBy
      <2> QED BY <1>1, <1>5, <1>6, <1>7, <2>1, <2>2, OneMoves, Zenon
<1>9. CASE prod'[w].pc # "idle"
      <2>1. alloc' = alloc
            BY <1>9, Zenon DEF WorkerReload
      <2>2. HeldBy(c)' = {w}
            BY <1>4, <1>7, <1>9 DEF HeldBy
      <2>3. OneOf(QueuedAt(c)', HeldBy(c)', SlotsOf(c)')
            BY <1>5, <1>7, <2>2, Zenon DEF OneOf
      <2> QED BY <1>1, <1>5, <1>6, <1>7, <2>1, <2>3, OneMoves
<1> QED BY <1>8, <1>9

\* The slot a worker writes is outside the ring, so no command moves yet.
LEMMA WorkerSlotOwned ==
    ASSUME OwnerInv, NEW w \in Producers, WorkerSlot(w)
    PROVE  Owned'
<1>1. Inv /\ CacheType /\ Owned /\ TypeOK
      BY DEF OwnerInv, Inv
<1>2. EnqueueSlot(w) /\ queued' = queued /\ alloc' = alloc /\ prod[w].pc = "slot"
      BY DEF WorkerSlot, EnqueueSlot
<1>3. /\ prod'[w].data = prod[w].data /\ prod'[w].pc = "store"
      /\ \A v \in Producers : v # w => prod'[v] = prod[v]
      BY <1>1, <1>2 DEF EnqueueSlot, TypeOK
<1>4. prod[w].head = head
      BY <1>1, <1>2 DEF Inv, OnlyWriter
<1>5. \A s \in Slots : s # head => buf'[s] = buf[s]
      BY <1>1, <1>2, <1>4 DEF EnqueueSlot, TypeOK
<1>6. \A s \in Slots : Dist(tail, s) < Dist(tail, head) => s # head
      BY <1>1, CapAssumption DEF TypeOK, Slots, Dist
<1>7. tail' = tail /\ head' = head
      BY <1>2 DEF EnqueueSlot
<1>8. ASSUME NEW d \in Data
      PROVE  QueuedAt(d)' = QueuedAt(d) /\ HeldBy(d)' = HeldBy(d) /\ SlotsOf(d)' = SlotsOf(d)
      <2>1. QueuedAt(d)' = QueuedAt(d) /\ HeldBy(d)' = HeldBy(d)
            BY <1>2, <1>3 DEF QueuedAt, HeldBy
      <2>2. SlotsOf(d)' = SlotsOf(d)
            BY <1>5, <1>6, <1>7, Zenon DEF SlotsOf, Dist
      <2> QED BY <2>1, <2>2, Zenon
<1> QED BY <1>1, <1>2, <1>8, OwnedMeans

\* The store of head puts the command a worker holds into the ring.
LEMMA WorkerStoreOwned ==
    ASSUME OwnerInv, NEW w \in Producers, WorkerStore(w)
    PROVE  Owned'
<1>1. Inv /\ CacheType /\ Owned /\ TypeOK
      BY DEF OwnerInv, Inv
<1>2. EnqueueStore(w) /\ queued' = queued /\ alloc' = alloc /\ prod[w].pc = "store"
      BY Zenon DEF WorkerStore, EnqueueStore
<1>3. PICK c \in Data : /\ c = prod[w].data /\ buf[head] = c
                        /\ Succ(head) # tail /\ prod[w].head = head
      BY <1>1, <1>2 DEF Inv, ProducerInv, OnlyWriter
<1>4. /\ prod'[w].pc = "idle" /\ \A v \in Producers : v # w => prod'[v] = prod[v]
      BY <1>1, <1>2 DEF EnqueueStore, TypeOK
<1>5. head' = Succ(head) /\ tail' = tail /\ buf' = buf /\ head \in Slots /\ tail \in Slots
      BY <1>1, <1>2, <1>3, Zenon DEF EnqueueStore, TypeOK
<1>6. \A s \in Slots : Dist(tail, s) < Dist(tail, head') <=> (Dist(tail, s) < Dist(tail, head) \/ s = head)
      BY <1>3, <1>5, RingGrows
<1>7. ASSUME NEW d \in Data, d # c
      PROVE  QueuedAt(d)' = QueuedAt(d) /\ HeldBy(d)' = HeldBy(d) /\ SlotsOf(d)' = SlotsOf(d)
      <2>1. QueuedAt(d)' = QueuedAt(d) /\ HeldBy(d)' = HeldBy(d)
            BY <1>2, <1>3, <1>4, <1>7, Zenon DEF QueuedAt, HeldBy
      <2>2. SlotsOf(d)' = SlotsOf(d)
            BY <1>3, <1>5, <1>6, <1>7, Zenon DEF SlotsOf, Dist
      <2> QED BY <2>1, <2>2, Zenon
<1>8. /\ HeldBy(c) = {w} /\ QueuedAt(c) = {} /\ SlotsOf(c) = {} /\ c \in alloc
      <2>1. w \in HeldBy(c)
            BY <1>2, <1>3 DEF HeldBy
      <2> QED BY <1>1, <2>1, OnlyPlace
<1>9. QueuedAt(c)' = {} /\ HeldBy(c)' = {} /\ SlotsOf(c)' = {head}
      <2>1. QueuedAt(c)' = {} /\ HeldBy(c)' = {}
            BY <1>2, <1>4, <1>8, Zenon DEF QueuedAt, HeldBy
      <2>2. SlotsOf(c)' = {head}
            BY <1>3, <1>5, <1>6, <1>8 DEF SlotsOf, Dist
      <2> QED BY <2>1, <2>2, Zenon
<1>10. OneOf(QueuedAt(c)', HeldBy(c)', SlotsOf(c)')
      BY <1>9, Zenon DEF OneOf
<1> QED BY <1>1, <1>2, <1>7, <1>8, <1>10, OneMoves

\* The command evthr_defer takes out of the ring goes to a worker's queue.
LEMMA SenderHitOwned ==
    ASSUME OwnerInv, NEW w \in Producers, SenderHit(w)
    PROVE  Owned'
<1>1. Inv /\ CacheType /\ Owned /\ TypeOK
      BY DEF OwnerInv, Inv
<1>2. DequeueStore /\ cons.pc = "store" /\ alloc' = alloc
      BY Zenon DEF SenderHit, DequeueStore
<1>3. PICK c \in Data : /\ c = cons.data /\ buf[tail] = c
                        /\ tail \in SlotsOf(c) /\ tail # head
      BY <1>1, <1>2, CachedCommand, Zenon
<1>4. /\ queued'[w] = queued[w] \cup {c}
      /\ \A v \in Producers : v # w => queued'[v] = queued[v]
      BY <1>1, <1>3, Zenon DEF SenderHit, CacheType
<1>5. /\ head' = head /\ tail' = Succ(tail) /\ buf' = buf /\ prod' = prod
      /\ head \in Slots /\ tail \in Slots
      BY <1>1, <1>2, Zenon DEF DequeueStore, TypeOK
<1>6. \A s \in Slots : Dist(tail', s) < Dist(tail', head) <=> (Dist(tail, s) < Dist(tail, head) /\ s # tail)
      BY <1>3, <1>5, RingShrinks, Zenon
<1>7. ASSUME NEW d \in Data, d # c
      PROVE  QueuedAt(d)' = QueuedAt(d) /\ HeldBy(d)' = HeldBy(d) /\ SlotsOf(d)' = SlotsOf(d)
      <2>1. QueuedAt(d)' = QueuedAt(d) /\ HeldBy(d)' = HeldBy(d)
            BY <1>4, <1>5, <1>7 DEF QueuedAt, HeldBy
      <2>2. SlotsOf(d)' = SlotsOf(d)
            BY <1>3, <1>5, <1>6, <1>7, Zenon DEF SlotsOf, Dist
      <2> QED BY <2>1, <2>2
<1>8. /\ SlotsOf(c) = {tail} /\ QueuedAt(c) = {} /\ HeldBy(c) = {} /\ c \in alloc
      BY <1>1, <1>3, OnlyPlace
<1>9. QueuedAt(c)' = {w} /\ HeldBy(c)' = {} /\ SlotsOf(c)' = {}
      <2>1. QueuedAt(c)' = {w} /\ HeldBy(c)' = {}
            BY <1>4, <1>5, <1>8 DEF QueuedAt, HeldBy
      <2>2. SlotsOf(c)' = {}
            BY <1>5, <1>6, <1>8 DEF SlotsOf, Dist
      <2> QED BY <2>1, <2>2, Zenon
<1>10. OneOf(QueuedAt(c)', HeldBy(c)', SlotsOf(c)')
      BY <1>9, Zenon DEF OneOf
<1> QED BY <1>1, <1>2, <1>7, <1>8, <1>10, OneMoves

\* A new command goes to a worker's queue.
LEMMA SenderMissOwned ==
    ASSUME OwnerInv, NEW w \in Producers, NEW c \in Data, SenderMiss(w, c)
    PROVE  Owned'
<1>1. CacheType /\ Owned
      BY Zenon DEF OwnerInv
<1>2. /\ c \notin alloc /\ alloc' = alloc \cup {c}
      /\ queued'[w] = queued[w] \cup {c}
      /\ \A v \in Producers : v # w => queued'[v] = queued[v]
      BY <1>1 DEF SenderMiss, CacheType
<1>3. UNCHANGED <<prod, buf, tail, head>>
      BY Zenon DEF SenderMiss, DequeueReload
<1>4. \A d \in Data : HeldBy(d)' = HeldBy(d) /\ SlotsOf(d)' = SlotsOf(d)
      BY <1>3, Zenon DEF HeldBy, SlotsOf
<1>5. \A d \in Data : d # c => QueuedAt(d)' = QueuedAt(d)
      BY <1>2, Zenon DEF QueuedAt
<1>6. QueuedAt(c) = {} /\ HeldBy(c) = {} /\ SlotsOf(c) = {}
      BY <1>1, <1>2, OwnedMeans, Zenon
<1>7. QueuedAt(c)' = {w}
      BY <1>2, <1>6 DEF QueuedAt
<1>8. OneOf(QueuedAt(c)', HeldBy(c)', SlotsOf(c)')
      BY <1>4, <1>6, <1>7, Zenon DEF OneOf
<1> QED BY <1>1, <1>2, <1>4, <1>5, <1>8, OneMoves

\* No step of the sender or of the only worker loses or doubles a command.
LEMMA OwnerStep ==
    ASSUME SingleProducer, OwnerInv, [CacheNext]_cacheVars
    PROVE  OwnerInv'
<1>1. CacheType'
      BY CacheTypeStep
<1>2. Inv'
      BY CacheUsesRing, NextInv, Zenon DEF OwnerInv
<1>3. ASSUME SenderLoad \/ SenderReload \/ SenderSlot \/ UNCHANGED cacheVars
      PROVE  Owned'
      <2>1. UNCHANGED <<prod, buf, tail, head, queued, alloc>>
            BY <1>3 DEF SenderLoad, SenderReload, SenderSlot, cacheVars, vars,
                        DequeueLoad, DequeueReload, DequeueSlot
      <2> QED BY <2>1 DEF OwnerInv, Owned, Places, QueuedAt, HeldBy, SlotsOf
<1>4. Owned'
      BY <1>3, SenderHitOwned, SenderMissOwned, WorkerRunOwned, WorkerReloadOwned,
         WorkerSlotOwned, WorkerStoreOwned
      DEF CacheNext, Sender, Worker
<1> QED BY <1>1, <1>2, <1>4 DEF OwnerInv

\* Nothing is allocated at first.
LEMMA OwnerInit == CacheInit => OwnerInv
<1> SUFFICES ASSUME CacheInit PROVE OwnerInv
    OBVIOUS
<1>1. Inv
      BY InitInv DEF CacheInit
<1>2. CacheType
      BY DEF CacheInit, CacheType
<1>3. ASSUME NEW c \in Data
      PROVE  QueuedAt(c) = {} /\ HeldBy(c) = {} /\ SlotsOf(c) = {}
      <2>1. QueuedAt(c) = {} /\ HeldBy(c) = {}
            BY Zenon DEF CacheInit, Init, QueuedAt, HeldBy
      <2>2. SlotsOf(c) = {}
            BY CapAssumption DEF CacheInit, Init, SlotsOf, Slots, Dist
      <2> QED BY <2>1, <2>2, Zenon
<1>4. Owned
      BY <1>3, OwnedMeans DEF CacheInit
<1> QED BY <1>1, <1>2, <1>4 DEF OwnerInv

\* With one worker, evthr_defer and _evthr_run_callbacks conserve the commands:
\* an allocated one is in exactly one place, a freed one nowhere.
THEOREM CommandsConserved == ASSUME SingleProducer PROVE CacheSpec => []OneOwner
<1>1. CacheInit => OwnerInv
      BY OwnerInit
<1>2. OwnerInv /\ [CacheNext]_cacheVars => OwnerInv'
      BY OwnerStep
<1>3. OwnerInv => OneOwner
      <2> SUFFICES ASSUME Owned, NEW c \in Data
                   PROVE  Cardinality(Places(c)) = IF c \in alloc THEN 1 ELSE 0
          BY DEF OwnerInv, OneOwner
      <2>1. CASE c \in alloc
            <3>1. PICK x : Places(c) = {x}
                  BY <2>1 DEF Owned
            <3> QED BY <2>1, <3>1, FS_Singleton, Zenon
      <2>2. CASE c \notin alloc
            BY <2>2, FS_EmptySet DEF Owned
      <2> QED BY <2>1, <2>2
<1> QED BY <1>1, <1>2, <1>3, PTL DEF CacheSpec

\* The cache keeps to the protocol of the ring, so the sender gets back what the
\* only worker gave, in order, and a miss means that nothing is there.
THEOREM CacheRingCorrect ==
    ASSUME SingleProducer PROVE CacheSpec => []Fifo /\ ExactVerdicts
<1>1. CacheInit => OwnerInv /\ Init
      BY OwnerInit DEF CacheInit
<1>2. OwnerInv /\ [CacheNext]_cacheVars => OwnerInv' /\ [Next]_vars
      BY OwnerStep, CacheUsesRing DEF OwnerInv
<1>3. CacheSpec => Spec
      BY <1>1, <1>2, PTL DEF CacheSpec, Spec
<1> QED BY <1>3, FifoDelivery, VerdictsAreExact, PTL
=============================================================================

----------------------------- MODULE SpscQueue -----------------------------
(***************************************************************************)
(* The single-producer single-consumer ring of include/evhtp/spsc_queue.h, *)
(* which thread.c uses as the cache of spent commands of one sender: the   *)
(* worker that has run a command enqueues it (_evthr_run_callbacks), the   *)
(* sender that needs one dequeues it (evthr_defer).                        *)
(*                                                                         *)
(* Every shared access is a step of its own; a plain field that only one   *)
(* side reads and writes is accessed in the step of the shared access next *)
(* to it.  The release stores and acquire loads of the code order the slot *)
(* accesses with the index accesses, so steps interleave sequentially.     *)
(*                                                                         *)
(* The set Producers has one element in the intended use.  It is a         *)
(* parameter because thread.c gives one ring to every worker a sender      *)
(* defers to.                                                              *)
(***************************************************************************)
EXTENDS Integers, Sequences

CONSTANTS
    Cap,        \* q->cap, the number of slots
    Data,       \* the pointers that are enqueued
    Producers,  \* the threads that call spsc_enqueue
    MaxSent,    \* bound: the number of enqueues explored
    NoData      \* what spsc_dequeue returns when the ring is empty (NULL)

ASSUME CapAssumption     == Cap \in Nat /\ Cap >= 2
ASSUME MaxSentAssumption == MaxSent \in Nat
ASSUME NoDataAssumption  == NoData \notin Data

VARIABLES
    head,         \* pq->head: next slot to write
    cached_tail,  \* pq->cached_tail
    tail,         \* cq->tail: next slot to read
    cached_head,  \* cq->cached_head
    buf,          \* the slots
    prod,         \* per producer: where it is in spsc_enqueue and its locals
    cons,         \* where the consumer is in spsc_dequeue
    sent,         \* history: the data enqueued, in the order of the head stores
    got           \* history: the data dequeued

vars == <<head, cached_tail, tail, cached_head, buf, prod, cons, sent, got>>

Slots == 0 .. Cap - 1

\* head + 1 (tail + 1), back to 0 at the capacity.
Succ(i) == IF i + 1 = Cap THEN 0 ELSE i + 1

\* spsc_queue_init: the buffer is malloc'ed, its slots hold anything.
Init ==
    /\ head = 0 /\ cached_tail = 0
    /\ tail = 0 /\ cached_head = 0
    /\ buf \in [Slots -> Data \cup {NoData}]
    /\ prod = [p \in Producers |-> [pc |-> "idle", data |-> NoData, head |-> 0]]
    /\ cons = [pc |-> "idle", data |-> NoData]
    /\ sent = <<>> /\ got = <<>>

-----------------------------------------------------------------------------
(* spsc_enqueue *)

\* Mutant: tests head, not its successor, against the cached tail.
EnqueueLoadUnchecked(p, d) ==
    /\ prod[p].pc = "idle"
    /\ Len(sent) < MaxSent
    /\ prod' = [prod EXCEPT ![p] =
                  [pc   |-> IF head = cached_tail THEN "reload" ELSE "slot",
                   data |-> d, head |-> head]]
    /\ UNCHANGED <<head, cached_tail, tail, cached_head, buf, cons, sent, got>>

\* Load head and look at the cached tail: full as far as the cache knows?
EnqueueLoad(p, d) ==
    /\ prod[p].pc = "idle"
    /\ Len(sent) < MaxSent
    /\ prod' = [prod EXCEPT ![p] =
                  [pc   |-> IF Succ(head) = cached_tail THEN "reload" ELSE "slot",
                   data |-> d, head |-> head]]
    /\ UNCHANGED <<head, cached_tail, tail, cached_head, buf, cons, sent, got>>

\* Mutant: decides on the cached tail from before the load.
EnqueueReloadStale(p) ==
    /\ prod[p].pc = "reload"
    /\ cached_tail' = tail
    /\ prod' = [prod EXCEPT ![p].pc =
                  IF Succ(prod[p].head) = cached_tail THEN "idle" ELSE "slot"]
    /\ UNCHANGED <<head, tail, cached_head, buf, cons, sent, got>>

\* Load the consumer's tail; a queue that really is full returns -EAGAIN.
EnqueueReload(p) ==
    /\ prod[p].pc = "reload"
    /\ cached_tail' = tail
    /\ prod' = [prod EXCEPT ![p].pc =
                  IF Succ(prod[p].head) = tail THEN "idle" ELSE "slot"]
    /\ UNCHANGED <<head, tail, cached_head, buf, cons, sent, got>>

EnqueueSlot(p) ==
    /\ prod[p].pc = "slot"
    /\ buf' = [buf EXCEPT ![prod[p].head] = prod[p].data]
    /\ prod' = [prod EXCEPT ![p].pc = "store"]
    /\ UNCHANGED <<head, cached_tail, tail, cached_head, cons, sent, got>>

EnqueueStore(p) ==
    /\ prod[p].pc = "store"
    /\ head' = Succ(prod[p].head)
    /\ sent' = Append(sent, prod[p].data)
    /\ prod' = [prod EXCEPT ![p].pc = "idle"]
    /\ UNCHANGED <<cached_tail, tail, cached_head, buf, cons, got>>

-----------------------------------------------------------------------------
(* spsc_dequeue; tail is written by the consumer only *)

\* Compare tail with the cached head: empty as far as the cache knows?
DequeueLoad ==
    /\ cons.pc = "idle"
    /\ cons' = [cons EXCEPT !.pc = IF tail = cached_head THEN "reload" ELSE "slot"]
    /\ UNCHANGED <<head, cached_tail, tail, cached_head, buf, prod, sent, got>>

\* Load the producer's head; an empty queue returns NULL.
DequeueReload ==
    /\ cons.pc = "reload"
    /\ cached_head' = head
    /\ cons' = [cons EXCEPT !.pc = IF tail = head THEN "idle" ELSE "slot"]
    /\ UNCHANGED <<head, cached_tail, tail, buf, prod, sent, got>>

DequeueSlot ==
    /\ cons.pc = "slot"
    /\ cons' = [pc |-> "store", data |-> buf[tail]]
    /\ UNCHANGED <<head, cached_tail, tail, cached_head, buf, prod, sent, got>>

DequeueStore ==
    /\ cons.pc = "store"
    /\ tail' = Succ(tail)
    /\ got' = Append(got, cons.data)
    /\ cons' = [pc |-> "idle", data |-> NoData]
    /\ UNCHANGED <<head, cached_tail, cached_head, buf, prod, sent>>

-----------------------------------------------------------------------------
Enqueue(p) ==
    \/ \E d \in Data : EnqueueLoad(p, d)
    \/ EnqueueReload(p)
    \/ EnqueueSlot(p)
    \/ EnqueueStore(p)

Dequeue == DequeueLoad \/ DequeueReload \/ DequeueSlot \/ DequeueStore

Next == (\E p \in Producers : Enqueue(p)) \/ Dequeue

Spec == Init /\ [][Next]_vars

-----------------------------------------------------------------------------
(* Properties *)

TypeOK ==
    /\ head \in Slots /\ cached_tail \in Slots
    /\ tail \in Slots /\ cached_head \in Slots
    /\ buf \in [Slots -> Data \cup {NoData}]
    /\ prod \in [Producers -> [pc   : {"idle", "reload", "slot", "store"},
                               data : Data \cup {NoData}, head : Slots]]
    /\ cons \in [pc : {"idle", "reload", "slot", "store"}, data : Data \cup {NoData}]
    /\ sent \in Seq(Data)
    /\ got \in Seq(Data \cup {NoData})

\* How far slot j is ahead of slot i, going round the ring.
Dist(i, j) == IF j >= i THEN j - i ELSE j - i + Cap

\* At most one thread calls spsc_enqueue on the ring.
SingleProducer == \A p, q \in Producers : p = q

\* What spsc_dequeue returned is what spsc_enqueue accepted, in order: no
\* pointer is lost, duplicated, reordered or read from a stale slot.
Fifo ==
    /\ Len(got) <= Len(sent)
    /\ \A i \in 1 .. Len(got) : got[i] = sent[i]

\* The slot a producer is about to write (line 74) is never the slot the
\* consumer is about to read (line 92), although both sides decide on cached
\* copies of the other's index.
NoSlotRace ==
    \A p \in Producers :
        prod[p].pc = "slot" /\ cons.pc = "slot" => prod[p].head # tail

\* "load head with relaxed ordering, we're the only writer" (line 60): the
\* head an enqueue loaded is still the head of the ring when it stores its
\* successor, so the store never moves head backwards.
OnlyWriter ==
    \A p \in Producers : prod[p].pc # "idle" => prod[p].head = head

\* The stale index caches never make either side give up wrongly: an enqueue
\* returns -EAGAIN only when the ring holds Cap - 1 pointers, a dequeue
\* returns NULL only when everything sent has been received.
ExactVerdicts ==
    [][/\ (\E p \in Producers : prod[p].pc = "reload" /\ prod'[p].pc = "idle")
            => Len(sent) - Len(got) = Cap - 1
       /\ cons.pc = "reload" /\ cons'.pc = "idle" => Len(sent) = Len(got)]_vars

\* The pointers between tail and head are the ones sent and not yet received.
RingInv ==
    /\ Dist(tail, head) = Len(sent) - Len(got)
    /\ \A s \in Slots :
         Dist(tail, s) < Dist(tail, head) => buf[s] = sent[Len(got) + Dist(tail, s) + 1]

\* Each side's cached copy of the other's index errs on the safe side.
CacheInv ==
    /\ Dist(cached_tail, head) >= Dist(tail, head)
    /\ Dist(tail, cached_head) <= Dist(tail, head)

\* A producer that writes has room for it, on the real tail as on the cached one.
ProducerInv ==
    \A p \in Producers :
      /\ prod[p].pc # "idle" => prod[p].data \in Data
      /\ prod[p].pc \in {"slot", "store"} => Succ(head) # tail /\ Succ(head) # cached_tail
      /\ prod[p].pc = "store" => buf[head] = prod[p].data

\* A consumer that reads has something to read: the oldest pointer not received.
ConsumerInv ==
    /\ cons.pc \in {"slot", "store"} => tail # head /\ tail # cached_head
    /\ cons.pc = "store" => cons.data = sent[Len(got) + 1]

\* The inductive invariant behind Fifo, NoSlotRace, OnlyWriter and
\* ExactVerdicts for a single producer.
Inv == TypeOK /\ Fifo /\ OnlyWriter /\ RingInv /\ CacheInv /\ ProducerInv /\ ConsumerInv
=============================================================================

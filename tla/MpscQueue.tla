----------------------------- MODULE MpscQueue -----------------------------
(***************************************************************************)
(* The multi-producer single-consumer queue of include/evhtp/mpsc-queue.h, *)
(* on which a thread of thread.c receives its commands.  The nodes are     *)
(* linked from tail, where the consumer polls, to head, where producers    *)
(* insert; a stub node keeps the list non-empty.                           *)
(*                                                                         *)
(* One step per access to memory another thread may access.  A producer's  *)
(* store of NULL into the node it still owns belongs to its exchange of    *)
(* head; queue->tail is the consumer's alone.                              *)
(*                                                                         *)
(* mpsc_queue_push_front, mpsc_queue_insert_batch, mpsc_queue_is_empty and *)
(* the iterators have no caller in the library and are left out.           *)
(***************************************************************************)
EXTENDS Integers, Sequences

CONSTANTS
    Nodes,      \* the commands that may be allocated
    Stub,       \* &queue->stub
    Null,
    Producers,  \* the threads that insert
    MaxSent     \* bound: the number of inserts explored

ASSUME NodesAssumption ==
    Stub \notin Nodes /\ Null \notin Nodes /\ Stub # Null
ASSUME MaxSentAssumption == MaxSent \in Nat

VARIABLES
    head,   \* queue->head: the node inserted last
    tail,   \* queue->tail: the node to be polled next
    next,   \* node->next of every node
    heap,   \* the nodes that are free to be allocated
    prod,   \* per producer: where it is in mpsc_queue_insert_list, and its locals
    cons,   \* where the consumer is in mpsc_queue_poll, its locals and the result
    log,    \* history: every node that was put into head, the stub included,
            \* each with the number of nodes sent so far
    lo,     \* history: the position of tail in log
    sent,   \* history: the nodes inserted, in the order of the exchanges of head
    got     \* history: the nodes returned by polls

queueVars == <<head, tail, next, heap, prod, cons, log, lo, sent, got>>

AllNodes == Nodes \cup {Stub}

\* mpsc_queue_init
Init ==
    /\ head = Stub /\ tail = Stub
    /\ next = [n \in AllNodes |-> Null]
    /\ heap = Nodes
    /\ prod = [p \in Producers |-> [pc |-> "idle", node |-> Null, prev |-> Null]]
    /\ cons = [pc |-> "load", prev |-> Null, res |-> "none", item |-> Null]
    /\ log = << [node |-> Stub, rank |-> 0] >> /\ lo = 1
    /\ sent = <<>> /\ got = <<>>

-----------------------------------------------------------------------------
(* mpsc_queue_insert, by a producer *)

InsertExchange(p, n) ==
    /\ prod[p].pc = "idle"
    /\ n \in heap
    /\ Len(sent) < MaxSent
    /\ next' = [next EXCEPT ![n] = Null]
    /\ head' = n
    /\ prod' = [prod EXCEPT ![p] = [pc |-> "link", node |-> n, prev |-> head]]
    /\ heap' = heap \ {n}
    /\ sent' = Append(sent, n)
    /\ log' = Append(log, [node |-> n, rank |-> Len(sent) + 1])
    /\ UNCHANGED <<tail, cons, lo, got>>

InsertLink(p) ==
    /\ prod[p].pc = "link"
    /\ next' = [next EXCEPT ![prod[p].prev] = prod[p].node]
    /\ prod' = [prod EXCEPT ![p] = [pc |-> "idle", node |-> Null, prev |-> Null]]
    /\ UNCHANGED <<head, tail, heap, cons, log, lo, sent, got>>

-----------------------------------------------------------------------------
(* mpsc_queue_poll, by the consumer *)

\* *node = tail; queue->tail = next; return MPSC_QUEUE_ITEM
Item ==
    /\ next[tail] # Null
    /\ tail' = next[tail]
    /\ lo' = lo + 1
    /\ got' = Append(got, tail)
    /\ cons' = [pc |-> "done", prev |-> Null, res |-> "ITEM", item |-> tail]

Answer(r) ==
    /\ cons' = [pc |-> "done", prev |-> Null, res |-> r, item |-> Null]
    /\ UNCHANGED <<tail, lo, got>>

Goto(pc) ==
    /\ cons' = [cons EXCEPT !.pc = pc]
    /\ UNCHANGED <<tail, lo, got>>

\* The first look at tail->next when tail is the stub: step over the stub, or
\* see whether the queue is empty.
PollStub ==
    /\ cons.pc = "load" /\ tail = Stub
    /\ \/ next[tail] = Null /\ Goto("stubhead")
       \/ /\ next[tail] # Null
          /\ tail' = next[tail]
          /\ lo' = lo + 1
          /\ cons' = [cons EXCEPT !.pc = "next"]
          /\ UNCHANGED got
    /\ UNCHANGED <<head, next, heap, prod, log, sent>>

\* Mutant: answers EMPTY without a look at head.
PollStubHeadEmpty ==
    /\ cons.pc = "stubhead"
    /\ Answer("EMPTY")
    /\ UNCHANGED <<head, next, heap, prod, log, sent>>

PollStubHead ==
    /\ cons.pc = "stubhead"
    /\ Answer(IF head = tail THEN "EMPTY" ELSE "RETRY")
    /\ UNCHANGED <<head, next, heap, prod, log, sent>>

\* A node with a successor is returned.
PollNext ==
    /\ cons.pc = "next" \/ (cons.pc = "load" /\ tail # Stub)
    /\ Item \/ (next[tail] = Null /\ Goto("head"))
    /\ UNCHANGED <<head, next, heap, prod, log, sent>>

\* Mutant: the last node is handed out although a producer may be about to link
\* its successor to it; the stub takes its place.
PollHeadLast ==
    /\ cons.pc = "head"
    /\ tail' = Stub
    /\ lo' = lo + 1
    /\ got' = Append(got, tail)
    /\ cons' = [pc |-> "done", prev |-> Null, res |-> "ITEM", item |-> tail]
    /\ UNCHANGED <<head, next, heap, prod, log, sent>>

PollHead ==
    /\ cons.pc = "head"
    /\ IF head = tail THEN Goto("stub") ELSE Answer("RETRY")
    /\ UNCHANGED <<head, next, heap, prod, log, sent>>

\* The last node gets the stub as its successor: mpsc_queue_insert(&queue->stub)
PollStubExchange ==
    /\ cons.pc = "stub"
    /\ next' = [next EXCEPT ![Stub] = Null]
    /\ head' = Stub
    /\ cons' = [cons EXCEPT !.pc = "stublink", !.prev = head]
    /\ log' = Append(log, [node |-> Stub, rank |-> Len(sent)])
    /\ UNCHANGED <<tail, heap, prod, lo, sent, got>>

PollStubLink ==
    /\ cons.pc = "stublink"
    /\ next' = [next EXCEPT ![cons.prev] = Stub]
    /\ cons' = [cons EXCEPT !.pc = "recheck", !.prev = Null]
    /\ UNCHANGED <<head, tail, heap, prod, log, lo, sent, got>>

PollRecheck ==
    /\ cons.pc = "recheck"
    /\ Item \/ (next[tail] = Null /\ Answer("RETRY"))
    /\ UNCHANGED <<head, next, heap, prod, log, sent>>

\* The consumer is done with the answer; a node it was given is freed.
PollAgain ==
    /\ cons.pc = "done"
    /\ cons' = [pc |-> "load", prev |-> Null, res |-> "none", item |-> Null]
    /\ heap' = heap \cup (Nodes \cap {cons.item})
    /\ UNCHANGED <<head, tail, next, prod, log, lo, sent, got>>

-----------------------------------------------------------------------------
Poll ==
    \/ PollStub \/ PollStubHead \/ PollNext \/ PollHead
    \/ PollStubExchange \/ PollStubLink \/ PollRecheck

Insert(p) == (\E n \in Nodes : InsertExchange(p, n)) \/ InsertLink(p)

Next == (\E p \in Producers : Insert(p)) \/ Poll \/ PollAgain

Spec == Init /\ [][Next]_queueVars

-----------------------------------------------------------------------------
(* Properties *)

TypeOK ==
    /\ head \in AllNodes /\ tail \in AllNodes
    /\ next \in [AllNodes -> AllNodes \cup {Null}]
    /\ heap \subseteq Nodes
    /\ prod \in [Producers -> [pc   : {"idle", "link"},
                               node : Nodes \cup {Null}, prev : AllNodes \cup {Null}]]
    /\ cons \in [pc   : {"load", "stubhead", "next", "head", "stub", "stublink",
                         "recheck", "done"},
                 prev : AllNodes \cup {Null},
                 res  : {"none", "ITEM", "EMPTY", "RETRY"},
                 item : AllNodes \cup {Null}]
    /\ log \in Seq([node : AllNodes, rank : Nat])
    /\ lo \in Nat
    /\ sent \in Seq(Nodes)
    /\ got \in Seq(AllNodes)

\* A node the consumer was given, and may free (thread.c:125), is never written
\* by a producer that is still between its exchange and its link: the node
\* whose next a producer (or the consumer, for the stub) has yet to store is
\* still in the queue.
NoWriteToPolledNode ==
    /\ \A p \in Producers :
         prod[p].pc = "link" => prod[p].prev \notin heap \cup {cons.item}
    /\ cons.pc = "stublink" => cons.prev \notin heap

\* The queue implements the FIFO of FifoQueue: nodes are polled once each, in the
\* order in which producers exchanged head, whatever the order in which they link
\* them; the stub is never handed out; EMPTY and RETRY are right when given.
Fifos == INSTANCE FifoQueue WITH res <- cons.res
ImplementsFifo == Fifos!Spec

-----------------------------------------------------------------------------
(* The inductive invariant, on the part of log from tail to head *)

Queued == lo .. Len(log)

Linking(p, i) ==
    /\ prod[p].pc = "link"
    /\ prod[p].prev = log[i].node /\ prod[p].node = log[i + 1].node

StubLinking(i) ==
    /\ cons.pc = "stublink"
    /\ cons.prev = log[i].node /\ log[i + 1].node = Stub

\* log from lo on is the list: every node is on it once, and next of a node is
\* its successor or, as long as somebody has yet to store it, NULL.
ListInv ==
    /\ lo \in 1 .. Len(log)
    /\ log[lo].node = tail /\ log[Len(log)].node = head
    /\ \A i, j \in Queued : log[i].node = log[j].node => i = j
    /\ next[head] = Null
    /\ \A i \in Queued \ {Len(log)} :
         \/ next[log[i].node] = log[i + 1].node
         \/ next[log[i].node] = Null /\ (StubLinking(i) \/ \E p \in Producers : Linking(p, i))

\* Whoever has yet to store a next does so between neighbours of the list.
LinkInv ==
    /\ \A p \in Producers : prod[p].pc = "link" =>
         /\ prod[p].node \in Nodes
         /\ \E i \in Queued \ {Len(log)} : Linking(p, i) /\ next[log[i].node] = Null
    /\ \A p, q \in Producers :
         prod[p].pc = "link" /\ prod[q].pc = "link" /\ prod[p].prev = prod[q].prev => p = q
    /\ cons.pc = "stublink" =>
         \E i \in Queued \ {Len(log)} : StubLinking(i) /\ next[log[i].node] = Null

\* A queued node is neither free nor in the hands of the consumer.
OwnerInv ==
    /\ \A i \in Queued : log[i].node \notin heap \cup {cons.item}
    /\ cons.item \in Nodes \cup {Null} /\ cons.item \notin heap

\* What the consumer knows at each point of mpsc_queue_poll.
PollInv ==
    /\ cons.pc = "stubhead" => tail = Stub
    /\ cons.pc \in {"next", "head", "stub", "stublink", "recheck"} => tail # Stub
    /\ cons.pc = "stub" => \A i \in Queued : log[i].node # Stub
    /\ cons.pc = "recheck" => lo < Len(log)
    /\ cons.pc = "done" <=> cons.res # "none"
    /\ cons.pc # "done" => cons.item = Null

\* The ranks number the queued nodes as sent does; got ends before tail.
RankInv ==
    /\ \A i \in Queued \ {Len(log)} :
         log[i + 1].rank = log[i].rank + (IF log[i + 1].node = Stub THEN 0 ELSE 1)
    /\ \A i \in Queued : log[i].node # Stub =>
         log[i].rank \in 1 .. Len(sent) /\ sent[log[i].rank] = log[i].node
    /\ log[Len(log)].rank = Len(sent)
    /\ Len(got) = log[lo].rank - (IF tail = Stub THEN 0 ELSE 1)

QueueInv == TypeOK /\ ListInv /\ LinkInv /\ OwnerInv /\ PollInv /\ RankInv

=============================================================================

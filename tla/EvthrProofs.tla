---------------------------- MODULE EvthrProofs ----------------------------
(***************************************************************************)
(* Proofs about the mpsc queue and the thread that polls it, for every     *)
(* number of producers and nodes and every bound: the list from tail to    *)
(* head stays well formed while any number of inserts is half done, no     *)
(* polled node is written, the queue implements FifoQueue, and the thread  *)
(* never sleeps on a queued command without a wakeup.                      *)
(***************************************************************************)
EXTENDS Evthr, TLAPS

-----------------------------------------------------------------------------
(* The steps that write to the list: a producer's exchange of head and link, *)
(* and those with which the consumer puts the stub back                     *)

\* What Append does to a sequence, as a set of facts about the result.
LEMMA AppendFacts ==
    ASSUME NEW S, NEW s \in Seq(S), NEW e \in S
    PROVE  /\ Append(s, e) \in Seq(S)
           /\ Len(Append(s, e)) = Len(s) + 1
           /\ \A i \in 1 .. Len(s) : Append(s, e)[i] = s[i]
           /\ Append(s, e)[Len(s) + 1] = e
OBVIOUS

\* The elements of a sequence over S are in S.
LEMMA ElementFact == ASSUME NEW S, NEW s \in Seq(S), NEW i \in 1 .. Len(s) PROVE s[i] \in S
OBVIOUS

\* What the list holds: nodes, with ranks.
LEMMA QueuedNodes ==
    ASSUME TypeOK, ListInv
    PROVE  /\ Len(log) \in Nat /\ lo \in 1 .. Len(log)
           /\ lo \in Queued /\ Len(log) \in Queued
           /\ \A i \in Queued : /\ log[i].node \in AllNodes /\ log[i].node # Null
                                /\ log[i].rank \in Nat
<1>1. Len(log) \in Nat /\ lo \in 1 .. Len(log) /\ lo \in Queued /\ Len(log) \in Queued
      BY DEF TypeOK, ListInv, Queued
<1>2. ASSUME NEW i \in Queued
      PROVE  log[i].node \in AllNodes /\ log[i].node # Null /\ log[i].rank \in Nat
      <2>1. i \in 1 .. Len(log) /\ log \in Seq([node : AllNodes, rank : Nat])
            BY <1>1 DEF Queued, TypeOK
      <2>2. log[i] \in [node : AllNodes, rank : Nat]
            BY <2>1, ElementFact, Zenon
      <2> QED BY <2>2, NodesAssumption DEF AllNodes
<1> QED BY <1>1, <1>2

\* A step that touches nothing of the queue keeps its invariant.
LEMMA QueueFrame == QueueInv /\ UNCHANGED queueVars => QueueInv'
<1> SUFFICES ASSUME QueueInv, UNCHANGED queueVars PROVE QueueInv'
    OBVIOUS
<1>1. /\ UNCHANGED <<head, tail, next, heap, prod, cons, log, lo, sent, got>>
      /\ Queued' = Queued
      BY DEF queueVars, Queued
<1>2. \A i \in Queued : /\ StubLinking(i)' <=> StubLinking(i)
                        /\ \A p \in Producers : Linking(p, i)' <=> Linking(p, i)
      BY <1>1, Zenon DEF StubLinking, Linking
<1>3. TypeOK' /\ OwnerInv' /\ PollInv' /\ RankInv'
      BY <1>1 DEF QueueInv, TypeOK, OwnerInv, PollInv, RankInv
<1>4. ListInv' /\ LinkInv'
      BY <1>1, <1>2 DEF QueueInv, ListInv, LinkInv
<1> QED
    BY <1>3, <1>4 DEF QueueInv

\* mpsc_queue_init establishes the invariant.
LEMMA QueueInit == Init => QueueInv
<1> SUFFICES ASSUME Init PROVE QueueInv
    OBVIOUS
<1>1. /\ log = << [node |-> Stub, rank |-> 0] >> /\ lo = 1 /\ Len(log) = 1
      /\ log[1].node = Stub /\ log[1].rank = 0 /\ Queued = {1}
      BY DEF Init, Queued
<1>2. TypeOK
      BY DEF Init, TypeOK, AllNodes
<1>3. ListInv /\ LinkInv
      BY <1>1 DEF Init, ListInv, LinkInv, AllNodes
<1>4. OwnerInv
      BY <1>1, NodesAssumption DEF Init, OwnerInv
<1>5. PollInv /\ RankInv
      BY <1>1 DEF Init, PollInv, RankInv
<1> QED
    BY <1>2, <1>3, <1>4, <1>5 DEF QueueInv

\* The exchange of head puts a new node behind the last one; until the producer
\* links it, next of the last node stays NULL (mpsc_queue_insert).
LEMMA InsertExchangeInv ==
    ASSUME QueueInv, NEW p \in Producers, NEW n \in Nodes, InsertExchange(p, n)
    PROVE  QueueInv'
<1>1. /\ TypeOK /\ ListInv /\ LinkInv /\ OwnerInv /\ PollInv /\ RankInv
      BY DEF QueueInv
<1>0. PICK L \in Nat : L = Len(log)
      BY <1>1 DEF TypeOK
<1>2. /\ log \in Seq([node : AllNodes, rank : Nat]) /\ sent \in Seq(Nodes)
      /\ [node |-> n, rank |-> Len(sent) + 1] \in [node : AllNodes, rank : Nat]
      BY <1>1 DEF TypeOK, AllNodes
<1>3. /\ log' \in Seq([node : AllNodes, rank : Nat])
      /\ Len(log') = L + 1 /\ L \in Nat
      /\ \A i \in 1 .. L : log'[i] = log[i]
      /\ log'[L + 1] = [node |-> n, rank |-> Len(sent) + 1]
      /\ log'[L + 1].node = n /\ log'[L + 1].rank = Len(sent) + 1
      BY <1>0, <1>2, AppendFacts DEF InsertExchange
<1>4. /\ sent' \in Seq(Nodes)
      /\ Len(sent') = Len(sent) + 1 /\ Len(sent) \in Nat
      /\ \A i \in 1 .. Len(sent) : sent'[i] = sent[i]
      /\ sent'[Len(sent) + 1] = n
      BY <1>2, AppendFacts DEF InsertExchange
<1>5. /\ lo \in 1 .. L /\ lo' = lo /\ Queued = lo .. L /\ Queued' = lo .. L + 1
      /\ log[lo].node = tail /\ log[L].node = head /\ tail' = tail /\ head' = n
      BY <1>0, <1>1, <1>3, Zenon DEF ListInv, Queued, InsertExchange
<1>6. /\ n \in heap /\ heap' = heap \ {n} /\ n # Stub /\ n \in AllNodes
      /\ \A i \in lo .. L : log[i].node # n
      BY <1>1, <1>5, NodesAssumption DEF OwnerInv, InsertExchange, AllNodes
<1>7. /\ next \in [AllNodes -> AllNodes \cup {Null}]
      /\ next' = [next EXCEPT ![n] = Null] /\ cons' = cons /\ got' = got
      BY <1>1, Zenon DEF TypeOK, InsertExchange
<1>8. \A i \in lo .. L : /\ log'[i] = log[i] /\ log[i].node \in AllNodes
                         /\ log[i].rank \in Nat
                         /\ next'[log[i].node] = next[log[i].node]
      <2>1. \A i \in lo .. L : i \in 1 .. L
            BY <1>3, <1>5
      <2>2. \A i \in lo .. L : log[i].node \in AllNodes /\ log[i].rank \in Nat
            BY <1>1, <1>5, QueuedNodes, Zenon
      <2> QED BY <2>1, <2>2, <1>3, <1>6, <1>7
<1>9. /\ prod'[p].pc = "link" /\ prod'[p].node = n /\ prod'[p].prev = head
      /\ prod[p].pc = "idle"
      /\ \A q \in Producers : q # p => prod'[q] = prod[q]
      BY <1>1 DEF InsertExchange, TypeOK
<1>00. /\ lo \in lo .. L /\ L \in lo .. L
       /\ \A i \in lo .. L + 1 : i \in lo .. L \/ i = L + 1
      BY <1>3, <1>5
<1>10. TypeOK'
      <2>1. prod' \in [Producers -> [pc   : {"idle", "link"},
                        node : Nodes \cup {Null}, prev : AllNodes \cup {Null}]]
            BY <1>1, Zenon DEF InsertExchange, TypeOK
      <2> QED BY <1>1, <1>3, <1>4, <1>5, <1>6, <1>7, <2>1, SMTT(30) DEF TypeOK
<1>11. ListInv'
      <2>1. /\ lo' \in 1 .. Len(log') /\ log'[lo'].node = tail'
            /\ log'[Len(log')].node = head'
            BY <1>3, <1>5
      <2>2. \A i, j \in Queued' : log'[i].node = log'[j].node => i = j
            <3>1. \A i, j \in lo .. L : log'[i].node = log'[j].node => i = j
                  BY <1>1, <1>5, <1>8, Zenon DEF ListInv
            <3>2. \A i \in lo .. L : log'[i].node # log'[L + 1].node
                  BY <1>3, <1>6, <1>8, Zenon
            <3> QED BY <3>1, <3>2, <1>00, <1>5
      <2>3. next'[head'] = Null
            BY <1>5, <1>6, <1>7, Zenon
      <2>4. ASSUME NEW i \in lo .. L
            PROVE  \/ next'[log'[i].node] = log'[i + 1].node
                   \/ /\ next'[log'[i].node] = Null
                      /\ StubLinking(i)' \/ \E q \in Producers : Linking(q, i)'
            <3>1. CASE i = L
                  BY <3>1, <1>1, <1>3, <1>5, <1>8, <1>9 DEF ListInv, Linking
            <3>2. CASE i # L
                  <4>1. i \in Queued \ {L} /\ i + 1 \in lo .. L
                        BY <3>2, <1>3, <1>5
                  <4>2. \/ next[log[i].node] = log[i + 1].node
                        \/ /\ next[log[i].node] = Null
                           /\ StubLinking(i) \/ \E q \in Producers : Linking(q, i)
                        BY <4>1, <1>0, <1>1 DEF ListInv
                  <4>3. StubLinking(i) => StubLinking(i)'
                        BY <4>1, <1>7, <1>8 DEF StubLinking
                  <4>4. \A q \in Producers : Linking(q, i) => Linking(q, i)'
                        BY <4>1, <1>8, <1>9, Zenon DEF Linking
                  <4> QED BY <4>1, <4>2, <4>3, <4>4, <1>8
            <3> QED BY <3>1, <3>2, Zenon
      <2>5. \A i \in Queued' \ {Len(log')} : i \in lo .. L
            BY <1>3, <1>5
      <2> QED BY <2>1, <2>2, <2>3, <2>4, <2>5, Zenon DEF ListInv
<1>12. LinkInv'
      <2>1. ASSUME NEW q \in Producers, prod[q].pc = "link"
            PROVE  \E i \in Queued \ {L} :
                      Linking(q, i) /\ next[log[i].node] = Null
            BY <2>1, <1>0, <1>1 DEF LinkInv
      <2>2. ASSUME NEW q \in Producers, prod'[q].pc = "link"
            PROVE  /\ prod'[q].node \in Nodes
                   /\ \E i \in Queued' \ {Len(log')} :
                         Linking(q, i)' /\ next'[log'[i].node] = Null
            <3>1. CASE q = p
                  <4>1. L \in Queued' \ {Len(log')} /\ L \in lo .. L
                        BY <1>3, <1>5
                  <4>2. Linking(p, L)'
                        BY <4>1, <1>3, <1>5, <1>8, <1>9, Zenon DEF Linking
                  <4>3. next'[log'[L].node] = Null
                        BY <4>1, <1>1, <1>5, <1>8 DEF ListInv
                  <4>4. prod'[p].node \in Nodes
                        BY <1>9
                  <4> QED BY <3>1, <4>1, <4>2, <4>3, <4>4
            <3>2. CASE q # p
                  <4>1. PICK i \in Queued \ {L} : Linking(q, i) /\ next[log[i].node] = Null
                        BY <2>1, <2>2, <3>2, <1>9
                  <4>2. i \in Queued' \ {Len(log')} /\ i \in lo .. L /\ i + 1 \in lo .. L
                        BY <4>1, <1>3, <1>5, SMTT(30)
                  <4>3. Linking(q, i)' /\ next'[log'[i].node] = Null
                        BY <4>1, <4>2, <3>2, <1>8, <1>9 DEF Linking
                  <4>4. prod'[q].node \in Nodes
                        BY <2>2, <3>2, <1>1, <1>9, Zenon DEF LinkInv
                  <4> QED BY <4>2, <4>3, <4>4
            <3> QED BY <3>1, <3>2
      <2>3. \A q \in Producers : prod[q].pc = "link" => prod[q].prev # head
            <3> SUFFICES ASSUME NEW q \in Producers, prod[q].pc = "link"
                         PROVE  prod[q].prev # head
                OBVIOUS
            <3>1. PICK i \in Queued \ {L} : Linking(q, i)
                  BY <2>1, Zenon
            <3>2. i \in Queued /\ L \in Queued /\ i # L
                  BY <3>1, <1>3, <1>5
            <3> QED BY <3>1, <3>2, <1>1, <1>5 DEF Linking, ListInv
      <2>4. \A q, r \in Producers :
               prod'[q].pc = "link" /\ prod'[r].pc = "link" /\ prod'[q].prev = prod'[r].prev
                  => q = r
            BY <2>3, <1>1, <1>9 DEF LinkInv
      <2>5. ASSUME cons'.pc = "stublink"
            PROVE  \E i \in Queued' \ {Len(log')} :
                      StubLinking(i)' /\ next'[log'[i].node] = Null
            <3>1. PICK i \in Queued \ {L} : StubLinking(i) /\ next[log[i].node] = Null
                  BY <2>5, <1>0, <1>1, <1>7 DEF LinkInv
            <3>2. i \in Queued' \ {Len(log')} /\ i \in lo .. L /\ i + 1 \in lo .. L
                  BY <3>1, <1>3, <1>5
            <3>3. StubLinking(i)' /\ next'[log'[i].node] = Null
                  BY <3>1, <3>2, <1>7, <1>8, Zenon DEF StubLinking
            <3> QED BY <3>2, <3>3
      <2> QED BY <2>2, <2>4, <2>5, Zenon DEF LinkInv
<1>13. OwnerInv'
      <2>1. \A i \in Queued' : log'[i].node \notin heap' \cup {cons'.item}
            BY <1>00, <1>1, <1>3, <1>5, <1>6, <1>7, <1>8, Zenon DEF OwnerInv
      <2> QED BY <2>1, <1>1, <1>6, <1>7 DEF OwnerInv
<1>14. PollInv'
      <2>1. cons'.pc = "stub" => \A i \in Queued' : log'[i].node # Stub
            <3> SUFFICES ASSUME cons'.pc = "stub", NEW i \in Queued' PROVE log'[i].node # Stub
                OBVIOUS
            <3>1. cons.pc = "stub" /\ \A j \in Queued : log[j].node # Stub
                  BY <1>1, <1>7 DEF PollInv
            <3> QED BY <1>00, <1>3, <1>5, <1>6, <1>8, <3>1, Zenon
      <2>2. cons'.pc = "recheck" => lo' < Len(log')
            BY <1>3, <1>5
      <2> QED BY <2>1, <2>2, <1>1, <1>5, <1>7, Zenon DEF PollInv
<1>15. RankInv'
      <2>1. ASSUME NEW i \in lo .. L
            PROVE  log'[i + 1].rank
                      = log'[i].rank + (IF log'[i + 1].node = Stub THEN 0 ELSE 1)
            <3>1. CASE i = L
                  BY <3>1, <1>0, <1>00, <1>1, <1>3, <1>6, <1>8 DEF RankInv
            <3>2. CASE i # L
                  <4>1. i \in Queued \ {L} /\ i + 1 \in lo .. L
                        BY <3>2, <1>3, <1>5
                  <4> QED BY <4>1, <1>0, <1>1, <1>8, Zenon DEF RankInv
            <3> QED BY <3>1, <3>2
      <2>2. \A i \in Queued' : log'[i].node # Stub =>
               log'[i].rank \in 1 .. Len(sent') /\ sent'[log'[i].rank] = log'[i].node
            <3>1. \A i \in lo .. L : log'[i].node # Stub =>
                     log'[i].rank \in 1 .. Len(sent') /\ sent'[log'[i].rank] = log'[i].node
                  <4> SUFFICES ASSUME NEW i \in lo .. L, log'[i].node # Stub
                               PROVE  /\ log'[i].rank \in 1 .. Len(sent')
                                      /\ sent'[log'[i].rank] = log'[i].node
                      OBVIOUS
                  <4>1. log[i].rank \in 1 .. Len(sent) /\ sent[log[i].rank] = log[i].node
                        BY <1>1, <1>5, <1>8, Zenon DEF RankInv
                  <4>2. log[i].rank \in 1 .. Len(sent')
                        BY <4>1, <1>4
                  <4> QED BY <4>1, <4>2, <1>4, <1>8, Zenon
            <3>2. /\ log'[L + 1].rank \in 1 .. Len(sent')
                  /\ sent'[log'[L + 1].rank] = log'[L + 1].node
                  BY <1>3, <1>4
            <3> QED BY <3>1, <3>2, <1>00, <1>5
      <2>3. log'[Len(log')].rank = Len(sent')
            BY <1>3, <1>4, Zenon
      <2>4. Len(got') = log'[lo'].rank - (IF tail' = Stub THEN 0 ELSE 1)
            BY <1>1, <1>5, <1>7, <1>8 DEF RankInv
      <2>5. \A i \in Queued' \ {Len(log')} : i \in lo .. L
            BY <1>3, <1>5
      <2> QED BY <2>1, <2>2, <2>3, <2>4, <2>5, Zenon DEF RankInv
<1> QED
    BY <1>10, <1>11, <1>12, <1>13, <1>14, <1>15 DEF QueueInv

\* The link of a producer stores the one successor that next of its node can get
\* (mpsc_queue_insert).
LEMMA InsertLinkInv ==
    ASSUME QueueInv, NEW p \in Producers, InsertLink(p)
    PROVE  QueueInv'
<1>1. /\ TypeOK /\ ListInv /\ LinkInv /\ OwnerInv /\ PollInv /\ RankInv
      BY DEF QueueInv
<1>2. /\ lo' = lo /\ log' = log /\ Queued' = Queued /\ cons' = cons /\ head' = head
      /\ tail' = tail /\ heap' = heap /\ sent' = sent /\ got' = got
      BY Zenon DEF InsertLink, Queued
<1>3. PICK k \in Queued \ {Len(log)} : Linking(p, k) /\ next[log[k].node] = Null
      BY <1>1 DEF LinkInv, InsertLink
<1>4. /\ lo \in 1 .. Len(log) /\ Len(log) \in Nat
      /\ log \in Seq([node : AllNodes, rank : Nat])
      BY <1>1 DEF TypeOK, ListInv
<1>5. k \in Queued /\ k + 1 \in Queued /\ Len(log) \in Queued /\ k # Len(log)
      BY <1>3, <1>4 DEF Queued
<1>6. \A i \in Queued : log[i].node \in AllNodes
      BY <1>1, QueuedNodes
<1>7. /\ next \in [AllNodes -> AllNodes \cup {Null}]
      /\ next' = [next EXCEPT ![log[k].node] = log[k + 1].node]
      BY <1>1, <1>3 DEF InsertLink, Linking, TypeOK
<1>8. /\ next'[log[k].node] = log[k + 1].node
      /\ \A i \in Queued : i # k => next'[log[i].node] = next[log[i].node]
      BY <1>1, <1>5, <1>6, <1>7, Zenon DEF ListInv
<1>9. /\ prod[p].pc = "link" /\ prod'[p].pc = "idle"
      /\ \A q \in Producers : q # p => prod'[q] = prod[q]
      /\ \A q \in Producers, i \in Queued :
            q # p => (Linking(q, i)' <=> Linking(q, i))
      BY <1>1, <1>2 DEF InsertLink, TypeOK, Linking
<1>10. \A q \in Producers : q # p /\ prod[q].pc = "link" => prod[q].prev # log[k].node
      BY <1>1, <1>3, <1>9 DEF LinkInv, Linking
<1>11. TypeOK'
      <2>1. next' \in [AllNodes -> AllNodes \cup {Null}]
            BY <1>5, <1>6, <1>7, Zenon
      <2>2. prod' \in [Producers -> [pc   : {"idle", "link"},
                        node : Nodes \cup {Null}, prev : AllNodes \cup {Null}]]
            BY <1>1, Zenon DEF InsertLink, TypeOK
      <2> QED BY <2>1, <2>2, <1>1, <1>2 DEF TypeOK
<1>12. ListInv'
      <2>1. next'[head'] = Null
            BY <1>1, <1>2, <1>5, <1>8, Zenon DEF ListInv
      <2>2. ASSUME NEW i \in Queued \ {Len(log)}
            PROVE  \/ next'[log[i].node] = log[i + 1].node
                   \/ /\ next'[log[i].node] = Null
                      /\ StubLinking(i)' \/ \E q \in Producers : Linking(q, i)'
            <3>1. CASE i = k
                  BY <3>1, <1>8, Zenon
            <3>2. CASE i # k
                  <4>1. \/ next[log[i].node] = log[i + 1].node
                        \/ /\ next[log[i].node] = Null
                           /\ StubLinking(i) \/ \E q \in Producers : Linking(q, i)
                        BY <1>1 DEF ListInv
                  <4>2. StubLinking(i) => StubLinking(i)'
                        BY <1>2, Zenon DEF StubLinking
                  <4>3. ASSUME NEW q \in Producers, Linking(q, i)
                        PROVE  Linking(q, i)'
                        BY <4>3, <3>2, <1>1, <1>3, <1>5, <1>9 DEF ListInv, Linking
                  <4> QED BY <4>1, <4>2, <4>3, <3>2, <1>8, Zenon
            <3> QED BY <3>1, <3>2, Zenon
      <2> QED BY <2>1, <2>2, <1>1, <1>2, Zenon DEF ListInv
<1>13. LinkInv'
      <2>1. ASSUME NEW q \in Producers, prod'[q].pc = "link"
            PROVE  /\ prod'[q].node \in Nodes
                   /\ \E i \in Queued \ {Len(log)} :
                         Linking(q, i)' /\ next'[log[i].node] = Null
            <3>1. q # p /\ prod'[q] = prod[q]
                  BY <2>1, <1>9, Zenon
            <3>2. PICK i \in Queued \ {Len(log)} : Linking(q, i) /\ next[log[i].node] = Null
                  BY <2>1, <3>1, <1>1, Zenon DEF LinkInv
            <3>3. i # k
                  BY <3>1, <3>2, <1>10, Zenon DEF Linking
            <3>4. Linking(q, i)' /\ next'[log[i].node] = Null
                  BY <3>1, <3>2, <3>3, <1>8, <1>9, Zenon
            <3>5. prod'[q].node \in Nodes
                  BY <2>1, <3>1, <1>1, Zenon DEF LinkInv
            <3> QED BY <3>4, <3>5, Zenon
      <2>2. \A q, r \in Producers :
               prod'[q].pc = "link" /\ prod'[r].pc = "link" /\ prod'[q].prev = prod'[r].prev
                  => q = r
            BY <1>1, <1>9 DEF LinkInv
      <2>3. ASSUME cons'.pc = "stublink"
            PROVE  \E i \in Queued \ {Len(log)} :
                      StubLinking(i)' /\ next'[log[i].node] = Null
            <3>1. PICK i \in Queued \ {Len(log)} : StubLinking(i) /\ next[log[i].node] = Null
                  BY <2>3, <1>1, <1>2, Zenon DEF LinkInv
            <3>2. i # k
                  BY <3>1, <1>1, <1>3, <1>9, NodesAssumption DEF LinkInv, Linking, StubLinking
            <3>3. StubLinking(i)' /\ next'[log[i].node] = Null
                  BY <3>1, <3>2, <1>2, <1>8, Zenon DEF StubLinking
            <3> QED BY <3>3, Zenon
      <2> QED BY <2>1, <2>2, <2>3, <1>2, Zenon DEF LinkInv
<1>14. OwnerInv' /\ PollInv' /\ RankInv'
      BY <1>1, <1>2 DEF OwnerInv, PollInv, RankInv
<1> QED
    BY <1>11, <1>12, <1>13, <1>14 DEF QueueInv

ConsType == [pc   : {"load", "stubhead", "next", "head", "stub", "stublink",
                     "recheck", "done"},
             prev : AllNodes \cup {Null},
             res  : {"none", "ITEM", "EMPTY", "RETRY"},
             item : AllNodes \cup {Null}]

\* The consumer puts the stub behind the last node, as a producer does with its
\* node, when the stub is off the list.
LEMMA PollStubExchangeInv == ASSUME QueueInv, PollStubExchange PROVE QueueInv'
<1>1. /\ TypeOK /\ ListInv /\ LinkInv /\ OwnerInv /\ PollInv /\ RankInv
      BY DEF QueueInv
<1>0. PICK L \in Nat : L = Len(log)
      BY <1>1 DEF TypeOK
<1>2. /\ log \in Seq([node : AllNodes, rank : Nat]) /\ Len(sent) \in Nat
      /\ [node |-> Stub, rank |-> Len(sent)] \in [node : AllNodes, rank : Nat]
      BY <1>1 DEF TypeOK, AllNodes
<1>3. /\ log' \in Seq([node : AllNodes, rank : Nat])
      /\ Len(log') = L + 1
      /\ \A i \in 1 .. L : log'[i] = log[i]
      /\ log'[L + 1].node = Stub /\ log'[L + 1].rank = Len(sent)
      BY <1>0, <1>2, AppendFacts DEF PollStubExchange
<1>4. /\ lo \in 1 .. L /\ lo' = lo /\ Queued = lo .. L /\ Queued' = lo .. L + 1
      /\ log[lo].node = tail /\ log[L].node = head /\ tail' = tail /\ head' = Stub
      /\ prod' = prod /\ heap' = heap /\ sent' = sent /\ got' = got
      BY <1>0, <1>1, <1>3, Zenon DEF ListInv, Queued, PollStubExchange
<1>5. /\ lo \in lo .. L /\ L \in lo .. L /\ \A i \in lo .. L : i \in 1 .. L
      /\ \A i \in lo .. L + 1 : i \in lo .. L \/ i = L + 1
      /\ \A i \in Queued' \ {Len(log')} : i \in lo .. L
      BY <1>3, <1>4
<1>6. /\ cons \in ConsType /\ cons' \in ConsType
      /\ cons.pc = "stub" /\ cons'.pc = "stublink" /\ cons'.prev = head
      /\ cons'.res = cons.res /\ cons'.item = cons.item
      BY <1>1, Zenon DEF TypeOK, PollStubExchange, ConsType
<1>7. \A i \in lo .. L : /\ log'[i] = log[i] /\ log[i].node \in AllNodes
                         /\ log[i].rank \in Nat /\ log[i].node # Stub
      BY <1>1, <1>3, <1>4, <1>5, <1>6, QueuedNodes, Zenon DEF PollInv
<1>8. /\ next \in [AllNodes -> AllNodes \cup {Null}]
      /\ next' = [next EXCEPT ![Stub] = Null] /\ next'[Stub] = Null
      /\ \A i \in lo .. L : next'[log[i].node] = next[log[i].node]
      BY <1>1, <1>7, Zenon DEF TypeOK, PollStubExchange, AllNodes
<1>9. TypeOK'
      BY <1>1, <1>3, <1>4, <1>6, <1>8, SMTT(30) DEF TypeOK, ConsType, AllNodes
<1>10. ListInv'
      <2>1. /\ lo' \in 1 .. Len(log') /\ log'[lo'].node = tail'
            /\ log'[Len(log')].node = head' /\ next'[head'] = Null
            BY <1>3, <1>4, <1>5, <1>8
      <2>2. \A i, j \in Queued' : log'[i].node = log'[j].node => i = j
            <3>1. \A i, j \in lo .. L : log'[i].node = log'[j].node => i = j
                  BY <1>1, <1>4, <1>7, Zenon DEF ListInv
            <3>2. \A i \in lo .. L : log'[i].node # log'[L + 1].node
                  BY <1>3, <1>7, Zenon
            <3> QED BY <3>1, <3>2, <1>4, <1>5, Zenon
      <2>3. ASSUME NEW i \in lo .. L
            PROVE  \/ next'[log'[i].node] = log'[i + 1].node
                   \/ /\ next'[log'[i].node] = Null
                      /\ StubLinking(i)' \/ \E q \in Producers : Linking(q, i)'
            <3>1. CASE i = L
                  BY <3>1, <1>1, <1>3, <1>4, <1>6, <1>7, <1>8, Zenon DEF ListInv, StubLinking
            <3>2. CASE i # L
                  <4>1. i \in Queued \ {L} /\ i + 1 \in lo .. L
                        BY <3>2, <1>4
                  <4>2. \/ next[log[i].node] = log[i + 1].node
                        \/ /\ next[log[i].node] = Null
                           /\ \E q \in Producers : Linking(q, i)
                        BY <4>1, <1>0, <1>1, <1>6, Zenon DEF ListInv, StubLinking
                  <4>3. \A q \in Producers : Linking(q, i) => Linking(q, i)'
                        BY <4>1, <1>4, <1>7, Zenon DEF Linking
                  <4> QED BY <4>1, <4>2, <4>3, <1>7, <1>8
            <3> QED BY <3>1, <3>2, Zenon
      <2> QED BY <2>1, <2>2, <2>3, <1>5, SMTT(30) DEF ListInv
<1>11. LinkInv'
      <2>1. ASSUME NEW q \in Producers, prod'[q].pc = "link"
            PROVE  /\ prod'[q].node \in Nodes
                   /\ \E i \in Queued' \ {Len(log')} :
                         Linking(q, i)' /\ next'[log'[i].node] = Null
            <3>1. PICK i \in Queued \ {L} : Linking(q, i) /\ next[log[i].node] = Null
                  BY <2>1, <1>0, <1>1, <1>4, Zenon DEF LinkInv
            <3>2. i \in Queued' \ {Len(log')} /\ i \in lo .. L /\ i + 1 \in lo .. L
                  BY <3>1, <1>3, <1>4
            <3>3. Linking(q, i)' /\ next'[log'[i].node] = Null
                  BY <3>1, <3>2, <1>4, <1>7, <1>8, Zenon DEF Linking
            <3>4. prod'[q].node \in Nodes
                  BY <2>1, <1>1, <1>4 DEF LinkInv
            <3> QED BY <3>2, <3>3, <3>4, Zenon
      <2>2. \E i \in Queued' \ {Len(log')} : StubLinking(i)' /\ next'[log'[i].node] = Null
            <3>1. L \in Queued' \ {Len(log')}
                  BY <1>3, <1>4
            <3>2. StubLinking(L)' /\ next'[log'[L].node] = Null
                  BY <1>1, <1>3, <1>4, <1>5, <1>6, <1>7, <1>8 DEF ListInv, StubLinking
            <3> QED BY <3>1, <3>2, Zenon
      <2> QED BY <2>1, <2>2, <1>1, <1>4 DEF LinkInv
<1>12. OwnerInv'
      <2>1. Stub \notin heap /\ Stub # cons.item
            BY <1>1, <1>6, NodesAssumption, Zenon DEF TypeOK, OwnerInv
      <2>2. \A i \in Queued' : log'[i].node \notin heap' \cup {cons'.item}
            BY <2>1, <1>1, <1>3, <1>4, <1>5, <1>6, <1>7, Zenon DEF OwnerInv
      <2> QED BY <2>2, <1>1, <1>4, <1>6, Zenon DEF OwnerInv
<1>13. PollInv'
      BY <1>1, <1>4, <1>6 DEF PollInv
<1>14. RankInv'
      <2>1. ASSUME NEW i \in lo .. L
            PROVE  log'[i + 1].rank
                      = log'[i].rank + (IF log'[i + 1].node = Stub THEN 0 ELSE 1)
            <3>1. CASE i = L
                  BY <3>1, <1>0, <1>1, <1>2, <1>3, <1>7 DEF RankInv
            <3>2. CASE i # L
                  <4>1. i \in Queued \ {L} /\ i + 1 \in lo .. L
                        BY <3>2, <1>4
                  <4> QED BY <4>1, <1>0, <1>1, <1>7 DEF RankInv
            <3> QED BY <3>1, <3>2, Zenon
      <2>2. \A i \in Queued' : log'[i].node # Stub =>
               log'[i].rank \in 1 .. Len(sent') /\ sent'[log'[i].rank] = log'[i].node
            <3>1. \A i \in lo .. L :
                     log[i].rank \in 1 .. Len(sent) /\ sent[log[i].rank] = log[i].node
                  BY <1>1, <1>4, <1>7, Zenon DEF RankInv
            <3>2. \A i \in lo .. L : log'[i].node # Stub =>
                     log'[i].rank \in 1 .. Len(sent') /\ sent'[log'[i].rank] = log'[i].node
                  BY <3>1, <1>4, <1>7
            <3> QED BY <3>2, <1>3, <1>4, <1>5, Zenon
      <2>3. log'[Len(log')].rank = Len(sent')
            BY <1>3, <1>4
      <2>4. Len(got') = log'[lo'].rank - (IF tail' = Stub THEN 0 ELSE 1)
            BY <1>1, <1>4, <1>5, <1>7, Zenon DEF RankInv
      <2> QED BY <2>1, <2>2, <2>3, <2>4, <1>5, Zenon DEF RankInv
<1> QED
    BY <1>9, <1>10, <1>11, <1>12, <1>13, <1>14 DEF QueueInv

\* The consumer links the stub, as a producer links its node.
LEMMA PollStubLinkInv == ASSUME QueueInv, PollStubLink PROVE QueueInv'
<1>1. /\ TypeOK /\ ListInv /\ LinkInv /\ OwnerInv /\ PollInv /\ RankInv
      BY DEF QueueInv
<1>2. /\ lo' = lo /\ log' = log /\ Queued' = Queued /\ prod' = prod /\ head' = head
      /\ tail' = tail /\ heap' = heap /\ sent' = sent /\ got' = got
      BY DEF PollStubLink, Queued
<1>3. PICK k \in Queued \ {Len(log)} : StubLinking(k) /\ next[log[k].node] = Null
      BY <1>1 DEF LinkInv, PollStubLink
<1>4. /\ lo \in 1 .. Len(log) /\ Len(log) \in Nat
      /\ \A i \in Queued : log[i].node \in AllNodes
      BY <1>1, QueuedNodes
<1>5. k \in Queued /\ k + 1 \in Queued /\ Len(log) \in Queued /\ k # Len(log)
      BY <1>3, <1>4 DEF Queued
<1>6. /\ next \in [AllNodes -> AllNodes \cup {Null}]
      /\ next' = [next EXCEPT ![log[k].node] = log[k + 1].node]
      BY <1>1, <1>3, Zenon DEF PollStubLink, StubLinking, TypeOK
<1>7. /\ next'[log[k].node] = log[k + 1].node
      /\ \A i \in Queued : i # k => next'[log[i].node] = next[log[i].node]
      BY <1>1, <1>4, <1>5, <1>6 DEF ListInv
<1>8. /\ cons \in ConsType /\ cons' \in ConsType
      /\ cons.pc = "stublink" /\ cons'.pc = "recheck"
      /\ cons'.res = cons.res /\ cons'.item = cons.item
      BY <1>1, Zenon DEF TypeOK, PollStubLink, ConsType
<1>9. \A q \in Producers, i \in Queued : Linking(q, i)' <=> Linking(q, i)
      BY <1>2 DEF Linking
<1>10. \A i \in Queued : StubLinking(i) => i = k
      BY <1>1, <1>3, <1>5, Zenon DEF ListInv, StubLinking
<1>11. \A q \in Producers : ~Linking(q, k)
      BY <1>1, <1>3, NodesAssumption, Zenon DEF LinkInv, Linking, StubLinking
<1>12. TypeOK'
      <2>1. next' \in [AllNodes -> AllNodes \cup {Null}]
            BY <1>4, <1>5, <1>6, Zenon
      <2> QED BY <2>1, <1>1, <1>2, <1>8 DEF TypeOK, ConsType
<1>13. ListInv'
      <2>1. next'[head'] = Null
            BY <1>1, <1>2, <1>5, <1>7, Zenon DEF ListInv
      <2>2. ASSUME NEW i \in Queued \ {Len(log)}
            PROVE  \/ next'[log[i].node] = log[i + 1].node
                   \/ /\ next'[log[i].node] = Null
                      /\ \E q \in Producers : Linking(q, i)'
            <3>1. CASE i = k
                  BY <3>1, <1>7, Zenon
            <3>2. CASE i # k
                  <4>1. \/ next[log[i].node] = log[i + 1].node
                        \/ /\ next[log[i].node] = Null
                           /\ \E q \in Producers : Linking(q, i)
                        BY <3>2, <1>1, <1>10, Zenon DEF ListInv
                  <4> QED BY <4>1, <3>2, <1>7, <1>9, Zenon
            <3> QED BY <3>1, <3>2, Zenon
      <2> QED BY <2>1, <2>2, <1>1, <1>2, Zenon DEF ListInv
<1>14. LinkInv'
      <2>1. ASSUME NEW q \in Producers, prod'[q].pc = "link"
            PROVE  /\ prod'[q].node \in Nodes
                   /\ \E i \in Queued \ {Len(log)} :
                         Linking(q, i)' /\ next'[log[i].node] = Null
            <3>1. PICK i \in Queued \ {Len(log)} : Linking(q, i) /\ next[log[i].node] = Null
                  BY <2>1, <1>1, <1>2, Zenon DEF LinkInv
            <3>2. Linking(q, i)' /\ next'[log[i].node] = Null
                  BY <3>1, <1>7, <1>9, <1>11, Zenon
            <3> QED BY <2>1, <3>2, <1>1, <1>2, Zenon DEF LinkInv
      <2> QED BY <2>1, <1>1, <1>2, <1>8, Zenon DEF LinkInv
<1>15. OwnerInv' /\ RankInv'
      BY <1>1, <1>2, <1>8 DEF OwnerInv, RankInv
<1>16. PollInv'
      <2>1. lo < Len(log)
            BY <1>3, <1>4 DEF Queued
      <2> QED BY <2>1, <1>1, <1>2, <1>8 DEF PollInv
<1> QED
    BY <1>12, <1>13, <1>14, <1>15, <1>16 DEF QueueInv

-----------------------------------------------------------------------------
(* The steps that only poll, the theorems about the queue, and the thread *)

\* A step of the consumer that only looks, as most of mpsc_queue_poll, leaves the
\* list, its links, their owners and the ranks as they are.
LEMMA LookKeeps ==
    ASSUME QueueInv, UNCHANGED <<head, tail, next, heap, prod, log, lo, sent, got>>,
           cons' \in ConsType, cons.pc # "stublink", cons'.pc # "stublink",
           cons'.item \in {cons.item, Null}
    PROVE  TypeOK' /\ ListInv' /\ LinkInv' /\ OwnerInv' /\ RankInv'
<1>1. /\ TypeOK /\ ListInv /\ LinkInv /\ OwnerInv /\ PollInv /\ RankInv
      BY Zenon DEF QueueInv
<1>2. TypeOK'
      BY <1>1, Zenon DEF TypeOK, ConsType
<1>3. Queued' = Queued /\ \A i \in Queued : ~StubLinking(i)
      BY Zenon DEF Queued, StubLinking
<1>4. \A q \in Producers, i \in Queued : Linking(q, i)' <=> Linking(q, i)
      BY Zenon DEF Linking
<1>5. ListInv'
      BY <1>1, <1>3, <1>4, Zenon DEF ListInv
<1>6. LinkInv'
      BY <1>1, <1>3, <1>4, Zenon DEF LinkInv
<1>7. OwnerInv'
      <2>1. \A i \in Queued : log[i].node # Null
            BY <1>1, QueuedNodes, Zenon
      <2>2. Null \notin heap
            BY <1>1, NodesAssumption, Zenon DEF TypeOK
      <2> QED BY <2>1, <2>2, <1>1, <1>3, Zenon DEF OwnerInv
<1>8. RankInv'
      BY <1>1, <1>3, Zenon DEF RankInv
<1> QED BY <1>2, <1>5, <1>6, <1>7, <1>8, Zenon

\* tail moves to its successor: the list loses its first node, whose next was
\* stored already, so nobody is left to write to it.
LEMMA AdvanceKeeps ==
    ASSUME QueueInv, next[tail] # Null, tail' = next[tail], lo' = lo + 1,
           UNCHANGED <<head, next, heap, prod, log, sent>>,
           cons.pc # "stublink", cons'.pc # "stublink"
    PROVE  /\ lo < Len(log) /\ tail' = log[lo + 1].node /\ lo + 1 \in Queued
           /\ tail \in AllNodes /\ tail' \in AllNodes
           /\ \A i \in Queued' : i \in Queued /\ log[i].node # tail
           /\ ListInv' /\ LinkInv'
<1>1. /\ TypeOK /\ ListInv /\ LinkInv /\ OwnerInv /\ PollInv /\ RankInv
      BY Zenon DEF QueueInv
<1>2. lo \in 1 .. Len(log) /\ Len(log) \in Nat
      BY <1>1 DEF TypeOK, ListInv
<1>3. lo # Len(log)
      BY <1>1 DEF ListInv
<1>4. lo < Len(log) /\ lo \in Queued \ {Len(log)} /\ lo + 1 \in Queued
      BY <1>2, <1>3 DEF Queued
<1>5. tail' = log[lo + 1].node
      BY <1>1, <1>4 DEF ListInv
<1>6. \A i \in Queued' : i \in Queued /\ i # lo
      BY <1>2, <1>4 DEF Queued
<1>7. \A i \in Queued' : i \in Queued /\ log[i].node # tail
      BY <1>1, <1>4, <1>6, Zenon DEF ListInv
<1>8. tail \in AllNodes /\ tail' \in AllNodes
      BY <1>1, Zenon DEF TypeOK
<1>9. /\ \A i \in Queued : ~StubLinking(i)
      /\ \A q \in Producers, i \in Queued : Linking(q, i)' <=> Linking(q, i)
      BY Zenon DEF Linking, StubLinking
<1>10. ListInv'
      <2>1. lo' \in 1 .. Len(log')
            BY <1>2, <1>4
      <2> QED BY <2>1, <1>1, <1>5, <1>6, <1>9 DEF ListInv
<1>11. LinkInv'
      <2>1. \A i \in Queued \ {Len(log)} :
               next[log[i].node] = Null => i \in Queued' \ {Len(log')}
            BY <1>1, <1>2, <1>4 DEF Queued, ListInv
      <2>2. ASSUME NEW q \in Producers, prod'[q].pc = "link"
            PROVE  /\ prod'[q].node \in Nodes
                   /\ \E i \in Queued' \ {Len(log')} :
                         Linking(q, i)' /\ next'[log'[i].node] = Null
            <3>1. prod[q].pc = "link"
                  BY <2>2, Zenon
            <3>2. PICK i \in Queued \ {Len(log)} : Linking(q, i) /\ next[log[i].node] = Null
                  BY <3>1, <1>1, Zenon DEF LinkInv
            <3>3. i \in Queued' \ {Len(log')} /\ Linking(q, i)' /\ next'[log'[i].node] = Null
                  BY <3>2, <2>1, <1>9, Zenon
            <3>4. prod'[q].node \in Nodes
                  BY <3>1, <1>1, Zenon DEF LinkInv
            <3> QED BY <3>3, <3>4, Zenon
      <2> QED BY <2>2, <1>1, Zenon DEF LinkInv
<1> QED
    BY <1>4, <1>5, <1>7, <1>8, <1>10, <1>11

\* The same for the ranks: got falls short of tail's rank by tail itself.
LEMMA AdvanceRanks ==
    ASSUME QueueInv, next[tail] # Null, tail' = next[tail], lo' = lo + 1,
           UNCHANGED <<head, next, heap, prod, log, sent>>,
           cons.pc # "stublink", cons'.pc # "stublink",
           Len(got') = Len(got) + (IF tail = Stub THEN 0 ELSE 1)
    PROVE  RankInv'
<1>1. /\ TypeOK /\ ListInv /\ RankInv
      BY Zenon DEF QueueInv
<1>2. /\ lo < Len(log) /\ tail' = log[lo + 1].node /\ lo + 1 \in Queued
      /\ \A i \in Queued' : i \in Queued
      BY AdvanceKeeps, Zenon
<1>3. lo \in Queued \ {Len(log)} /\ lo \in 1 .. Len(log) /\ Len(log) \in Nat
      BY <1>1, <1>2 DEF ListInv, TypeOK, Queued
<1>4. log[lo + 1].rank = log[lo].rank + (IF log[lo + 1].node = Stub THEN 0 ELSE 1)
      BY <1>1, <1>3, Zenon DEF RankInv
<1>5. Len(got) = log[lo].rank - (IF tail = Stub THEN 0 ELSE 1)
      BY <1>1, Zenon DEF RankInv
<1>6. log[lo].rank \in Nat
      BY <1>1, QueuedNodes, Zenon
<1>7. Len(got') = log'[lo'].rank - (IF tail' = Stub THEN 0 ELSE 1)
      BY <1>2, <1>4, <1>5, <1>6
<1> QED
    BY <1>1, <1>2, <1>7 DEF RankInv

\* The node handed out is off the list, and the consumer's until it is freed.
LEMMA ItemInv ==
    ASSUME QueueInv, Item, tail # Stub, cons.pc \in {"load", "next", "recheck"},
           UNCHANGED <<head, next, heap, prod, log, sent>>
    PROVE  QueueInv'
<1>1. /\ TypeOK /\ ListInv /\ OwnerInv /\ PollInv
      BY DEF QueueInv
<1>2. /\ next[tail] # Null /\ tail' = next[tail] /\ lo' = lo + 1
      /\ got' = Append(got, tail)
      /\ cons.pc # "stublink" /\ cons'.pc = "done" /\ cons'.res = "ITEM"
      /\ cons'.item = tail
      BY Zenon DEF Item
<1>3. /\ lo < Len(log) /\ tail' = log[lo + 1].node /\ lo + 1 \in Queued
      /\ tail \in AllNodes /\ tail' \in AllNodes
      /\ \A i \in Queued' : i \in Queued /\ log[i].node # tail
      /\ ListInv' /\ LinkInv'
      BY <1>2, AdvanceKeeps, Zenon
<1>4. /\ got \in Seq(AllNodes) /\ got' \in Seq(AllNodes) /\ Len(got') = Len(got) + 1
      /\ lo \in Nat /\ lo + 1 \in Nat
      BY <1>1, <1>2, <1>3, AppendFacts DEF TypeOK
<1>5. RankInv'
      BY <1>2, <1>4, AdvanceRanks, Zenon
<1>6. TypeOK'
      <2>1. cons' \in ConsType
            BY <1>3, NodesAssumption, Zenon DEF Item, ConsType, AllNodes
      <2> QED BY <2>1, <1>1, <1>2, <1>3, <1>4, Zenon DEF TypeOK, ConsType
<1>7. tail \in Nodes /\ tail \notin heap
      <2>1. log[lo].node = tail /\ lo \in Queued
            BY <1>1, QueuedNodes, Zenon DEF ListInv
      <2> QED BY <2>1, <1>1, <1>3, Zenon DEF OwnerInv, AllNodes
<1>8. OwnerInv'
      BY <1>1, <1>2, <1>3, <1>7, Zenon DEF OwnerInv
<1>9. PollInv'
      BY <1>2 DEF PollInv
<1> QED
    BY <1>3, <1>5, <1>6, <1>8, <1>9 DEF QueueInv

\* PollStub: over the stub to the first node, which is not the stub.
LEMMA PollStubInv == ASSUME QueueInv, PollStub PROVE QueueInv'
<1>1. /\ TypeOK /\ ListInv /\ OwnerInv /\ PollInv /\ cons \in ConsType
      /\ cons.pc = "load" /\ tail = Stub
      /\ UNCHANGED <<head, next, heap, prod, log, sent>>
      BY DEF QueueInv, PollStub, TypeOK, ConsType
<1>2. CASE next[tail] = Null /\ Goto("stubhead")
      <2>1. /\ cons' \in ConsType /\ cons'.pc = "stubhead" /\ cons'.res = cons.res
            /\ cons'.item = cons.item /\ UNCHANGED <<tail, lo, got>>
            BY <1>1, <1>2, Zenon DEF Goto, ConsType
      <2>2. TypeOK' /\ ListInv' /\ LinkInv' /\ OwnerInv' /\ RankInv'
            BY <1>1, <2>1, LookKeeps, Zenon
      <2>3. PollInv'
            BY <1>1, <2>1 DEF PollInv
      <2> QED BY <2>2, <2>3 DEF QueueInv
<1>3. CASE /\ next[tail] # Null /\ tail' = next[tail] /\ lo' = lo + 1
           /\ cons' = [cons EXCEPT !.pc = "next"] /\ UNCHANGED got
      <2>1. /\ cons' \in ConsType /\ cons'.pc = "next" /\ cons'.res = cons.res
            /\ cons'.item = cons.item
            BY <1>1, <1>3 DEF ConsType
      <2>2. /\ tail' = log[lo + 1].node /\ lo + 1 \in Queued /\ tail' \in AllNodes
            /\ \A i \in Queued' : i \in Queued /\ log[i].node # tail
            /\ ListInv' /\ LinkInv'
            BY <1>1, <1>3, <2>1, AdvanceKeeps
      <2>3. Len(got') = Len(got) + (IF tail = Stub THEN 0 ELSE 1)
            BY <1>1, <1>3 DEF TypeOK
      <2>4. RankInv'
            BY <1>1, <1>3, <2>1, <2>3, AdvanceRanks, Zenon
      <2>5. lo \in 1 .. Len(log) /\ Len(log) \in Nat /\ lo + 1 \in Nat /\ lo + 1 # lo
            BY <1>1 DEF ListInv, TypeOK
      <2>6. TypeOK'
            BY <1>1, <1>3, <2>1, <2>2, <2>5, Zenon DEF TypeOK, ConsType
      <2>7. OwnerInv'
            BY <1>1, <2>1, <2>2, Zenon DEF OwnerInv
      <2>8. tail' # Stub
            <3>1. lo \in Queued /\ log[lo].node = tail
                  BY <1>1, QueuedNodes, Zenon DEF ListInv
            <3> QED BY <1>1, <2>2, <2>5, <3>1 DEF ListInv
      <2>9. PollInv'
            BY <1>1, <2>1, <2>8 DEF PollInv
      <2> QED BY <2>2, <2>4, <2>6, <2>7, <2>9 DEF QueueInv
<1> QED
    BY <1>2, <1>3 DEF PollStub

\* An answer without a node.
LEMMA AnswerKeeps ==
    ASSUME QueueInv, NEW r \in {"EMPTY", "RETRY"}, Answer(r), cons.pc # "stublink",
           UNCHANGED <<head, next, heap, prod, log, sent>>
    PROVE  QueueInv'
<1>1. /\ cons' \in ConsType /\ cons'.pc = "done" /\ cons'.res # "none"
      /\ cons'.item = Null /\ UNCHANGED <<tail, lo, got>>
      BY Zenon DEF Answer, ConsType
<1>2. TypeOK' /\ ListInv' /\ LinkInv' /\ OwnerInv' /\ RankInv'
      BY <1>1, LookKeeps
<1>3. PollInv'
      BY <1>1 DEF PollInv
<1> QED BY <1>2, <1>3, Zenon DEF QueueInv

\* PollStubHead answers.
LEMMA PollStubHeadInv == ASSUME QueueInv, PollStubHead PROVE QueueInv'
BY AnswerKeeps, Zenon DEF PollStubHead

\* PollNext returns the node, or goes on to look at head.
LEMMA PollNextInv == ASSUME QueueInv, PollNext PROVE QueueInv'
<1>1. /\ TypeOK /\ PollInv /\ cons \in ConsType
      /\ UNCHANGED <<head, next, heap, prod, log, sent>>
      /\ cons.pc \in {"load", "next"} /\ tail # Stub
      BY DEF QueueInv, PollNext, TypeOK, ConsType, PollInv
<1>2. CASE Item
      BY <1>1, <1>2, ItemInv
<1>3. CASE Goto("head")
      <2>1. /\ cons' \in ConsType /\ cons'.pc = "head" /\ cons'.res = cons.res
            /\ cons'.item = cons.item /\ UNCHANGED <<tail, lo, got>>
            BY <1>1, <1>3, Zenon DEF Goto, ConsType
      <2>2. TypeOK' /\ ListInv' /\ LinkInv' /\ OwnerInv' /\ RankInv'
            BY <1>1, <2>1, LookKeeps, Zenon
      <2>3. PollInv'
            BY <1>1, <2>1 DEF PollInv
      <2> QED BY <2>2, <2>3 DEF QueueInv
<1> QED
    BY <1>2, <1>3, Zenon DEF PollNext

\* PollHead: when tail is also the last node, the stub is not on the list.
LEMMA PollHeadInv == ASSUME QueueInv, PollHead PROVE QueueInv'
<1>1. /\ TypeOK /\ PollInv /\ ListInv /\ cons \in ConsType
      /\ UNCHANGED <<head, next, heap, prod, log, sent>>
      /\ cons.pc = "head" /\ tail # Stub
      BY Zenon DEF QueueInv, PollHead, TypeOK, ConsType, PollInv
<1>2. CASE head # tail
      BY <1>1, <1>2, AnswerKeeps DEF PollHead
<1>3. CASE head = tail
      <2>1. /\ cons' \in ConsType /\ cons'.pc = "stub" /\ cons'.res = cons.res
            /\ cons'.item = cons.item /\ UNCHANGED <<tail, lo, got>>
            BY <1>1, <1>3, Zenon DEF PollHead, Goto, ConsType
      <2>2. TypeOK' /\ ListInv' /\ LinkInv' /\ OwnerInv' /\ RankInv'
            BY <1>1, <2>1, LookKeeps, Zenon
      <2>3. lo = Len(log) /\ Len(log) \in Nat
            BY <1>1, <1>3, QueuedNodes, Zenon DEF ListInv
      <2>4. \A i \in Queued' : log'[i].node # Stub
            BY <1>1, <2>1, <2>3 DEF Queued, ListInv
      <2>5. PollInv'
            BY <1>1, <2>1, <2>4 DEF PollInv
      <2> QED BY <2>2, <2>5 DEF QueueInv
<1> QED
    BY <1>2, <1>3, Zenon

\* PollRecheck returns the last node, or gives up.
LEMMA PollRecheckInv == ASSUME QueueInv, PollRecheck PROVE QueueInv'
<1>1. /\ UNCHANGED <<head, next, heap, prod, log, sent>>
      /\ cons.pc = "recheck" /\ tail # Stub
      BY DEF QueueInv, PollRecheck, PollInv
<1> QED
    BY <1>1, ItemInv, AnswerKeeps, Zenon DEF PollRecheck

\* PollAgain frees the node it was given, which is on the list no more.
LEMMA PollAgainInv == ASSUME QueueInv, PollAgain PROVE QueueInv'
<1>1. /\ TypeOK /\ ListInv /\ LinkInv /\ OwnerInv /\ PollInv /\ RankInv
      BY DEF QueueInv
<1>2. /\ UNCHANGED <<head, tail, next, prod, log, lo, sent, got>>
      /\ cons' \in ConsType /\ cons.pc = "done" /\ cons'.pc = "load"
      /\ cons'.item = Null /\ cons'.res = "none"
      /\ heap' = heap \cup (Nodes \cap {cons.item})
      BY Zenon DEF PollAgain, ConsType
<1>3. /\ Queued' = Queued /\ \A i \in Queued : ~StubLinking(i) /\ log[i].node # Null
      /\ \A q \in Producers, i \in Queued : Linking(q, i)' <=> Linking(q, i)
      BY <1>1, <1>2, QueuedNodes, Zenon DEF Queued, StubLinking, Linking
<1>4. TypeOK'
      BY <1>1, <1>2, Zenon DEF TypeOK, ConsType
<1>5. ListInv'
      BY <1>1, <1>2, <1>3, Zenon DEF ListInv
<1>6. LinkInv'
      BY <1>1, <1>2, <1>3, Zenon DEF LinkInv
<1>7. OwnerInv'
      BY <1>1, <1>2, <1>3, NodesAssumption, Zenon DEF OwnerInv, TypeOK
<1>8. PollInv' /\ RankInv'
      BY <1>1, <1>2, <1>3, Zenon DEF PollInv, RankInv
<1> QED
    BY <1>4, <1>5, <1>6, <1>7, <1>8, Zenon DEF QueueInv

\* Every step of producers and consumer keeps the invariant.
LEMMA QueueStep == QueueInv /\ [Next]_queueVars => QueueInv'
BY InsertExchangeInv, InsertLinkInv, PollStubInv, PollStubHeadInv, PollNextInv,
   PollHeadInv, PollStubExchangeInv, PollStubLinkInv, PollRecheckInv, PollAgainInv,
   QueueFrame DEF Next, Insert, Poll

\* The list is well formed in every state of every execution, for any number of
\* producers stopped between their exchange of head and their link.
THEOREM QueueInvariance == Spec => []QueueInv
BY QueueInit, QueueStep, PTL DEF Spec

\* No producer, and not the consumer for the stub, ever stores the next of a node
\* that was handed out: such a node may be freed at once (thread.c:125).
THEOREM PolledNodesUnwritten == Spec => []NoWriteToPolledNode
<1>1. QueueInv => NoWriteToPolledNode
      BY DEF QueueInv, LinkInv, OwnerInv, NoWriteToPolledNode, Linking, StubLinking
<1> QED BY <1>1, QueueInvariance, PTL

\* A poll that returns a node returns the one that was sent next.
LEMMA ItemDelivers ==
    ASSUME QueueInv, Item, tail # Stub, cons.pc # "done", UNCHANGED sent
    PROVE  Fifos!Deliver
<1>1. /\ TypeOK /\ ListInv /\ PollInv /\ RankInv
      BY Zenon DEF QueueInv
<1>2. /\ cons.res = "none" /\ cons'.res = "ITEM" /\ got' = Append(got, tail)
      BY <1>1, Zenon DEF Item, PollInv
<1>3. lo \in Queued /\ log[lo].node = tail /\ log[lo].rank \in Nat /\ Len(sent) \in Nat
      BY <1>1, QueuedNodes DEF ListInv, TypeOK
<1>4. log[lo].rank \in 1 .. Len(sent) /\ sent[log[lo].rank] = tail
      BY <1>1, <1>3, Zenon DEF RankInv
<1>5. Len(got) + 1 = log[lo].rank /\ Len(got) < Len(sent)
      BY <1>1, <1>3, <1>4 DEF RankInv
<1> QED
    BY <1>2, <1>4, <1>5 DEF Fifos!Deliver

\* RETRY is answered only while something is queued.
LEMMA RetryIsRight ==
    ASSUME QueueInv, Answer("RETRY"), cons.pc # "done", tail # Stub \/ head # tail,
           UNCHANGED sent
    PROVE  Fifos!AnswerRetry
<1>1. /\ TypeOK /\ ListInv /\ PollInv /\ RankInv
      BY DEF QueueInv
<1>2. /\ cons.res = "none" /\ cons'.res = "RETRY" /\ got' = got
      BY <1>1, Zenon DEF Answer, PollInv
<1>3. /\ lo \in Queued /\ log[lo].node = tail /\ log[lo].rank \in Nat
      /\ Len(sent) \in Nat /\ lo \in 1 .. Len(log) /\ Len(log) \in Nat
      BY <1>1, QueuedNodes, SMTT(30) DEF ListInv, TypeOK
<1>4. CASE tail # Stub
      BY <1>1, <1>2, <1>3, <1>4 DEF RankInv, Fifos!AnswerRetry
<1>5. CASE tail = Stub /\ head # tail
      <2>1. lo # Len(log)
            BY <1>1, <1>5, Zenon DEF ListInv
      <2>2. lo \in Queued \ {Len(log)} /\ lo + 1 \in Queued /\ lo + 1 # lo
            BY <1>3, <2>1 DEF Queued
      <2>3. log[lo + 1].node # Stub
            BY <1>1, <1>3, <1>5, <2>2 DEF ListInv
      <2>4. log[lo + 1].rank = log[lo].rank + 1 /\ log[lo + 1].rank \in 1 .. Len(sent)
            BY <1>1, <2>2, <2>3, Zenon DEF RankInv
      <2>5. Len(got) = log[lo].rank
            BY <1>1, <1>3, <1>5 DEF RankInv
      <2> QED BY <1>2, <1>3, <2>4, <2>5 DEF Fifos!AnswerRetry
<1> QED
    BY <1>4, <1>5

\* EMPTY is answered only when nothing is queued.
LEMMA EmptyIsRight ==
    ASSUME QueueInv, Answer("EMPTY"), cons.pc # "done", tail = Stub, head = tail,
           UNCHANGED sent
    PROVE  Fifos!AnswerEmpty
<1>1. /\ TypeOK /\ ListInv /\ PollInv /\ RankInv
      BY Zenon DEF QueueInv
<1>2. lo = Len(log) /\ Len(sent) \in Nat
      <2>1. lo \in Queued /\ Len(log) \in Queued
            BY <1>1, QueuedNodes, Zenon
      <2> QED BY <1>1, <2>1 DEF ListInv, TypeOK
<1>3. Len(got) = Len(sent)
      BY <1>1, <1>2 DEF RankInv
<1> QED
    BY <1>1, <1>3 DEF Fifos!AnswerEmpty, Answer, PollInv

\* Every step of the queue is a step of FifoQueue or changes nothing of it.
LEMMA FifoStep ==
    ASSUME QueueInv, [Next]_queueVars
    PROVE  [Fifos!Next]_<<sent, got, cons.res>>
<1>1. PollInv /\ cons \in ConsType
      BY Zenon DEF QueueInv, TypeOK, ConsType
<1>2. ASSUME NEW p \in Producers, NEW n \in Nodes, InsertExchange(p, n)
      PROVE  Fifos!Insert(n)
      BY <1>2, Zenon DEF InsertExchange, Fifos!Insert
<1>3. ASSUME NEW p \in Producers, InsertLink(p)
      PROVE  UNCHANGED <<sent, got, cons.res>>
      BY <1>3 DEF InsertLink
<1>4. CASE PollStub
      BY <1>1, <1>4, Zenon DEF PollStub, Goto, ConsType
<1>5. CASE PollStubHead
      <2>1. tail = Stub /\ cons.pc # "done" /\ UNCHANGED sent
            BY <1>1, <1>5, Zenon DEF PollStubHead, PollInv
      <2>2. CASE head = tail
            BY <1>5, <2>1, <2>2, EmptyIsRight, Zenon DEF PollStubHead, Fifos!Next
      <2>3. CASE head # tail
            BY <1>5, <2>1, <2>3, RetryIsRight, Zenon DEF PollStubHead, Fifos!Next
      <2> QED BY <2>2, <2>3, Zenon
<1>6. CASE PollNext
      <2>1. tail # Stub /\ cons.pc # "done" /\ UNCHANGED sent
            BY <1>1, <1>6, Zenon DEF PollNext, PollInv
      <2>2. CASE Item
            BY <2>1, <2>2, ItemDelivers DEF Fifos!Next
      <2>3. CASE Goto("head")
            BY <1>1, <2>1, <2>3, Zenon DEF Goto, ConsType
      <2> QED BY <1>6, <2>2, <2>3, Zenon DEF PollNext
<1>7. CASE PollHead
      <2>1. tail # Stub /\ cons.pc # "done" /\ UNCHANGED sent
            BY <1>1, <1>7, Zenon DEF PollHead, PollInv
      <2>2. CASE Answer("RETRY")
            BY <2>1, <2>2, RetryIsRight DEF Fifos!Next
      <2>3. CASE Goto("stub")
            BY <1>1, <2>1, <2>3 DEF Goto, ConsType
      <2> QED BY <1>7, <2>2, <2>3, Zenon DEF PollHead
<1>8. CASE PollStubExchange
      BY <1>1, <1>8 DEF PollStubExchange, ConsType
<1>9. CASE PollStubLink
      BY <1>1, <1>9, Zenon DEF PollStubLink, ConsType
<1>10. CASE PollRecheck
      <2>1. tail # Stub /\ cons.pc # "done" /\ UNCHANGED sent
            BY <1>1, <1>10, Zenon DEF PollRecheck, PollInv
      <2> QED BY <2>1, <1>10, ItemDelivers, RetryIsRight, Zenon DEF PollRecheck, Fifos!Next
<1>11. CASE PollAgain
      BY <1>1, <1>11, Zenon DEF PollAgain, PollInv, Fifos!Next, Fifos!Take
<1>12. CASE UNCHANGED queueVars
      BY <1>12 DEF queueVars
<1> QED
    BY <1>2, <1>3, <1>4, <1>5, <1>6, <1>7, <1>8, <1>9, <1>10, <1>11, <1>12, Zenon
    DEF Next, Insert, Poll, Fifos!Next

\* mpsc_queue.h implements the FIFO: each node is delivered once, in the order of
\* the exchanges of head, and EMPTY and RETRY are right when they are answered,
\* for any number of producers.
THEOREM QueueImplementsFifo == Spec => ImplementsFifo
<1>1. Init => Fifos!Init
      BY DEF Init, Fifos!Init
<1> QED
    BY <1>1, FifoStep, QueueInvariance, PTL DEF Spec, ImplementsFifo, Fifos!Spec

-----------------------------------------------------------------------------
(* The worker *)

\* The thread of thread.c and those that defer to it use the queue as MpscQueue
\* says, so that what holds of the queue holds of it in the worker.
THEOREM WorkerUsesQueue == ThrSpec => Spec
<1>1. ThrInit => Init
      BY Zenon DEF ThrInit
<1>2. [ThrNext]_vars => [Next]_queueVars
      BY DEF ThrNext, Worker, Defer, DeferInsert, DeferLink, DeferWake, Loop, ReadMsg,
             RunPoll, RunCallback, ReadStop, Stop, Join, Free, Next, Insert, vars
<1> QED
    BY <1>1, <1>2, PTL DEF ThrSpec, Spec

\* In the worker no polled command is written after the poll, and commands are
\* run once each, in the order in which evthr_defer queued them.
THEOREM WorkerQueueCorrect == ThrSpec => []NoWriteToPolledNode /\ ImplementsFifo
BY WorkerUsesQueue, PolledNodesUnwritten, QueueImplementsFifo, PTL

\* The inductive invariant of the worker.
ThrInv ==
    /\ QueueInv /\ ThrTypeOK /\ WakeInv
    /\ stopper = "none" => stop_fd = 0

\* When tail has no successor yet but is not the last node, the producer that
\* will link it has yet to write the eventfd.
LEMMA UnlinkedIsPending ==
    ASSUME QueueInv, next[tail] = Null, cons.pc # "stublink"
    PROVE  lo = Len(log) \/ Wakeup
<1>1. TypeOK /\ ListInv
      BY Zenon DEF QueueInv
<1>2. lo \in Queued /\ log[lo].node = tail /\ \A i \in Queued : log[i].node # Null
      BY <1>1, QueuedNodes, Zenon DEF ListInv
<1>3. lo # Len(log) => log[lo + 1].node # Null
      <2>1. lo # Len(log) => lo + 1 \in Queued
            BY <1>1 DEF TypeOK, ListInv, Queued
      <2> QED BY <2>1, <1>2, Zenon
<1> QED
    BY <1>1, <1>2, <1>3, Zenon DEF ListInv, StubLinking, Linking, Wakeup

\* A poll that finds nothing leaves a wakeup behind, or nothing queued.
LEMMA PollKeepsWakeup ==
    ASSUME ThrInv, RunPoll
    PROVE  WakeInv'
<1>1. /\ QueueInv /\ TypeOK /\ ListInv /\ PollInv /\ RankInv /\ WakeInv /\ cons \in ConsType
      BY DEF ThrInv, QueueInv, TypeOK, ConsType
<1>2. /\ thr' = "running"
      /\ \/ Poll /\ UNCHANGED <<msg_fd, defer, prod, log, sent>>
         \/ PollStubExchange \/ PollStubLink
      BY DEF RunPoll, thrVars, Poll, PollStub, PollStubHead, PollNext, PollHead, PollRecheck
<1>3. CASE PollStubExchange \/ PollStubLink
      <2>1. cons'.pc \in {"stublink", "recheck"} /\ thr' = "running"
            BY <1>1, <1>2, <1>3, Zenon DEF PollStubExchange, PollStubLink, ConsType
      <2> QED BY <2>1 DEF WakeInv
<1>4. CASE UNCHANGED <<msg_fd, defer, prod, log, sent>> /\ thr' = "running"
           /\ (PollStub \/ PollStubHead \/ PollNext \/ PollHead \/ PollRecheck)
      <2>1. Wakeup' <=> Wakeup
            BY <1>4 DEF Wakeup
      <2>2. CASE PollStub
            BY <1>1, <1>4, <2>1, <2>2, UnlinkedIsPending DEF PollStub, Goto, WakeInv, ConsType
      <2>3. CASE PollStubHead
            <3>1. CASE head = tail
                  <4>1. lo = Len(log) /\ tail = Stub
                        BY <1>1, <2>3, <3>1, QueuedNodes, Zenon DEF ListInv, PollInv, PollStubHead
                  <4>2. Len(got) = Len(sent)
                        BY <1>1, <4>1 DEF RankInv, TypeOK
                  <4> QED BY <1>4, <2>3, <3>1, <4>2, Zenon DEF PollStubHead, Answer, WakeInv
            <3>2. CASE head # tail
                  BY <1>1, <1>4, <2>1, <2>3, <3>2 DEF PollStubHead, Answer, WakeInv, ListInv
            <3> QED BY <3>1, <3>2, Zenon
      <2>4. CASE PollNext
            BY <1>1, <1>4, <2>1, <2>4, UnlinkedIsPending
            DEF PollNext, Item, Goto, WakeInv, ConsType
      <2>5. CASE PollHead
            BY <1>1, <1>4, <2>1, <2>5, Zenon
            DEF PollHead, Goto, Answer, WakeInv, ConsType, ListInv
      <2>6. CASE PollRecheck
            BY <1>1, <1>4, <2>1, <2>6, UnlinkedIsPending
            DEF PollRecheck, Item, Answer, WakeInv, ConsType, PollInv, TypeOK
      <2> QED BY <1>4, <2>2, <2>3, <2>4, <2>5, <2>6, Zenon
<1> QED
    BY <1>2, <1>3, <1>4, Zenon DEF Poll

\* Every step of the worker and of those who defer to it or stop it keeps ThrInv.
LEMMA ThrStep == ThrInv /\ [ThrNext]_vars => ThrInv'
<1> SUFFICES ASSUME ThrInv, [ThrNext]_vars PROVE ThrInv'
    OBVIOUS
<1>1. QueueInv /\ ThrTypeOK /\ WakeInv /\ TypeOK /\ (stopper = "none" => stop_fd = 0)
      BY DEF ThrInv, QueueInv
<1>2. QueueInv'
      <2>1. [Next]_queueVars
            BY Zenon DEF ThrNext, Worker, Defer, DeferInsert, DeferLink, DeferWake, Loop, ReadMsg,
                   RunPoll, RunCallback, ReadStop, Stop, Join, Free, Next, Insert, vars
      <2> QED BY <1>1, <2>1, QueueStep, Zenon
<1>3. ThrTypeOK' /\ (stopper = "none" => stop_fd = 0)'
      <2>1. TypeOK'
            BY <1>2, Zenon DEF QueueInv
      <2> QED
          BY <1>1, <2>1, MaxCountAssumption
          DEF ThrTypeOK, ThrNext, Worker, Defer, DeferInsert, DeferLink, DeferWake, Loop,
              ReadMsg, RunPoll, RunCallback, ReadStop, Stop, Join, Free, vars, thrVars
<1>4. ASSUME NEW p \in Producers, Defer(p)
      PROVE  WakeInv'
      <2>1. Wakeup' /\ cons' = cons /\ thr' = thr
            <3>1. CASE \E n \in Nodes : DeferInsert(p, n)
                  BY <1>1, <3>1
                  DEF DeferInsert, InsertExchange, thrVars, Wakeup, TypeOK
            <3>2. CASE DeferLink(p)
                  BY <1>1, <3>2, Zenon DEF DeferLink, InsertLink, Wakeup, ThrTypeOK
            <3>3. CASE DeferWake(p)
                  BY <1>1, <3>3, MaxCountAssumption DEF DeferWake, queueVars, Wakeup, ThrTypeOK
            <3> QED BY <1>4, <3>1, <3>2, <3>3, Zenon DEF Defer
      <2> QED BY <1>1, <2>1, Zenon DEF WakeInv
<1>5. ASSUME Loop \/ ReadStop \/ Stop \/ Join \/ Free \/ UNCHANGED vars
      PROVE  WakeInv'
      <2>1. /\ UNCHANGED <<cons, prod, defer, msg_fd, lo, log, got, sent>>
            /\ thr' = "running" => thr = "running"
            /\ thr = "running" => thr' = "running"
            BY <1>5, Zenon DEF Loop, ReadStop, Stop, Join, Free, vars, thrVars, queueVars
      <2>2. Wakeup' <=> Wakeup
            BY <2>1, Zenon DEF Wakeup
      <2> QED BY <1>1, <2>1, <2>2, Zenon DEF WakeInv
<1>6. ASSUME ReadMsg PROVE WakeInv'
      BY <1>1, <1>6 DEF ReadMsg, queueVars, WakeInv
<1>7. ASSUME RunPoll PROVE WakeInv'
      BY <1>7, PollKeepsWakeup, Zenon
<1>8. ASSUME RunCallback PROVE WakeInv'
      <2>1. /\ cons.pc = "done" /\ cons'.pc = "load"
            /\ UNCHANGED <<prod, defer, msg_fd, got, sent>>
            /\ thr' = IF cons.res = "ITEM" THEN "running" ELSE "loop"
            BY <1>8, Zenon DEF RunCallback, PollAgain
      <2>2. Wakeup' <=> Wakeup
            BY <2>1, Zenon DEF Wakeup
      <2>3. Len(got) < Len(sent) => Len(got) # Len(sent)
            BY <1>1 DEF TypeOK
      <2> QED BY <1>1, <2>1, <2>2, <2>3, Zenon DEF WakeInv
<1> QED
    BY <1>1, <1>2, <1>3, <1>4, <1>5, <1>6, <1>7, <1>8 DEF ThrInv, ThrNext, Worker

\* No wakeup is lost, for any number of deferring threads and any limit of the
\* eventfd counter: a thread in its event loop with a command queued has msg_fd
\* readable, or somebody inside evthr_defer is about to write it, although the
\* poll loop gives up on MPSC_QUEUE_RETRY.
THEOREM WakeupsKept == ThrSpec => []NoLostWakeup
<1>1. ThrInit => ThrInv
      <2> SUFFICES ASSUME ThrInit PROVE ThrInv
          OBVIOUS
      <2>1. QueueInv
            BY QueueInit DEF ThrInit
      <2>2. ThrTypeOK
            BY <2>1, MaxCountAssumption DEF ThrInit, ThrTypeOK, QueueInv
      <2>3. WakeInv
            BY DEF ThrInit, Init, WakeInv
      <2> QED BY <2>1, <2>2, <2>3 DEF ThrInv, ThrInit
<1>2. ThrInv => NoLostWakeup
      BY DEF ThrInv, WakeInv, NoLostWakeup
<1> QED
    BY <1>1, <1>2, ThrStep, PTL DEF ThrSpec
=============================================================================

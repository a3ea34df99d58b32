---------------------------- MODULE ServerProofs ----------------------------
(****************************************************************************)
(* ConnectionOnce and SharedIntact of Server, for any number of threads,    *)
(* connections, requests and callbacks.                                     *)
(*                                                                          *)
(* Neither is inductive alone.  WorkInv adds that a thread which takes or   *)
(* gives back a request still serves the connection; LockInv, that the      *)
(* thread inside the lock is alone and that the list is as it read it;      *)
(* DeferInv, that the connection being deferred is nobody else's;           *)
(* ShutdownInv, which threads may still be at work while evhtp_free is      *)
(* under way.  There is a lemma for every action.                           *)
(****************************************************************************)
EXTENDS ServerLemmas

-----------------------------------------------------------------------------
(* From htp__accept_cb_ through the queue of a worker to htp__run_in_thread_ *)

\* htp__run_in_thread_: the connection leaves the only queue it was in.
LEMMA RunInThreadInv == ASSUME Inv, NEW t \in Threads, RunInThread(t) PROVE Inv'
<1> DEFINE c == queue[t][1]
<1>t. TypeOK
  BY DEF Inv
<1>1. conn \in [Conns -> ConnRecords] /\ queue \in [Threads -> Seq(Conns)] /\ t \in Executors /\ t # Main
  BY <1>t, CallersAssumption DEF TypeOK, Executors
<1>2. /\ queue[t] # << >> /\ queue' = [queue EXCEPT ![t] = Tail(@)]
      /\ worker[t].pc = "idle" /\ thread[t] # "exited"
  BY <1>1 DEF RunInThread, Free
<1>3. /\ queue' \in [Threads -> Seq(Conns)]
      /\ \A i \in DOMAIN queue'[t] : i + 1 \in DOMAIN queue[t] /\ i + 1 # 1 /\ queue'[t][i] = queue[t][i + 1]
      /\ \A i, j \in DOMAIN queue'[t] : i + 1 = j + 1 => i = j
      /\ \A i \in DOMAIN queue[t] : i # 1 => \E j \in DOMAIN queue'[t] : queue'[t][j] = queue[t][i]
      /\ \A u \in Threads : u # t => queue'[u] = queue[u]
      /\ 1 \in DOMAIN queue[t] /\ Head(queue[t]) = c /\ c \in Conns
  BY <1>1, <1>2, TailQueue, Zenon
<1>4. thr_pool /\ main.pc \notin {"freeing", "freed"}
  BY <1>2 DEF Inv, ShutdownInv
<1>u. UNCHANGED <<next_choice, tail, call, listener, undelivered, worker, thread, main, app, thr_pool,
                  lock, requests, req, allocated, callbacks>>
  BY DEF RunInThread, pool_vars, shared_vars
<1>5. Waiting(c)
  BY <1>3 DEF Inv, AtOnePlace, QueuedWait
<1>6. c \notin undelivered /\ \E k \in Accepted(conn[c], t) : conn' = [conn EXCEPT ![c] = k]
  BY <1>3 DEF RunInThread
<1> HIDE DEF c
<1>7. conn[c].at \in {"queued", "freed"} /\ req[c] = NoRequest
  BY <1>3, <1>5, PlacedConn DEF Placed, Waiting
<1>8. /\ conn' \in [Conns -> ConnRecords] /\ \A d \in Conns : d # c => conn'[d] = conn[d]
      /\ \/ conn'[c].at = "freed" /\ conn'[c].closes = 1 /\ conn'[c].bev = FALSE
         \/ /\ conn'[c].at = "active" /\ conn'[c].closes = 0 /\ conn'[c].bev = TRUE /\ conn'[c].by = t
            /\ c \notin undelivered
  <2>1. PICK k \in Accepted(conn[c], t) : conn' = [conn EXCEPT ![c] = k]
    BY <1>6, Zenon
  <2>2. conn[c].at = "queued" /\ conn[c] \in ConnRecords
    BY <1>1, <1>3, <1>5, <1>6 DEF Waiting
  <2>3. conn[c].closes = 0 /\ ~conn[c].bev
    BY <2>2, <1>3, PlacedConn DEF Placed
  <2>4. /\ k \in ConnRecords
        /\ \/ k.at = "freed" /\ k.closes = 1 /\ k.bev = FALSE
           \/ k.at = "active" /\ k.closes = 0 /\ k.bev = TRUE /\ k.by = t
    <3>1. k \in Accepted(conn[c], t)
      BY <2>1
    <3> QED
      BY <3>1, <2>2, <2>3, <1>1, AcceptedOnce
  <2>5. conn' \in [Conns -> ConnRecords] /\ conn'[c] = k /\ \A d \in Conns : d # c => conn'[d] = conn[d]
    BY <2>1, <2>4, <1>1, <1>3
  <2> QED
    BY <1>6, <2>4, <2>5
<1>9. TypeOK'
  BY <1>t, <1>3, <1>8, <1>u, SMTT(30) DEF TypeOK
<1>10. AtOnePlace'
  <2>q. \A u \in Threads : \A i \in DOMAIN queue[u] : queue[u][i] \in Conns
    BY <1>t, QueuedConns, SMTT(30)
  <2>1. QueuedOnce
    BY DEF Inv, AtOnePlace
  <2>2. QueuedOnce'
    <3> SUFFICES ASSUME NEW u \in Threads, NEW v \in Threads, NEW i \in DOMAIN queue'[u],
                        NEW j \in DOMAIN queue'[v], queue'[u][i] = queue'[v][j]
                 PROVE  u = v /\ i = j
      BY DEF QueuedOnce
    <3>1. CASE u = t /\ v = t
      <4>1. i + 1 \in DOMAIN queue[t] /\ j + 1 \in DOMAIN queue[t] /\ queue[t][i + 1] = queue[t][j + 1]
        BY <3>1, <1>3
      <4>2. i + 1 = j + 1
        BY <4>1, <2>1 DEF QueuedOnce
      <4> QED
        BY <3>1, <4>2, <1>3
    <3>2. CASE u = t /\ v # t
      <4>1. i + 1 \in DOMAIN queue[t] /\ j \in DOMAIN queue[v] /\ queue[t][i + 1] = queue[v][j]
        BY <3>2, <1>3
      <4> QED
        BY <3>2, <4>1, <2>1 DEF QueuedOnce
    <3>3. CASE u # t /\ v = t
      <4>1. i \in DOMAIN queue[u] /\ j + 1 \in DOMAIN queue[t] /\ queue[u][i] = queue[t][j + 1]
        BY <3>3, <1>3
      <4> QED
        BY <3>3, <4>1, <2>1 DEF QueuedOnce
    <3>4. CASE u # t /\ v # t
      <4>1. i \in DOMAIN queue[u] /\ j \in DOMAIN queue[v] /\ queue[u][i] = queue[v][j]
        BY <3>4, <1>3
      <4> QED
        BY <4>1, <2>1 DEF QueuedOnce
    <3> QED
      BY <3>1, <3>2, <3>3, <3>4
  <2>3. \A u \in Threads : \A i \in DOMAIN queue'[u] :
          /\ queue'[u][i] # c
          /\ \E j \in DOMAIN queue[u] : queue'[u][i] = queue[u][j]
    <3> SUFFICES ASSUME NEW u \in Threads, NEW i \in DOMAIN queue'[u]
                 PROVE  queue'[u][i] # c /\ \E j \in DOMAIN queue[u] : queue'[u][i] = queue[u][j]
      OBVIOUS
    <3>1. CASE u = t
      BY <3>1, <2>1, <1>3 DEF c, QueuedOnce
    <3>2. CASE u # t
      BY <3>2, <2>1, <1>3 DEF c, QueuedOnce
    <3> QED
      BY <3>1, <3>2
  <2>4. QueuedWait'
    <3> SUFFICES ASSUME NEW u \in Threads, NEW i \in DOMAIN queue'[u] PROVE Waiting(queue[u][i])'
      BY DEF QueuedWait
    <3> DEFINE d == queue'[u][i]
    <3>1. d # c /\ \E j \in DOMAIN queue[u] : d = queue[u][j]
      BY <2>3
    <3>2. d \in Conns /\ Waiting(d)
      BY <3>1, <2>q, Zenon DEF Inv, AtOnePlace, QueuedWait
    <3>3. conn'[d] = conn[d] /\ undelivered' = undelivered
      BY <3>1, <3>2, <1>8, <1>u
    <3> QED
      BY <3>2, <3>3 DEF Waiting
  <2>5. ASSUME NEW d \in Conns PROVE Placed(d)'
    <3>1. req' = req
      BY <1>u
    <3>2. CASE d = c
      BY <3>1, <3>2, <1>7, <1>8, Zenon DEF Placed
    <3>3. CASE d # c
      <4>1. Placed(d) /\ conn'[d] = conn[d]
        BY <3>3, <1>8, PlacedConn
      <4>2. ASSUME NEW u \in Threads, NEW i \in DOMAIN queue[u], queue[u][i] = d PROVE InQueue(d)'
        <5>1. CASE u = t
          <6>1. i # 1
            BY <5>1, <4>2, <3>3 DEF c
          <6> QED
            BY <6>1, <5>1, <4>2, <1>3 DEF InQueue
        <5>2. CASE u # t
          BY <5>2, <4>2, <1>3 DEF InQueue
        <5> QED
          BY <5>1, <5>2
      <4>3. InQueue(d) => InQueue(d)'
        BY <4>2 DEF InQueue
      <4> QED
        BY <4>1, <4>3, <3>1 DEF Placed
    <3> QED
      BY <3>2, <3>3
  <2> QED
    BY <2>2, <2>4, <2>5 DEF AtOnePlace
<1>11. ListsIntact' /\ LockInv'
  BY <1>u, SharedFrame, LockFrame, SMTT(30) DEF Inv
<1>12. DeferInv'
  <2>1. c \in Conns
    BY <1>3, Zenon
  <2>2. main.pc = "defer" => main.conn \in Conns /\ main.conn # c
    BY <1>7 DEF Inv, DeferInv
  <2>3. \A d \in Conns : d \in undelivered => conn'[d].at = "freed"
    <3>1. \A d \in Conns : d \in undelivered => conn[d].at = "freed"
      BY DEF Inv, DeferInv
    <3> QED
      BY <2>1, <3>1, <1>8
  <2>4. main' = main /\ thr_pool' = thr_pool /\ undelivered' = undelivered
    BY <1>u
  <2>5. main.pc = "defer" => thr_pool /\ conn'[main.conn].at = "accepting"
    <3>1. main.pc = "defer" => thr_pool /\ conn[main.conn].at = "accepting"
      BY DEF Inv, DeferInv
    <3>2. \A d \in Conns : d # c => conn'[d] = conn[d]
      BY <1>8, Zenon
    <3> QED
      BY <2>2, <3>1, <3>2, Zenon
  <2> QED
    BY <2>2, <2>3, <2>4, <2>5, Zenon DEF DeferInv
<1>13. WorkInv'
  <2>1. worker' = worker /\ req' = req
    BY <1>u, Zenon
  <2>2. \A d \in Conns : d # c => conn'[d] = conn[d]
    BY <1>8
  <2>3. \A f \in Executors : worker[f].pc # "idle" => worker[f].conn # c
    BY <1>7, WorkingThread DEF Working
  <2>4. WorkInv
    BY Zenon DEF Inv
  <2> QED
    BY <2>1, <2>2, <2>3, <2>4, <1>3, WorkConn
<1>14. ShutdownInv'
  <2>1. \A u \in Threads : queue'[u] # << >> => thr_pool
    BY <1>4, SMTT(30)
  <2>2. \A d \in Conns : conn'[d].at = "active" => (conn'[d].by = Main <=> ~thr_pool)
    BY <1>1, <1>4, <1>8 DEF Inv, ShutdownInv
  <2> QED
    BY <1>4, <2>1, <2>2, <1>u DEF Inv, ShutdownInv
<1> QED
  BY <1>9, <1>10, <1>11, <1>12, <1>13, <1>14 DEF Inv

\* evthr_defer and the end of htp__accept_cb_: whichever way it ends, the connection
\* is in one queue, or freed, or both when the wakeup failed.
LEMMA AcceptDeferInv == ASSUME Inv, AcceptDefer PROVE Inv'
<1> DEFINE c == main.conn
<1>t. TypeOK
  BY DEF Inv
<1>1. main.pc = "defer" /\ c \in Conns /\ conn[c].at = "accepting" /\ thr_pool
  BY DEF Inv, DeferInv, AcceptDefer
<1>2. /\ \A t \in Threads : \A i \in DOMAIN queue[t] : queue[t][i] # c
      /\ \A e \in Executors : worker[e].pc # "idle" => worker[e].conn # c
      /\ c \notin undelivered /\ req[c] = NoRequest
  <2> HIDE DEF c
  <2> QED
    BY <1>1, NobodyHas, Zenon
<1>3. conn[c] \in ConnRecords /\ conn[c].closes = 0 /\ ~conn[c].bev
  <2> HIDE DEF c
  <2> QED
    BY <1>1, NobodyHas, Zenon
<1>4. /\ main \in Mains /\ conn \in [Conns -> ConnRecords] /\ queue \in [Threads -> Seq(Conns)]
      /\ next_choice \in Nat /\ tail \in [Threads -> Nat] /\ call \in [Callers -> Calls]
      /\ undelivered \subseteq Conns /\ Main \in Callers
  BY <1>t, CallersAssumption DEF TypeOK
<1>5. \E t \in Threads : Deliver(t)
  <2>1. call[Main].i \in Threads
    BY <1>4 DEF Calls
  <2>2. SecondIndex(call[Main].i) \in Threads
    BY <2>1, SecondIndexType
  <2> QED
    BY <2>1, <2>2 DEF AcceptDefer
<1>6. next_choice' \in Nat /\ tail' \in [Threads -> Nat] /\ call' \in [Callers -> Calls]
  BY <1>4, PoolType, SMTT(30) DEF AcceptDefer
<1>7. main' \in Mains /\ main'.pc = "loop"
  BY <1>4, Zenon DEF AcceptDefer, Mains
<1>u. UNCHANGED <<listener, worker, thread, app, thr_pool, lock, requests, req, allocated, callbacks>>
  BY DEF AcceptDefer, shared_vars
<1>8. PICK t \in Threads : Deliver(t)
  BY <1>5
<1> DEFINE queued == queue' = [queue EXCEPT ![t] = Append(@, c)]
<1>9. \/ queued /\ conn' = [conn EXCEPT ![c].at = "queued"] /\ UNCHANGED undelivered
      \/ UNCHANGED <<queue, undelivered>> /\ conn' = [conn EXCEPT ![c] = ConnectionFree(CloseSocket(@))]
      \/ /\ queued /\ conn' = [conn EXCEPT ![c] = ConnectionFree(CloseSocket(@))]
         /\ undelivered' = undelivered \cup {c}
  BY <1>8 DEF Deliver
<1> HIDE DEF c
<1>10. /\ conn' \in [Conns -> ConnRecords] /\ \A d \in Conns : d # c => conn'[d] = conn[d]
       /\ \/ /\ conn'[c].at = "queued" /\ conn'[c].closes = 0 /\ conn'[c].bev = FALSE
             /\ queued /\ UNCHANGED undelivered
          \/ /\ conn'[c].at = "freed" /\ conn'[c].closes = 1 /\ conn'[c].bev = FALSE
             /\ UNCHANGED <<queue, undelivered>>
          \/ /\ conn'[c].at = "freed" /\ conn'[c].closes = 1 /\ conn'[c].bev = FALSE
             /\ queued /\ undelivered' = undelivered \cup {c}
  <2> HIDE DEF queued
  <2>1. CASE conn' = [conn EXCEPT ![c].at = "queued"]
    <3> DEFINE k == [conn[c] EXCEPT !.at = "queued"]
    <3>1. k \in ConnRecords /\ k.at = "queued" /\ k.closes = 0 /\ k.bev = FALSE
      BY <1>3 DEF ConnRecords
    <3>2. conn' = [conn EXCEPT ![c] = k]
      BY <2>1, <1>1, <1>4
    <3> HIDE DEF k
    <3>3. conn' \in [Conns -> ConnRecords] /\ conn'[c] = k /\ \A d \in Conns : d # c => conn'[d] = conn[d]
      BY <3>1, <3>2, <1>1, <1>4
    <3>4. \/ queued /\ UNCHANGED undelivered
          \/ conn' = [conn EXCEPT ![c] = ConnectionFree(CloseSocket(@))]
      BY <1>9
    <3>5. conn' # [conn EXCEPT ![c] = ConnectionFree(CloseSocket(@))]
      <4>1. ConnectionFree(CloseSocket(conn[c])).at = "freed"
        BY <1>3, FreeUnserved
      <4> QED
        BY <4>1, <3>1, <3>3, <1>1, <1>4
    <3> QED
      BY <3>1, <3>3, <3>4, <3>5, Zenon
  <2>2. CASE conn' = [conn EXCEPT ![c] = ConnectionFree(CloseSocket(@))]
    <3> DEFINE k == ConnectionFree(CloseSocket(conn[c]))
    <3>1. k \in ConnRecords /\ k.at = "freed" /\ k.closes = 1 /\ k.bev = FALSE
      BY <1>3, FreeUnserved
    <3>2. conn' = [conn EXCEPT ![c] = k]
      BY <2>2, <1>1, <1>4
    <3> HIDE DEF k
    <3>3. conn' \in [Conns -> ConnRecords] /\ conn'[c] = k /\ \A d \in Conns : d # c => conn'[d] = conn[d]
      BY <3>1, <3>2, <1>1, <1>4
    <3>4. \/ UNCHANGED <<queue, undelivered>>
          \/ queued /\ undelivered' = undelivered \cup {c}
          \/ conn' = [conn EXCEPT ![c].at = "queued"]
      BY <1>9
    <3>5. conn' # [conn EXCEPT ![c].at = "queued"]
      <4>1. [conn EXCEPT ![c].at = "queued"][c].at = "queued"
        BY <1>1, <1>3, <1>4 DEF ConnRecords
      <4> QED
        BY <4>1, <3>1, <3>3, Zenon
    <3> QED
      BY <3>1, <3>3, <3>4, <3>5
  <2> QED
    BY <1>9, <2>1, <2>2, Zenon
<1>11. /\ queue' \in [Threads -> Seq(Conns)] /\ undelivered' \subseteq Conns
  BY <1>1, <1>4, <1>10, AppendQueue, Zenon
<1>12. TypeOK'
  BY <1>t, <1>6, <1>7, <1>10, <1>11, <1>u, Zenon DEF TypeOK
<1>13. AtOnePlace'
  <2>q. \A u \in Threads : \A i \in DOMAIN queue[u] : queue[u][i] \in Conns
    BY <1>t, QueuedConns, Zenon
  <2>d. req' = req /\ \A d \in Conns : d # c => conn'[d] = conn[d] /\ req'[d] = req[d]
    BY <1>10, <1>u, Zenon
  <2>p. /\ req'[c] = NoRequest /\ conn'[c].bev = FALSE
        /\ \/ conn'[c].at = "queued" /\ conn'[c].closes = 0
           \/ conn'[c].at = "freed" /\ conn'[c].closes = 1
    BY <1>2, <1>10, <2>d, Zenon
  <2>1. CASE UNCHANGED <<queue, undelivered>>
    <3> HIDE DEF queued
    <3>1. conn'[c].at # "queued"
      <4>1. SUFFICES ASSUME conn'[c].at = "queued" PROVE FALSE
        OBVIOUS
      <4>2. queued
        BY <4>1, <1>10, Zenon
      <4>3. Len(queue[t]) + 1 \in DOMAIN queue'[t] /\ queue'[t][Len(queue[t]) + 1] = c
        BY <4>2, <1>1, <1>4, AppendQueue DEF queued
      <4> QED
        BY <4>3, <2>1, <1>2
    <3> QED
      <4>1. AtOnePlace /\ c \in Conns /\ conn[c].at = "accepting"
        BY <1>1 DEF Inv
      <4> QED
        BY <4>1, <2>p, <2>q, <2>d, <2>1, <3>1, OnceStep
  <2>2. CASE queued
    <3>1. /\ \A u \in Threads : \A i \in DOMAIN queue'[u] :
               \/ u = t /\ i = Len(queue[t]) + 1 /\ queue'[u][i] = c
               \/ i \in DOMAIN queue[u] /\ queue'[u][i] = queue[u][i]
          /\ \A u \in Threads : \A i \in DOMAIN queue[u] :
               i \in DOMAIN queue'[u] /\ queue'[u][i] = queue[u][i]
          /\ Len(queue[t]) + 1 \in DOMAIN queue'[t] /\ queue'[t][Len(queue[t]) + 1] = c
      BY <2>2, <1>1, <1>4, AppendQueue
    <3> HIDE DEF queued
    <3>2. QueuedOnce'
      <4>1. QueuedOnce
        BY DEF Inv, AtOnePlace
      <4> QED
        BY <4>1, <3>1, <1>2 DEF QueuedOnce
    <3>3. QueuedWait'
      <4> SUFFICES ASSUME NEW u \in Threads, NEW i \in DOMAIN queue'[u] PROVE Waiting(queue[u][i])'
        BY Zenon DEF QueuedWait
      <4> DEFINE d == queue'[u][i]
      <4>1. CASE d = c
        <5>1. \/ conn'[c].at = "queued" /\ undelivered' = undelivered
              \/ conn'[c].at = "freed" /\ undelivered' = undelivered \cup {c}
              \/ queue' = queue
          BY <1>10, Zenon
        <5>2. queue' # queue
          BY <3>1, <1>2, Zenon
        <5> QED
          BY <4>1, <5>1, <5>2, <1>2, Zenon DEF Waiting
      <4>2. CASE d # c
        <5>1. i \in DOMAIN queue[u] /\ d = queue[u][i] /\ d \in Conns
          BY <4>2, <3>1, <2>q, Zenon
        <5>2. conn'[d] = conn[d] /\ (d \in undelivered' <=> d \in undelivered)
          BY <4>2, <5>1, <1>10, Zenon
        <5>3. Waiting(queue[u][i])
          BY <5>1 DEF Inv, AtOnePlace, QueuedWait
        <5> QED
          BY <5>1, <5>2, <5>3, Zenon DEF Waiting
      <4> QED
        BY <4>1, <4>2
    <3>4. ASSUME NEW d \in Conns PROVE Placed(d)'
      <4>1. CASE d = c
        <5>1. InQueue(d)'
          BY <4>1, <3>1, Zenon DEF InQueue
        <5> QED
          BY <4>1, <5>1, <2>p, Zenon DEF Placed
      <4>2. CASE d # c
        <5>1. Placed(d) /\ conn'[d] = conn[d] /\ req'[d] = req[d]
          BY <4>2, <2>d, PlacedConn, Zenon
        <5>2. InQueue(d) => InQueue(d)'
          BY <3>1 DEF InQueue
        <5> QED
          BY <5>1, <5>2, Zenon DEF Placed
      <4> QED
        BY <4>1, <4>2, Zenon
    <3> QED
      BY <3>2, <3>3, <3>4, Zenon DEF AtOnePlace
  <2> QED
    BY <2>1, <2>2, <1>10
<1>14. ListsIntact' /\ LockInv'
  <2>1. main.pc # "freed" /\ main'.pc \notin {"freeing", "freed"}
    BY <1>1, <1>7, Zenon
  <2> QED
    BY <2>1, <1>u, SharedFrame, LockFrame DEF Inv
<1>15. DeferInv'
  <2> HIDE DEF queued
  <2> QED
    BY <1>2, <1>7, <1>10, Zenon DEF Inv, DeferInv
<1>16. WorkInv'
  <2>1. WorkInv /\ UNCHANGED <<worker, req>>
    BY <1>u, Zenon DEF Inv
  <2>2. \A d \in Conns : d # c => conn'[d] = conn[d]
    BY <1>10, Zenon
  <2> QED
    BY <2>1, <2>2, <1>1, <1>2, WorkConn
<1>17. ShutdownInv'
  <2> HIDE DEF queued
  <2> QED
    BY <1>1, <1>7, <1>10, <1>u DEF Inv, ShutdownInv
<1> QED
  BY <1>12, <1>13, <1>14, <1>15, <1>16, <1>17 DEF Inv

\* htp__accept_cb_
LEMMA AcceptInv == ASSUME Inv, NEW c \in Conns, Accept(c) PROVE Inv'
<1>t. TypeOK
  BY DEF Inv
<1>1. main.pc = "loop" /\ conn[c].at = "none" /\ worker[Main].pc = "idle"
  BY DEF Accept
<1>2. /\ \A t \in Threads : \A i \in DOMAIN queue[t] : queue[t][i] # c
      /\ \A e \in Executors : worker[e].pc # "idle" => worker[e].conn # c
      /\ c \notin undelivered /\ req[c] = NoRequest /\ conn[c].closes = 0 /\ conn[c].bev = FALSE
      /\ conn[c] \in ConnRecords
  BY <1>1, NobodyHas, Zenon
<1>3. conn \in [Conns -> ConnRecords] /\ main \in Mains
  BY <1>t DEF TypeOK
<1>4. /\ next_choice' \in Nat /\ tail' \in [Threads -> Nat] /\ call' \in [Callers -> Calls]
      /\ conn' \in [Conns -> ConnRecords] /\ main' \in Mains
      /\ \A d \in Conns : d # c => conn'[d] = conn[d]
      /\ \/ /\ conn'[c].at = "nomem" /\ conn'[c].closes = 0 /\ conn'[c].bev = FALSE
            /\ main'.pc = "loop"
         \/ /\ conn'[c].at = "accepting" /\ conn'[c].closes = 0 /\ conn'[c].bev = FALSE
            /\ main'.pc = "defer" /\ main'.conn = c /\ thr_pool
         \/ /\ conn'[c].at = "freed" /\ conn'[c].closes = 1 /\ conn'[c].bev = FALSE
            /\ main'.pc = "loop"
         \/ /\ conn'[c].at = "active" /\ conn'[c].closes = 0 /\ conn'[c].bev = TRUE /\ conn'[c].by = Main
            /\ main'.pc = "loop" /\ ~thr_pool
  <2>p. next_choice \in Nat /\ tail \in [Threads -> Nat] /\ call \in [Callers -> Calls] /\ Main \in Callers
    BY <1>t, CallersAssumption DEF TypeOK
  <2>1. CASE conn' = [conn EXCEPT ![c].at = "nomem"] /\ UNCHANGED <<pool_vars, main>>
    <3>1. conn' \in [Conns -> ConnRecords] /\ \A d \in Conns : d # c => conn'[d] = conn[d]
      BY <2>1, <1>2, <1>3 DEF ConnRecords
    <3>2. conn'[c].at = "nomem" /\ conn'[c].closes = 0 /\ conn'[c].bev = FALSE
      BY <2>1, <1>2, <1>3 DEF ConnRecords
    <3> QED
      BY <2>1, <2>p, <3>1, <3>2, <1>1, <1>3 DEF pool_vars
  <2>2. CASE /\ thr_pool /\ Ticket(Main) /\ main' = [main EXCEPT !.pc = "defer", !.conn = c]
             /\ conn' = [conn EXCEPT ![c].at = "accepting"]
    <3>1. conn' \in [Conns -> ConnRecords] /\ \A d \in Conns : d # c => conn'[d] = conn[d]
      BY <2>2, <1>2, <1>3 DEF ConnRecords
    <3>2. conn'[c].at = "accepting" /\ conn'[c].closes = 0 /\ conn'[c].bev = FALSE
      BY <2>2, <1>2, <1>3 DEF ConnRecords
    <3>3. main' \in Mains /\ main'.pc = "defer" /\ main'.conn = c
      BY <2>2, <1>3, Zenon DEF Mains
    <3>4. next_choice' \in Nat /\ tail' \in [Threads -> Nat] /\ call' \in [Callers -> Calls]
      BY <2>p, <2>2, PoolType, Zenon
    <3> QED
      BY <2>2, <3>1, <3>2, <3>3, <3>4
  <2>3. CASE /\ ~thr_pool /\ UNCHANGED <<pool_vars, main>>
             /\ \E k \in Accepted(conn[c], Main) : conn' = [conn EXCEPT ![c] = k]
    <3>1. PICK k \in Accepted(conn[c], Main) : conn' = [conn EXCEPT ![c] = k]
      BY <2>3, Zenon
    <3>2. Main \in Executors
      BY Zenon DEF Executors
    <3>3. /\ k \in ConnRecords
          /\ \/ k.at = "freed" /\ k.closes = 1 /\ k.bev = FALSE
             \/ k.at = "active" /\ k.closes = 0 /\ k.bev = TRUE /\ k.by = Main
      <4>1. conn[c] \in ConnRecords /\ conn[c].closes = 0 /\ ~conn[c].bev
        BY <1>2
      <4>2. k \in Accepted(conn[c], Main)
        BY <3>1
      <4> HIDE <3>1
      <4> QED
        BY <4>1, <4>2, <3>2, AcceptedOnce, Zenon
    <3>4. conn' \in [Conns -> ConnRecords] /\ conn'[c] = k /\ \A d \in Conns : d # c => conn'[d] = conn[d]
      BY <3>1, <3>3, <1>3
    <3> QED
      BY <2>p, <2>3, <3>3, <3>4, <1>1, <1>3 DEF pool_vars
  <2> QED
    BY <2>1, <2>2, <2>3, Zenon DEF Accept
<1>u. UNCHANGED <<listener, queue, undelivered, worker, thread, app, thr_pool,
                  lock, requests, req, allocated, callbacks>>
  BY Zenon DEF Accept, shared_vars
<1>5. TypeOK'
  BY <1>t, <1>4, <1>u, Zenon DEF TypeOK
<1>6. AtOnePlace'
  <2>1. AtOnePlace /\ UNCHANGED <<queue, undelivered, req>>
    BY <1>u, Zenon DEF Inv
  <2>2. /\ req'[c] = NoRequest
        /\ \/ conn'[c].at \in {"nomem", "accepting"} /\ conn'[c].closes = 0 /\ ~conn'[c].bev
           \/ conn'[c].at = "freed" /\ conn'[c].closes = 1 /\ ~conn'[c].bev
           \/ conn'[c].at = "active" /\ conn'[c].closes = 0 /\ conn'[c].bev
    BY <2>1, <1>2, <1>4, Zenon
  <2>3. conn[c].at = "none" /\ \A d \in Conns : d # c => conn'[d] = conn[d]
    BY <1>1, <1>4, Zenon
  <2> QED
    BY <2>1, <2>2, <2>3, <1>t, QueuedConns, OnceStep
<1>7. ListsIntact'
  <2>1. main.pc # "freed" /\ main'.pc \notin {"freeing", "freed"}
    BY <1>1, <1>4
  <2> QED
    BY <2>1, <1>u, SharedFrame, Zenon DEF Inv
<1>8. LockInv'
  BY <1>u, LockFrame, Zenon DEF Inv
<1>9. DeferInv'
  BY <1>1, <1>2, <1>4, <1>u, Zenon DEF Inv, DeferInv
<1>10. WorkInv'
  <2>1. WorkInv /\ UNCHANGED <<worker, req>>
    BY <1>u, Zenon DEF Inv
  <2>2. \A d \in Conns : d # c => conn'[d] = conn[d]
    BY <1>4, Zenon
  <2> QED
    BY <2>1, <2>2, <1>2, WorkConn
<1>11. ShutdownInv'
  BY <1>1, <1>4, <1>u DEF Inv, ShutdownInv
<1> QED
  BY <1>5, <1>6, <1>7, <1>8, <1>9, <1>10, <1>11 DEF Inv

-----------------------------------------------------------------------------
(* htp->requests, under the lock *)

\* TAILQ_FIRST and TAILQ_REMOVE, or a new request: it was nobody's.
LEMMA GetRequestInv ==
    ASSUME Inv, NEW e \in Executors, GetRequest(e)
    PROVE  Inv'
<1> DEFINE c == worker[e].conn
           r == IF requests = << >> THEN allocated + 1 ELSE Head(requests)
<1>t. TypeOK
  BY DEF Inv
<1>g. worker[e].pc = "getting"
  BY Zenon DEF GetRequest
<1>1. /\ lock = e /\ worker[e].seen = requests /\ main.pc \notin {"freeing", "freed"}
      /\ c \in Conns /\ conn[c].at = "active" /\ conn[c].by = e
      /\ \A f \in Executors : f # e => worker[f].pc \notin {"getting", "putting"}
      /\ \A f \in Executors : (f # e /\ worker[f].pc # "idle") => worker[f].conn # c
      /\ app.pc = "idle"
  BY <1>g, InsideLock, Zenon
<1>2. req[c] = NoRequest
  BY <1>g, WorkingThread, Zenon DEF Working
<1>3. /\ requests' = IF requests = << >> THEN requests ELSE Tail(requests)
      /\ allocated' = IF requests = << >> THEN allocated + 1 ELSE allocated
      /\ req' = [req EXCEPT ![c] = r]
      /\ lock' = NoOne
      /\ worker' = [worker EXCEPT ![e] = Idle]
  <2>1. worker[e].seen = requests
    BY <1>1, Zenon
  <2> QED
    BY <2>1, Zenon DEF GetRequest
<1>u. UNCHANGED <<next_choice, tail, call, listener, conn, queue, undelivered, thread, main, app, thr_pool, callbacks>>
  BY DEF GetRequest, pool_vars
<1>4. requests \in Seq(Nat) /\ allocated \in Nat /\ req \in [Conns -> Nat] /\ worker \in [Executors -> Workers]
  BY <1>t, Zenon DEF TypeOK
<1>5. /\ { requests[i] : i \in DOMAIN requests } \cup Used = 1 .. allocated
      /\ \A i \in DOMAIN requests : requests[i] \notin Used
      /\ \A i, j \in DOMAIN requests : i # j => requests[i] # requests[j]
      /\ callbacks = app.registered
  BY <1>1 DEF Inv, ListsIntact
<1>6. r \in Nat /\ r # NoRequest /\ r \notin Used
  <2>1. CASE requests = << >>
    BY <2>1, <1>4, <1>5 DEF NoRequest
  <2>2. CASE requests # << >>
    <3>1. 1 \in DOMAIN requests /\ r = requests[1]
      BY <2>2, <1>4
    <3> QED
      BY <3>1, <1>4, <1>5 DEF NoRequest
  <2> QED
    BY <2>1, <2>2
<1> HIDE DEF c, r
<1>7. /\ req'[c] = r /\ \A d \in Conns : d # c => req'[d] = req[d]
      /\ worker'[e] = Idle /\ \A f \in Executors : f # e => worker'[f] = worker[f]
  BY <1>1, <1>3, <1>4, Zenon
<1>8. Used' = Used \cup {r}
  BY <1>1, <1>2, <1>6, <1>7 DEF Used
<1>9. /\ { requests'[i] : i \in DOMAIN requests' } \cup {r} =
            { requests[i] : i \in DOMAIN requests } \cup {r}
      /\ \A i \in DOMAIN requests' : requests'[i] # r
      /\ \A i \in DOMAIN requests' : \E j \in DOMAIN requests : requests'[i] = requests[j]
      /\ \A i, j \in DOMAIN requests' : i # j => requests'[i] # requests'[j]
      /\ { requests[i] : i \in DOMAIN requests } \cup {r} \cup Used = 1 .. allocated'
  <2>1. CASE requests = << >>
    <3>1. requests' = << >> /\ DOMAIN requests' = {} /\ allocated' = allocated + 1 /\ r = allocated + 1
      BY <2>1, <1>3 DEF r
    <3> QED
      BY <3>1, <2>1, <1>4, <1>5
  <2>2. CASE requests # << >>
    <3>1. /\ requests' = Tail(requests) /\ allocated' = allocated /\ r = requests[1]
          /\ DOMAIN requests = 1 .. Len(requests) /\ Len(requests) \in Nat \ {0}
          /\ DOMAIN requests' = 1 .. Len(requests) - 1
          /\ \A i \in DOMAIN requests' : requests'[i] = requests[i + 1]
      BY <2>2, <1>3, <1>4 DEF r
    <3>2. \A i \in DOMAIN requests' : i + 1 \in DOMAIN requests /\ i + 1 # 1
      BY <3>1
    <3>3. \A j \in DOMAIN requests : j = 1 \/ (j - 1 \in DOMAIN requests' /\ requests[j] = requests'[j - 1])
      <4> SUFFICES ASSUME NEW j \in DOMAIN requests, j # 1
                   PROVE  j - 1 \in DOMAIN requests' /\ requests[j] = requests'[j - 1]
        OBVIOUS
      <4>1. j \in Nat /\ j - 1 \in 1 .. Len(requests) - 1 /\ (j - 1) + 1 = j
        BY <3>1
      <4> QED
        BY <3>1, <4>1, Zenon
    <3>4. r \in { requests[i] : i \in DOMAIN requests }
      BY <3>1
    <3>5. \A i, j \in DOMAIN requests' : i # j => requests'[i] # requests'[j]
      BY <3>1, <3>2, <1>5
    <3>6. \A i \in DOMAIN requests' : requests'[i] # r
      BY <3>1, <3>2, <1>5
    <3>7. { requests'[i] : i \in DOMAIN requests' } \cup {r} = { requests[i] : i \in DOMAIN requests } \cup {r}
      BY <3>1, <3>2, <3>3
    <3> QED
      BY <3>1, <3>2, <3>4, <3>5, <3>6, <3>7, <1>5, Zenon
  <2> QED
    BY <2>1, <2>2, Zenon
<1>10. ListsIntact'
  <2>1. \A a, b \in Conns : (a # b /\ req'[a] # NoRequest) => req'[a] # req'[b]
    BY <1>1, <1>2, <1>6, <1>7 DEF Inv, ListsIntact, Used
  <2>2. \A i \in DOMAIN requests' : requests'[i] \notin Used'
    BY <1>5, <1>8, <1>9, Zenon
  <2>3. { requests'[i] : i \in DOMAIN requests' } \cup Used' = 1 .. allocated'
    BY <1>8, <1>9, Zenon
  <2> QED
    BY <1>1, <1>5, <1>9, <1>u, <2>1, <2>2, <2>3, Zenon DEF ListsIntact
<1>11. TypeOK'
  <2>1. requests' \in Seq(Nat)
    BY <1>3, <1>4
  <2>3. allocated' \in Nat
    BY <1>3, <1>4
  <2>4. req' \in [Conns -> Nat]
    BY <1>3, <1>4, <1>6, Zenon
  <2>2. Idle \in Workers
    <3> << >> \in Seq(Nat)
      OBVIOUS
    <3> QED
      BY DEF Idle, Workers
  <2> QED
    BY <1>t, <1>3, <1>4, <1>u, <2>1, <2>2, <2>3, <2>4 DEF TypeOK
<1>12. AtOnePlace' /\ DeferInv'
  <2>1. conn' = conn /\ queue' = queue /\ undelivered' = undelivered /\ main' = main /\ thr_pool' = thr_pool
    BY <1>u, Zenon
  <2>2. c \in Conns /\ conn[c].at = "active" /\ conn[c].closes = 0 /\ conn[c].bev
    BY <1>1, PlacedConn DEF Placed
  <2>3. AtOnePlace /\ DeferInv
    BY DEF Inv
  <2>4. AtOnePlace'
    BY <2>1, <2>2, <2>3, <1>t, <1>7, QueuedConns, OnceStep, Zenon
  <2> QED
    BY <2>1, <2>3, <2>4, DeferFrame
<1>13. WorkInv'
  <2>a. WorkInv
    BY DEF Inv
  <2>b. conn' = conn
    BY <1>u, Zenon
  <2>c. worker'[e].pc = "idle"
    BY <1>7 DEF Idle
  <2>1. WorkInv /\ conn' = conn /\ worker'[e].pc = "idle"
    BY <2>a, <2>b, <2>c, Zenon
  <2>2. \A f \in Executors : (f # e /\ worker[f].pc # "idle") => req'[worker[f].conn] = req[worker[f].conn]
    BY <1>1, <1>7, WorkingThread, Zenon DEF Working
  <2> QED
    BY <2>1, <2>2, <1>7, WorkStep
<1>14. LockInv'
  <2>1. lock' = NoOne /\ app.pc = "idle" /\ UNCHANGED <<app, callbacks>>
    BY <1>1, <1>3, <1>u, Zenon
  <2>2. \A f \in Executors : f # e => worker'[f] = worker[f] /\ worker[f].pc \notin {"getting", "putting"}
    BY <1>1, <1>7, Zenon
  <2> QED
    BY <2>1, <2>2, <1>7, UnlockStep
<1>15. ShutdownInv'
  <2>a. ShutdownInv
    BY DEF Inv
  <2>b. conn' = conn /\ UNCHANGED <<thread, thr_pool, queue, main, app>>
    BY <1>u
  <2>1. ShutdownInv /\ conn' = conn /\ UNCHANGED <<thread, thr_pool, queue, main, app>>
    BY <2>a, <2>b
  <2>2. worker'[e].pc = "idle"
    BY <1>7 DEF Idle
  <2> QED
    BY <2>1, <2>2, <1>7, ShutdownStep
<1> QED
  BY <1>10, <1>11, <1>12, <1>13, <1>14, <1>15, Zenon DEF Inv

\* TAILQ_INSERT_HEAD, and the rest of evhtp_connection_free: the request was in
\* nobody else's hands and not yet in the list.
LEMMA PutRequestInv ==
    ASSUME Inv, NEW e \in Executors, PutRequest(e)
    PROVE  Inv'
<1> DEFINE c == worker[e].conn
           r == req[c]
<1>t. TypeOK
  BY DEF Inv
<1>g. worker[e].pc = "putting"
  BY Zenon DEF PutRequest
<1>1. /\ lock = e /\ worker[e].seen = requests /\ main.pc \notin {"freeing", "freed"}
      /\ c \in Conns /\ conn[c].at = "active" /\ conn[c].by = e
      /\ \A f \in Executors : f # e => worker[f].pc \notin {"getting", "putting"}
      /\ \A f \in Executors : (f # e /\ worker[f].pc # "idle") => worker[f].conn # c
      /\ app.pc = "idle"
  BY <1>g, InsideLock, Zenon
<1>2. r # NoRequest
  BY <1>g, WorkingThread, Zenon DEF Working
<1>3. /\ requests' = <<r>> \o requests
      /\ req' = [req EXCEPT ![c] = NoRequest]
      /\ conn' = IF worker[e].close THEN [conn EXCEPT ![c] = ConnectionFree(@)] ELSE conn
      /\ lock' = NoOne
      /\ worker' = [worker EXCEPT ![e] = Idle]
  <2>1. worker[e].seen = requests
    BY <1>1
  <2> QED
    BY <2>1, Zenon DEF PutRequest
<1>u. UNCHANGED <<next_choice, tail, call, listener, queue, undelivered, thread, main, app, thr_pool, allocated, callbacks>>
  BY Zenon DEF PutRequest, pool_vars
<1>4. /\ requests \in Seq(Nat) /\ allocated \in Nat /\ req \in [Conns -> Nat]
      /\ worker \in [Executors -> Workers] /\ conn \in [Conns -> ConnRecords]
  BY <1>t, Zenon DEF TypeOK
<1>5. /\ { requests[i] : i \in DOMAIN requests } \cup Used = 1 .. allocated
      /\ \A i \in DOMAIN requests : requests[i] \notin Used
      /\ \A i, j \in DOMAIN requests : i # j => requests[i] # requests[j]
      /\ \A a, b \in Conns : (a # b /\ req[a] # NoRequest) => req[a] # req[b]
      /\ callbacks = app.registered
  BY <1>1, Zenon DEF Inv, ListsIntact
<1>6. r \in Nat /\ r \in Used
  BY <1>1, <1>2, <1>4, Zenon DEF Used
<1>7. /\ req'[c] = NoRequest /\ \A d \in Conns : d # c => req'[d] = req[d]
      /\ worker'[e] = Idle /\ \A f \in Executors : f # e => worker'[f] = worker[f]
  BY <1>1, <1>3, <1>4, Zenon
<1>8. Used' = Used \ {r}
  <2>1. ASSUME NEW x \in Used' PROVE x \in Used /\ x # r
    <3>1. PICK a \in Conns : x = req'[a] /\ x # NoRequest
      BY <2>1, Zenon DEF Used
    <3>2. a # c /\ x = req[a]
      BY <3>1, <1>7, Zenon
    <3> QED
      BY <1>1, <1>5, <3>1, <3>2 DEF Used
  <2>2. ASSUME NEW x \in Used, x # r PROVE x \in Used'
    <3>1. PICK a \in Conns : x = req[a] /\ x # NoRequest
      BY <2>2 DEF Used
    <3> QED
      BY <1>7, <2>2, <3>1, Zenon DEF Used
  <2> QED
    BY <2>1, <2>2, Zenon
<1>c. /\ conn' \in [Conns -> ConnRecords]
      /\ \A d \in Conns : d # c => conn'[d] = conn[d]
      /\ \/ conn'[c] = conn[c]
         \/ conn'[c].at = "freed" /\ conn'[c].closes = 1 /\ conn'[c].bev = FALSE
  <2>1. CASE worker[e].close
    <3>1. conn' = [conn EXCEPT ![c] = ConnectionFree(@)]
      BY <2>1, <1>3, Zenon
    <3> HIDE DEF c
    <3> QED
      BY <3>1, <1>1, FreeServed, Zenon
  <2>2. CASE ~worker[e].close
    BY <2>2, <1>3, <1>4, Zenon
  <2> QED
    BY <2>1, <2>2, Zenon
<1> HIDE DEF c, r
<1>9. /\ { requests'[i] : i \in DOMAIN requests' } = { requests[i] : i \in DOMAIN requests } \cup {r}
      /\ \A i, j \in DOMAIN requests' : i # j => requests'[i] # requests'[j]
      /\ \A i \in DOMAIN requests' : requests'[i] \notin Used \ {r}
  <2>1. /\ DOMAIN requests = 1 .. Len(requests) /\ Len(requests) \in Nat
        /\ DOMAIN requests' = 1 .. Len(requests) + 1
        /\ requests'[1] = r
        /\ \A i \in DOMAIN requests' : i # 1 => requests'[i] = requests[i - 1]
    BY <1>3, <1>4, <1>6
  <2>2. \A i \in DOMAIN requests' : i # 1 => i - 1 \in DOMAIN requests
    BY <2>1
  <2>3. 1 \in DOMAIN requests'
    BY <2>1
  <2>4. \A j \in DOMAIN requests : j + 1 \in DOMAIN requests' /\ requests'[j + 1] = requests[j]
    <3> SUFFICES ASSUME NEW j \in DOMAIN requests
                 PROVE  j + 1 \in DOMAIN requests' /\ requests'[j + 1] = requests[j]
      OBVIOUS
    <3>1. j \in Nat /\ j + 1 \in 1 .. Len(requests) + 1 /\ j + 1 # 1 /\ (j + 1) - 1 = j
      BY <2>1
    <3> QED
      BY <2>1, <3>1, Zenon
  <2>5. { requests'[i] : i \in DOMAIN requests' } = { requests[i] : i \in DOMAIN requests } \cup {r}
    BY <2>1, <2>2, <2>3, <2>4
  <2>6. \A i, j \in DOMAIN requests' : i # j => requests'[i] # requests'[j]
    <3> SUFFICES ASSUME NEW i \in DOMAIN requests', NEW j \in DOMAIN requests', i # j
                 PROVE  requests'[i] # requests'[j]
      OBVIOUS
    <3>1. CASE i = 1 \/ j = 1
      BY <3>1, <2>1, <2>2, <1>5, <1>6
    <3>2. CASE i # 1 /\ j # 1
      <4>1. i - 1 # j - 1
        BY <3>2, <2>1
      <4> QED
        BY <4>1, <3>2, <2>1, <2>2, <1>5
    <3> QED
      BY <3>1, <3>2
  <2>7. \A i \in DOMAIN requests' : requests'[i] \notin Used \ {r}
    BY <2>1, <2>2, <1>5, SMTT(30)
  <2> QED
    BY <2>5, <2>6, <2>7, Zenon
<1>10. ListsIntact'
  <2>1. \A a, b \in Conns : (a # b /\ req'[a] # NoRequest) => req'[a] # req'[b]
    <3> SUFFICES ASSUME NEW a \in Conns, NEW b \in Conns, a # b, req'[a] # NoRequest
                 PROVE  req'[a] # req'[b]
      OBVIOUS
    <3>1. a # c /\ req'[a] = req[a] /\ req[a] # req[b]
      BY <1>5, <1>7, Zenon
    <3> QED
      BY <1>7, <3>1, Zenon
  <2>2. { requests'[i] : i \in DOMAIN requests' } \cup Used' = 1 .. allocated'
    <3>1. allocated' = allocated
      BY <1>u, Zenon
    <3>2. { requests'[i] : i \in DOMAIN requests' } \cup Used' =
            { requests[i] : i \in DOMAIN requests } \cup Used
      BY <1>6, <1>8, <1>9, Zenon
    <3> QED
      BY <3>1, <3>2, <1>5
  <2> QED
    BY <1>1, <1>5, <1>8, <1>9, <1>u, <2>1, <2>2, Zenon DEF ListsIntact
<1>11. TypeOK'
  <2>1. requests' \in Seq(Nat)
    BY <1>3, <1>4, <1>6
  <2>2. Idle \in Workers
    <3> << >> \in Seq(Nat)
      OBVIOUS
    <3> QED
      BY DEF Idle, Workers
  <2>3. req' \in [Conns -> Nat]
    BY <1>3, <1>4, Zenon DEF NoRequest
  <2> QED
    BY <1>t, <1>3, <1>4, <1>c, <1>u, <2>1, <2>2, <2>3, Zenon DEF TypeOK
<1>12. AtOnePlace'
  <2>1. AtOnePlace /\ UNCHANGED <<queue, undelivered>>
    BY <1>u, Zenon DEF Inv
  <2>2. c \in Conns /\ conn[c].at = "active" /\ req'[c] = NoRequest
    BY <1>1, <1>7, Zenon
  <2>3. \/ conn'[c].at = "active" /\ conn'[c].closes = 0 /\ conn'[c].bev
        \/ conn'[c].at = "freed" /\ conn'[c].closes = 1 /\ ~conn'[c].bev
    <3>1. Placed(c)
      BY <2>2, PlacedConn, Zenon
    <3> QED
      BY <3>1, <2>2, <1>c, Zenon DEF Placed
  <2>4. \A d \in Conns : d # c => conn'[d] = conn[d] /\ req'[d] = req[d]
    BY <1>7, <1>c, Zenon
  <2> QED
    BY <2>1, <2>2, <2>3, <2>4, <1>t, QueuedConns, OnceStep
<1>a. c \in Conns /\ conn[c].at = "active" /\ main.pc \notin {"freeing", "freed"}
  BY <1>1, Zenon
<1>d. /\ \A d \in Conns : d # c => conn'[d] = conn[d]
      /\ conn'[c].at = "active" => conn'[c] = conn[c]
  BY <1>c, <1>a, Zenon
<1>w. \A f \in Executors : worker'[f].pc # "idle" => f # e /\ worker'[f] = worker[f]
  BY <1>7 DEF Idle
<1>v. UNCHANGED <<main, thr_pool, undelivered, thread, queue, app>>
  BY <1>u, Zenon
<1>13. DeferInv'
  BY <1>a, <1>d, <1>v DEF Inv, DeferInv
<1>14. WorkInv'
  <2>1. WorkInv /\ worker'[e].pc = "idle"
    BY <1>7 DEF Inv, Idle
  <2>2. \A f \in Executors : (f # e /\ worker[f].pc # "idle") => worker[f].conn \in Conns /\ worker[f].conn # c
    BY <1>1, WorkingThread, Zenon DEF Working
  <2>3. \A f \in Executors : (f # e /\ worker[f].pc # "idle") =>
          conn'[worker[f].conn] = conn[worker[f].conn] /\ req'[worker[f].conn] = req[worker[f].conn]
    BY <2>2, <1>7, <1>d, Zenon
  <2>4. \A f \in Executors : f # e => worker'[f] = worker[f]
    BY <1>7, Zenon
  <2> QED
    BY <2>1, <2>3, <2>4, WorkStep, Zenon
<1>15. LockInv'
  <2>1. lock' = NoOne /\ app.pc = "idle" /\ UNCHANGED <<app, callbacks>>
    BY <1>1, <1>3, <1>u, Zenon
  <2>2. \A f \in Executors : f # e => worker'[f] = worker[f] /\ worker[f].pc \notin {"getting", "putting"}
    BY <1>1, <1>7, Zenon
  <2> QED
    BY <2>1, <2>2, <1>7, UnlockStep, Zenon
<1>16. ShutdownInv'
  <2>1. \A d \in Conns : conn'[d].at = "active" => conn'[d] = conn[d]
    BY <1>d, SMTT(30)
  <2>2. \A t \in Threads : thread[t] = "exited" => worker'[t].pc = "idle"
    BY <1>w, Zenon DEF Inv, ShutdownInv, Executors
  <2> QED
    BY <2>1, <2>2, <1>a, <1>v, Zenon DEF Inv, ShutdownInv
<1> QED
  BY <1>10, <1>11, <1>12, <1>13, <1>14, <1>15, <1>16, Zenon DEF Inv

-----------------------------------------------------------------------------
(* Every step, and the theorems *)

\* A thread that has used a freed connection does not come back, and only
\* htp__run_in_thread_ on such a connection leads there.
LEMMA ThreadStep ==
    ASSUME thread \in [Threads -> {"run", "stop", "exited", "astray"}], [Next]_vars
    PROVE  /\ thread' \in [Threads -> {"run", "stop", "exited", "astray"}]
           /\ Defined' => Defined /\ \A t \in Threads : ~RunFreed(t)
<1> DEFINE Moved(t, v) == thread[t] \in {"run", "stop"} /\ thread' = [thread EXCEPT ![t] = v]
<1>1. ASSUME NEW t \in Threads, RunFreed(t) PROVE Moved(t, "astray")
  <2>1. t # Main
    BY CallersAssumption, Zenon
  <2> QED
    BY <1>1, <2>1, Zenon DEF RunFreed, Free
<1>2. ASSUME NEW t \in Threads, Exit(t) PROVE Moved(t, "exited")
  BY <1>2, Zenon DEF Exit
<1>3. StopThread => \E t \in Threads : Moved(t, "stop")
  BY Zenon DEF StopThread
<1>4. \/ thread' = thread \/ StopThread
      \/ \E t \in Threads : Exit(t) \/ RunFreed(t)
  <2>1. CASE UNCHANGED vars
    BY <2>1, Zenon DEF vars
  <2>2. CASE Bind \/ Unbind \/ \E c \in Conns : Accept(c)
    BY <2>2, Zenon DEF Bind, Unbind, Accept
  <2>3. CASE MainSteps \/ Choose(App)
    BY <2>3, Zenon DEF MainSteps, AcceptDefer, JoinThread, FreeHtp, Choose
  <2>4. CASE AppDefer \/ SetCb \/ AddCallback \/ EvhtpFree
    BY <2>4, Zenon DEF AppDefer, SetCb, AddCallback, EvhtpFree
  <2>5. CASE \E e \in Executors : Work(e)
    BY <2>5, Zenon DEF Work, LockRequests, GetRequest, PutRequest, RunInThread
  <2>6. CASE \E e \in Executors : \E c \in Conns :
               RequestNew(e, c) \/ Close(e, c) \/ \E close \in BOOLEAN : RequestFree(e, c, close)
    BY <2>6, Zenon DEF RequestNew, Close, RequestFree
  <2> QED
    BY <2>1, <2>2, <2>3, <2>4, <2>5, <2>6 DEF Next
<1>5. ASSUME NEW t \in Threads, NEW v \in {"stop", "exited", "astray"}, Moved(t, v)
      PROVE  /\ thread' \in [Threads -> {"run", "stop", "exited", "astray"}]
             /\ Defined' => Defined /\ v # "astray"
  BY <1>5 DEF Defined
<1>6. CASE thread' = thread
  <2>1. ASSUME NEW t \in Threads, RunFreed(t) PROVE FALSE
    BY <1>1, <1>6, <2>1
  <2> QED
    BY <1>6, <2>1 DEF Defined
<1>7. CASE \E t \in Threads, v \in {"stop", "exited", "astray"} : Moved(t, v)
  <2>1. ASSUME NEW t \in Threads, RunFreed(t), Defined' PROVE FALSE
    BY <1>1, <1>5, <2>1
  <2> QED
    BY <1>5, <1>7, <2>1
<1> QED
  BY <1>1, <1>2, <1>3, <1>4, <1>6, <1>7

\* No step of the main thread, a worker or the application breaks the invariant.
LEMMA NextInv == Inv /\ [Next]_vars /\ (\A t \in Threads : ~RunFreed(t)) => Inv'
<1> SUFFICES ASSUME Inv, [Next]_vars, \A t \in Threads : ~RunFreed(t) PROVE Inv'
  OBVIOUS
<1>0. CASE UNCHANGED vars
  <2>1. UNCHANGED <<next_choice, tail, call, main, listener, conn, queue, undelivered, worker, thread, app,
                    thr_pool, lock, requests, req, allocated, callbacks>>
    BY <1>0, Zenon DEF vars, shared_vars
  <2>2. TypeOK'
    BY <2>1 DEF Inv, TypeOK
  <2> QED
    BY <2>1, <2>2, OnceFrame, SharedFrame, DeferFrame, WorkFrame, LockFrame, ShutdownFrame, Zenon DEF Inv
<1>1. CASE Bind \/ Unbind \/ \E c \in Conns : Accept(c)
  BY <1>1, BindInv, AcceptInv, Zenon
<1>2. CASE MainSteps \/ Choose(App)
  <2> Main \in Callers /\ App \in Callers
    BY CallersAssumption
  <2> QED
    BY <1>2, AcceptDeferInv, StopExitInv, JoinThreadInv, FreeHtpInv, ChooseInv DEF MainSteps
<1>3. CASE AppDefer \/ SetCb \/ AddCallback \/ EvhtpFree
  BY <1>3, AppDeferInv, SetCbInv, AddCallbackInv, EvhtpFreeInv, Zenon
<1>4. CASE \E e \in Executors : Work(e)
  BY <1>4, LockRequestsInv, GetRequestInv, PutRequestInv, RunInThreadInv, StopExitInv, Zenon DEF Work
<1>5. CASE \E e \in Executors : \E c \in Conns :
             RequestNew(e, c) \/ Close(e, c) \/ \E close \in BOOLEAN : RequestFree(e, c, close)
  BY <1>5, RequestNewInv, CloseInv, RequestFreeInv
<1> QED
  BY <1>0, <1>1, <1>2, <1>3, <1>4, <1>5 DEF Next

\* The invariant holds of every server, however many threads, connections,
\* requests and callbacks it has, until a worker runs a connection that was freed.
THEOREM InvHolds == Spec => []DefinedInv
<1>1. Init => DefinedInv
  <2>1. ASSUME Init PROVE thread \in [Threads -> {"run", "stop", "exited", "astray"}]
    BY <2>1 DEF Init
  <2> QED
    BY <2>1, InitInv, Zenon DEF DefinedInv
<1>2. DefinedInv /\ [Next]_vars => DefinedInv'
  BY ThreadStep, NextInv, Zenon DEF DefinedInv
<1> QED
  BY <1>1, <1>2, PTL DEF Spec

\* A connection accepted by htp__accept_cb_ is at one place at a time, and its
\* socket is closed once, whatever evthr_pool_defer and the callbacks answer,
\* until a worker runs a connection freed after its wakeup failed (evhtp.c:3368).
THEOREM ConnectionOnceHolds == Spec => []ConnectionOnce
<1>1. DefinedInv => ConnectionOnce
  BY DEF DefinedInv, Inv, ConnectionOnce
<1> QED
  BY <1>1, InvHolds, PTL

\* htp->requests and htp->callbacks survive what workers and the application do at
\* the same time, and evhtp_free frees them when no thread can use them any more,
\* as long as no worker has run a freed connection.
THEOREM SharedIntactHolds == Spec => []SharedIntact
<1>1. DefinedInv => SharedIntact
  BY DEF DefinedInv, Inv, SharedIntact
<1> QED
  BY <1>1, InvHolds, PTL

=============================================================================

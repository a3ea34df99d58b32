---------------------------- MODULE ServerLemmas ----------------------------
(****************************************************************************)
(* What the proofs about Server share: the steps of evthr_pool_defer, which *)
(* conjuncts of Inv a step that leaves their variables alone keeps, and     *)
(* facts about connections that are queued, served or freed.  Inv is kept   *)
(* when the application registers callbacks, and by evhtp_free:             *)
(* evthr_pool_stop tells and joins one thread after the other before        *)
(* anything shared is freed.  It is kept when a request of a connection     *)
(* begins or ends, a connection closes, and a thread takes htp->lock.       *)
(****************************************************************************)
EXTENDS Server, TLAPS

\* get_second_index_ names a thread of the pool.
LEMMA SecondIndexType == \A i \in Threads : SecondIndex(i) \in Threads
BY NAssumption DEF Threads, SecondIndex

\* evthr_pool_defer keeps the types of what it works on.
LEMMA PoolType ==
    ASSUME NEW p \in Callers, next_choice \in Nat, tail \in [Threads -> Nat], call \in [Callers -> Calls],
           Ticket(p) \/ LoadA(p) \/ LoadB(p) \/ SendA(p) \/ SendB(p)
    PROVE  next_choice' \in Nat /\ tail' \in [Threads -> Nat] /\ call' \in [Callers -> Calls]
<1> call[p] \in Calls
  OBVIOUS
<1>1. CASE Ticket(p)
  <2>1. (next_choice + 1) % TicketMod \in Nat /\ next_choice % N \in Threads /\ 0 \in Threads
    BY NAssumption, BoundsAssumption DEF Threads
  <2>2. [NoCall EXCEPT !.pc = "loadA", !.i = next_choice % N] \in Calls
    BY <2>1, Zenon DEF NoCall, Calls
  <2> QED
    BY <1>1, <2>1, <2>2 DEF Ticket
<1>2. CASE LoadA(p)
  BY <1>2 DEF LoadA, Calls
<1>3. CASE LoadB(p)
  <2> SecondIndex(call[p].i) \in Threads
    BY SecondIndexType DEF Calls
  <2> QED
    BY <1>3 DEF LoadB, Calls
<1>4. CASE SendA(p) \/ SendB(p)
  <2> SecondIndex(call[p].i) \in Threads /\ call[p].i \in Threads
    BY SecondIndexType DEF Calls
  <2>1. NoCall \in Calls
    BY NAssumption DEF NoCall, Calls, Threads
  <2> QED
    BY <1>4, <2>1 DEF SendA, SendB, Send
<1> QED
  BY <1>1, <1>2, <1>3, <1>4

\* What a step that leaves its variables alone cannot break.
LEMMA TypeFrame ==
    ASSUME TypeOK, UNCHANGED <<thr_pool, listener, conn, queue, undelivered, worker, thread, shared_vars, app>>,
           next_choice' \in Nat, tail' \in [Threads -> Nat], call' \in [Callers -> Calls], main' \in Mains
    PROVE  TypeOK'
BY DEF TypeOK, shared_vars

\* The same of AtOnePlace: connections, queues and requests.
LEMMA OnceFrame ==
    ASSUME AtOnePlace, UNCHANGED <<conn, queue, undelivered, req>>
    PROVE  AtOnePlace'
<1>1. QueuedOnce' /\ QueuedWait'
  BY DEF AtOnePlace, QueuedOnce, QueuedWait, Waiting
<1>2. \A c \in Conns : Placed(c)'
  BY DEF AtOnePlace, Placed, InQueue
<1> QED
  BY <1>1, <1>2 DEF AtOnePlace

\* What AtOnePlace says of one connection.
LEMMA PlacedConn == ASSUME Inv, NEW c \in Conns PROVE Placed(c)
BY DEF Inv, AtOnePlace

\* Only one connection changes, and no queue: if it is in none or stays where it is,
\* AtOnePlace has to be shown for that connection only.
LEMMA OnceStep ==
    ASSUME AtOnePlace, NEW c \in Conns, UNCHANGED <<queue, undelivered>>,
           \A t \in Threads : \A i \in DOMAIN queue[t] : queue[t][i] \in Conns,
           \A d \in Conns : d # c => conn'[d] = conn[d] /\ req'[d] = req[d],
           conn'[c].at = conn[c].at \/ (conn[c].at \notin {"queued", "freed"} /\ conn'[c].at # "queued"),
           conn'[c].closes = IF conn'[c].at = "freed" THEN 1 ELSE 0,
           conn'[c].bev <=> conn'[c].at = "active",
           req'[c] # NoRequest => conn'[c].at = "active"
    PROVE  AtOnePlace'
<1>1. QueuedOnce'
  BY DEF AtOnePlace, QueuedOnce
<1>2. QueuedWait'
  <2> SUFFICES ASSUME NEW t \in Threads, NEW i \in DOMAIN queue[t] PROVE Waiting(queue[t][i])'
    BY DEF QueuedWait
  <2>1. queue[t][i] \in Conns /\ Waiting(queue[t][i])
    BY DEF AtOnePlace, QueuedWait
  <2>2. conn'[queue[t][i]].at = conn[queue[t][i]].at
    BY <2>1 DEF Waiting
  <2> QED
    BY <2>1, <2>2 DEF Waiting
<1>3. ASSUME NEW d \in Conns PROVE Placed(d)'
  <2>1. CASE d # c
    <3>1. Placed(d) /\ conn'[d] = conn[d] /\ req'[d] = req[d]
      BY <2>1 DEF AtOnePlace
    <3> QED
      BY <3>1 DEF Placed, InQueue
  <2>2. CASE d = c
    <3>1. Placed(c)
      BY DEF AtOnePlace
    <3> QED
      BY <2>2, <3>1 DEF Placed, InQueue
  <2> QED
    BY <2>1, <2>2
<1> QED
  BY <1>1, <1>2, <1>3 DEF AtOnePlace

\* The same of ListsIntact: the lists, the lock and the threads.
LEMMA SharedFrame ==
    ASSUME ListsIntact, UNCHANGED <<requests, req, allocated, callbacks, lock, worker>>,
           main'.pc = main.pc \/ (main.pc # "freed" /\ main'.pc \notin {"freeing", "freed"}),
           app'.registered = app.registered
    PROVE  ListsIntact'
<1>1. Used' = Used
  BY DEF Used
<1> QED
  BY <1>1 DEF ListsIntact

\* The same of DeferInv.
LEMMA DeferFrame ==
    ASSUME DeferInv, UNCHANGED <<conn, undelivered, thr_pool>>, main' = main \/ main'.pc # "defer"
    PROVE  DeferInv'
BY DEF DeferInv

\* The same of WorkInv.
LEMMA WorkFrame ==
    ASSUME WorkInv, UNCHANGED <<worker, conn, req>>
    PROVE  WorkInv'
BY DEF WorkInv, Working

\* What WorkInv says of one thread.
LEMMA WorkingThread == ASSUME Inv, NEW e \in Executors PROVE Working(e)
BY DEF Inv, WorkInv

\* A connection changes with which no thread is at work: WorkInv is kept.
LEMMA WorkConn ==
    ASSUME WorkInv, UNCHANGED <<worker, req>>, NEW c \in Conns,
           \A d \in Conns : d # c => conn'[d] = conn[d],
           \A e \in Executors : worker[e].pc # "idle" => worker[e].conn # c
    PROVE  WorkInv'
<1> SUFFICES ASSUME NEW e \in Executors PROVE Working(e)'
  BY DEF WorkInv
<1>1. Working(e)
  BY DEF WorkInv
<1>2. worker[e].pc # "idle" => worker[e].conn \in Conns /\ conn'[worker[e].conn] = conn[worker[e].conn]
  BY <1>1 DEF Working
<1> QED
  BY <1>1, <1>2 DEF Working

\* The same of LockInv.
LEMMA LockFrame ==
    ASSUME LockInv, UNCHANGED <<lock, worker, requests, app, callbacks>>
    PROVE  LockInv'
BY DEF LockInv

\* The same of ShutdownInv.
LEMMA ShutdownFrame ==
    ASSUME ShutdownInv, UNCHANGED <<thread, worker, conn, thr_pool, queue, main, app>>
    PROVE  ShutdownInv'
BY DEF ShutdownInv

\* One thread turns to another task, and nothing is being freed: ListsIntact speaks
\* of threads at work only when something is.
LEMMA SharedStep ==
    ASSUME ListsIntact, main.pc \notin {"freeing", "freed"},
           UNCHANGED <<main, app, requests, req, allocated, callbacks>>
    PROVE  ListsIntact'
<1>1. Used' = Used
  BY DEF Used
<1> QED
  BY <1>1 DEF ListsIntact

\* One thread turns to another task: WorkInv has to be shown for that thread only,
\* if the connections of the others stay as they are.
LEMMA WorkStep ==
    ASSUME WorkInv, NEW e \in Executors,
           \A f \in Executors : f # e => worker'[f] = worker[f],
           \A f \in Executors : (f # e /\ worker[f].pc # "idle") =>
             /\ conn'[worker[f].conn].at = conn[worker[f].conn].at
             /\ conn'[worker[f].conn].by = conn[worker[f].conn].by
             /\ req'[worker[f].conn] = req[worker[f].conn],
           worker'[e].pc # "idle" => /\ worker'[e].conn \in Conns
                                     /\ conn'[worker'[e].conn].at = "active"
                                     /\ conn'[worker'[e].conn].by = e,
           worker'[e].pc \in {"get", "getting"} => req'[worker'[e].conn] = NoRequest,
           worker'[e].pc \in {"put", "putting"} => req'[worker'[e].conn] # NoRequest
    PROVE  WorkInv'
<1> SUFFICES ASSUME NEW f \in Executors PROVE Working(f)'
  BY Zenon DEF WorkInv
<1>1. CASE f = e
  BY <1>1, Zenon DEF Working
<1>2. CASE f # e
  <2>1. Working(f)
    BY DEF WorkInv
  <2> QED
    BY <1>2, <2>1, Zenon DEF Working
<1> QED
  BY <1>1, <1>2, Zenon

\* A thread leaves the lock, inside which it was alone: LockInv is kept.
LEMMA UnlockStep ==
    ASSUME NEW e \in Executors, lock' = NoOne, app.pc = "idle", UNCHANGED <<app, callbacks>>,
           worker'[e] = Idle,
           \A f \in Executors : f # e => worker'[f] = worker[f] /\ worker[f].pc \notin {"getting", "putting"}
    PROVE  LockInv'
<1>1. NoOne \notin Executors /\ NoOne # App
  BY CallersAssumption DEF Executors
<1>2. worker'[e].pc \notin {"getting", "putting"}
  BY DEF Idle
<1>3. \A f \in Executors : worker'[f].pc \notin {"getting", "putting"}
  BY <1>2, Zenon
<1> QED
  BY <1>1, <1>3 DEF LockInv

\* One thread turns to another task, which it does only before it has left its loop:
\* ShutdownInv is kept.
LEMMA ShutdownStep ==
    ASSUME ShutdownInv, NEW e \in Executors,
           UNCHANGED <<thread, thr_pool, queue, main, app>>,
           \A d \in Conns : conn'[d].at = conn[d].at /\ conn'[d].by = conn[d].by,
           \A f \in Executors : f # e => worker'[f] = worker[f],
           worker'[e].pc = "idle" \/ (e \in Threads => thread[e] # "exited")
    PROVE  ShutdownInv'
<1>1. \A t \in Threads : thread'[t] = "exited" => worker'[t].pc = "idle"
  <2> SUFFICES ASSUME NEW t \in Threads, thread[t] = "exited"
               PROVE  worker'[t].pc = "idle"
    OBVIOUS
  <2>1. t \in Executors /\ worker[t].pc = "idle"
    BY DEF ShutdownInv, Executors
  <2> QED
    BY <2>1
<1> QED
  BY <1>1 DEF ShutdownInv

\* What lies in a queue are connections.
LEMMA QueuedConns ==
    ASSUME TypeOK
    PROVE  \A t \in Threads : \A i \in DOMAIN queue[t] : queue[t][i] \in Conns
<1> SUFFICES ASSUME NEW t \in Threads, NEW i \in DOMAIN queue[t] PROVE queue[t][i] \in Conns
  OBVIOUS
<1>1. queue[t] \in Seq(Conns)
  BY DEF TypeOK
<1> QED
  BY <1>1

\* A thread that is free to serve a connection is none that was stopped, and the
\* shared lists have not been freed under it.
LEMMA ServesAlive ==
    ASSUME Inv, NEW e \in Executors, NEW c \in Conns, Serves(e, c)
    PROVE  /\ main.pc \notin {"freeing", "freed"}
           /\ worker[e].pc = "idle" /\ conn[c].at = "active" /\ conn[c].by = e
           /\ e \in Threads => thread[e] # "exited"
<1>1. /\ worker[e].pc = "idle" /\ conn[c].at = "active" /\ conn[c].by = e
      /\ e \in Threads => thread[e] # "exited"
  BY CallersAssumption DEF Serves, Free
<1>2. main.pc \notin {"freeing", "freed"}
  BY <1>1 DEF Inv, ShutdownInv, Executors
<1> QED
  BY <1>1, <1>2

\* evhtp_connection_free of a connection that is served closes its socket for the
\* first time.
LEMMA FreeServed ==
    ASSUME Inv, NEW c \in Conns, conn[c].at = "active",
           conn' = [conn EXCEPT ![c] = ConnectionFree(@)]
    PROVE  /\ conn' \in [Conns -> ConnRecords]
           /\ conn'[c].at = "freed" /\ conn'[c].closes = 1 /\ conn'[c].bev = FALSE
           /\ \A d \in Conns : d # c => conn'[d] = conn[d]
<1>1. conn \in [Conns -> ConnRecords]
  BY DEF Inv, TypeOK
<1>2. conn[c].bev /\ conn[c].closes = 0
  BY PlacedConn DEF Placed
<1>3. conn[c] \in ConnRecords
  BY <1>1
<1> DEFINE k == conn[c]
           freed == [k EXCEPT !.at = "freed", !.closes = 1, !.bev = FALSE]
<1>4. ConnectionFree(k) = freed
  BY <1>2, <1>3 DEF ConnectionFree, ConnRecords
<1>5. freed \in ConnRecords /\ freed.at = "freed" /\ freed.closes = 1 /\ freed.bev = FALSE
  BY <1>3, Zenon DEF ConnRecords
<1> HIDE DEF freed
<1> QED
  BY <1>1, <1>4, <1>5

\* A server that is not bound yet, with every thread idle.
LEMMA InitInv == Init => Inv
<1> SUFFICES ASSUME Init PROVE Inv
  OBVIOUS
<1> USE NAssumption, CallersAssumption DEF Init, PoolInit, NoCall, Idle, NoRequest, Executors
<1>1. TypeOK
  BY DEF TypeOK, Calls, Mains, ConnRecords, Workers, Apps, Threads
<1>2. AtOnePlace
  <2>1. QueuedOnce /\ QueuedWait
    BY DEF QueuedOnce, QueuedWait
  <2>2. \A c \in Conns : Placed(c)
    BY Zenon DEF Placed
  <2> QED
    BY <2>1, <2>2, Zenon DEF AtOnePlace
<1>3. ListsIntact
  BY DEF ListsIntact, Used
<1>4. DeferInv /\ LockInv
  BY Zenon DEF DeferInv, LockInv
<1>5. WorkInv
  BY Zenon DEF WorkInv, Working
<1>6. ShutdownInv
  BY Zenon DEF ShutdownInv
<1> QED
  BY <1>1, <1>2, <1>3, <1>4, <1>5, <1>6 DEF Inv

\* evhtp_bind_sockaddr and evhtp_unbind_socket
LEMMA BindInv == ASSUME Inv, Bind \/ Unbind PROVE Inv'
<1>1. listener' \in {"none", "listening", "freed"}
  BY Zenon DEF Bind, Unbind
<1>u. UNCHANGED <<next_choice, tail, call, main, conn, queue, undelivered, worker, thread, app, thr_pool,
                  lock, requests, req, allocated, callbacks>>
  BY Zenon DEF Bind, Unbind, pool_vars, shared_vars
<1>2. TypeOK'
  BY <1>1, <1>u, Zenon DEF Inv, TypeOK
<1> QED
  BY <1>2, <1>u, OnceFrame, SharedFrame, DeferFrame, WorkFrame, LockFrame, ShutdownFrame DEF Inv

\* evthr_pool_defer loads and compares the backlogs.
LEMMA ChooseInv == ASSUME Inv, NEW p \in Callers, Choose(p) PROVE Inv'
<1>u. UNCHANGED <<main, listener, conn, queue, undelivered, worker, thread, app, thr_pool,
                  lock, requests, req, allocated, callbacks>>
  BY DEF Choose, shared_vars
<1>1. next_choice \in Nat /\ tail \in [Threads -> Nat] /\ call \in [Callers -> Calls] /\ main \in Mains
  BY DEF Inv, TypeOK
<1>2. next_choice' \in Nat /\ tail' \in [Threads -> Nat] /\ call' \in [Callers -> Calls]
  BY <1>1, PoolType DEF Choose
<1>3. TypeOK'
  BY <1>1, <1>2, <1>u, TypeFrame, Zenon DEF Inv, shared_vars
<1> QED
  BY <1>3, <1>u, OnceFrame, SharedFrame, DeferFrame, WorkFrame, LockFrame, ShutdownFrame DEF Inv

\* The application takes a ticket of evthr_pool_defer.
LEMMA AppDeferInv == ASSUME Inv, AppDefer PROVE Inv'
<1>u. UNCHANGED <<main, listener, conn, queue, undelivered, worker, thread, app, thr_pool,
                  lock, requests, req, allocated, callbacks>>
  BY DEF AppDefer, shared_vars
<1>1. next_choice \in Nat /\ tail \in [Threads -> Nat] /\ call \in [Callers -> Calls] /\ main \in Mains
  BY DEF Inv, TypeOK
<1>2. next_choice' \in Nat /\ tail' \in [Threads -> Nat] /\ call' \in [Callers -> Calls]
  BY <1>1, PoolType, CallersAssumption DEF AppDefer
<1>3. TypeOK'
  BY <1>1, <1>2, <1>u, TypeFrame DEF Inv, shared_vars
<1> QED
  BY <1>3, <1>u, OnceFrame, SharedFrame, DeferFrame, WorkFrame, LockFrame, ShutdownFrame DEF Inv

-----------------------------------------------------------------------------
(* callbacks, and evhtp_free *)

\* evhtp_set_cb takes the lock and reads the list of callbacks.
LEMMA SetCbInv == ASSUME Inv, SetCb PROVE Inv'
<1>t. TypeOK
  BY DEF Inv
<1> app \in Apps /\ callbacks \in Seq(Nat)
  BY <1>t DEF TypeOK
<1>1. /\ app.pc = "idle" /\ main.pc \in {"loop", "defer"} /\ lock = NoOne /\ lock' = App
      /\ app' = [app EXCEPT !.pc = "adding", !.seen = callbacks, !.calls = @ + 1]
  BY DEF SetCb, Lock
<1>2. app' \in Apps /\ app'.pc = "adding" /\ app'.seen = callbacks /\ app'.registered = app.registered
  <2>1. app.calls \in Nat /\ app.calls + 1 \in Nat
    BY DEF Apps
  <2>2. [app EXCEPT !.pc = "adding", !.seen = callbacks, !.calls = app.calls + 1] \in Apps
    BY <2>1, Zenon DEF Apps
  <2> QED
    BY <1>1, <2>2 DEF Apps
<1>u. UNCHANGED <<next_choice, tail, call, listener, conn, queue, undelivered, worker, thread, main, thr_pool,
                  requests, req, allocated, callbacks>>
  BY DEF SetCb, pool_vars
<1>3. TypeOK'
  BY <1>t, <1>1, <1>2, <1>u DEF TypeOK
<1>4. AtOnePlace' /\ DeferInv' /\ WorkInv'
  BY <1>u, OnceFrame, DeferFrame, WorkFrame DEF Inv
<1>5. ListsIntact'
  BY <1>1, <1>2, <1>u DEF Inv, ListsIntact, Used
<1>6. LockInv'
  BY <1>1, <1>2, <1>u, CallersAssumption DEF Inv, LockInv, Executors
<1>7. ShutdownInv'
  BY <1>1, <1>u DEF Inv, ShutdownInv
<1> QED
  BY <1>3, <1>4, <1>5, <1>6, <1>7 DEF Inv

\* evhtp_callbacks_add_callback, or evhtp_callback_new fails; then the unlock.
LEMMA AddCallbackInv == ASSUME Inv, AddCallback PROVE Inv'
<1>t. TypeOK
  BY DEF Inv
<1>1. app \in Apps /\ callbacks \in Seq(Nat) /\ << >> \in Seq(Nat)
  BY <1>t DEF TypeOK
<1>2. lock = App /\ app.pc = "adding" /\ app.seen = callbacks /\ lock' = NoOne
  BY Zenon DEF AddCallback, Inv, LockInv
<1>3. main.pc \notin {"stop", "freeing", "freed"} /\ callbacks = app.registered
  BY <1>2 DEF Inv, ShutdownInv, ListsIntact
<1>4. app' \in Apps /\ app'.pc = "idle" /\ callbacks' \in Seq(Nat) /\ callbacks' = app'.registered
  <2>1. CASE /\ callbacks' = Append(app.seen, app.calls)
             /\ app' = [app EXCEPT !.pc = "idle", !.seen = << >>, !.registered = Append(@, app.calls)]
    <3>1. app.calls \in Nat
      BY <1>1 DEF Apps
    <3>2. Append(callbacks, app.calls) \in Seq(Nat)
      BY <1>1, <3>1
    <3> QED
      BY <2>1, <3>2, <1>1, <1>2, <1>3, Zenon DEF Apps
  <2>2. CASE app' = [app EXCEPT !.pc = "idle", !.seen = << >>] /\ UNCHANGED callbacks
    BY <2>2, <1>1, <1>3, Zenon DEF Apps
  <2> QED
    BY <2>1, <2>2 DEF AddCallback
<1>u. UNCHANGED <<next_choice, tail, call, listener, conn, queue, undelivered, worker, thread, main, thr_pool,
                  requests, req, allocated>>
  BY Zenon DEF AddCallback, pool_vars
<1>5. TypeOK'
  BY <1>t, <1>2, <1>4, <1>u DEF TypeOK
<1>6. AtOnePlace' /\ DeferInv' /\ WorkInv'
  BY <1>u, OnceFrame, DeferFrame, WorkFrame, Zenon DEF Inv
<1>7. ListsIntact'
  BY <1>2, <1>3, <1>4, <1>u DEF Inv, ListsIntact, Used
<1>8. LockInv'
  BY <1>2, <1>4, <1>u, CallersAssumption, Zenon DEF Inv, LockInv, Executors
<1>9. ShutdownInv'
  BY <1>3, <1>u DEF Inv, ShutdownInv
<1> QED
  BY <1>5, <1>6, <1>7, <1>8, <1>9 DEF Inv

\* When every thread that serves connections is through with them, nobody is at
\* work and nobody has the lock.
LEMMA AllIdle ==
    ASSUME Inv, app.pc = "idle",
           IF thr_pool THEN \A t \in Threads : thread[t] = "exited"
                       ELSE \A c \in Conns : conn[c].at # "active"
    PROVE  lock = NoOne /\ \A e \in Executors : worker[e].pc = "idle"
<1>1. \A e \in Executors : worker[e].pc = "idle"
  <2>1. CASE thr_pool
    <3>1. \A t \in Threads : worker[t].pc = "idle"
      BY <2>1, Zenon DEF Inv, ShutdownInv
    <3>2. worker[Main].pc = "idle"
      <4>1. Main \in Executors /\ Working(Main)
        BY WorkingThread, Zenon DEF Executors
      <4> QED
        BY <4>1, <2>1, Zenon DEF Inv, Working, ShutdownInv
    <3> QED
      BY <3>1, <3>2, Zenon DEF Executors
  <2>2. CASE ~thr_pool
    BY <2>2, WorkingThread DEF Working
  <2> QED
    BY <2>1, <2>2
<1>2. lock = NoOne
  BY <1>1, Zenon DEF Inv, LockInv, TypeOK
<1> QED
  BY <1>1, <1>2

\* evhtp_free begins.
LEMMA EvhtpFreeInv == ASSUME Inv, EvhtpFree PROVE Inv'
<1>t. TypeOK
  BY DEF Inv
<1> main \in Mains /\ 0 \in Threads
  BY <1>t, NAssumption DEF TypeOK, Threads
<1>1. /\ main.pc = "loop" /\ app.pc = "idle" /\ main' \in Mains
      /\ \/ thr_pool /\ main'.pc = "stop" /\ main'.i = 0
         \/ ~thr_pool /\ main'.pc = "freeing" /\ \A c \in Conns : conn[c].at # "active"
  <2>1. CASE thr_pool
    <3>1. /\ main' = [main EXCEPT !.pc = "stop", !.i = 0]
          /\ main.pc = "loop" /\ app.pc = "idle"
      BY <2>1 DEF EvhtpFree
    <3> QED
      BY <2>1, <3>1, Zenon DEF Mains
  <2>2. CASE ~thr_pool
    BY <2>2 DEF EvhtpFree, Mains
  <2> QED
    BY <2>1, <2>2
<1>u. UNCHANGED <<next_choice, tail, call, listener, conn, queue, undelivered, worker, thread, app, thr_pool,
                  lock, requests, req, allocated, callbacks>>
  BY Zenon DEF EvhtpFree, pool_vars, shared_vars
<1>2. TypeOK'
  BY <1>t, <1>1, <1>u, Zenon DEF TypeOK
<1>3. AtOnePlace' /\ DeferInv' /\ WorkInv' /\ LockInv'
  <2>1. main'.pc # "defer"
    BY <1>1, Zenon
  <2> QED
    BY <2>1, <1>u, OnceFrame, DeferFrame, WorkFrame, LockFrame DEF Inv
<1>4. ListsIntact'
  BY <1>1, <1>u, AllIdle, SMTT(30) DEF Inv, ListsIntact, Used
<1>5. ShutdownInv'
  <2>1. ~ \E t \in Threads : t < 0
    BY NAssumption DEF Threads
  <2> QED
    BY <2>1, <1>1, <1>u, Zenon DEF Inv, ShutdownInv
<1> QED
  BY <1>2, <1>3, <1>4, <1>5, Zenon DEF Inv

\* evthr_stop, and the loop of a thread that was told to stop ends.
LEMMA StopExitInv ==
    ASSUME Inv, StopThread \/ \E t \in Threads : Exit(t)
    PROVE  Inv'
<1>t. TypeOK
  BY DEF Inv
<1> thread \in [Threads -> {"run", "stop", "exited"}]
  BY <1>t, SMTT(30) DEF TypeOK
<1>1. /\ thread' \in [Threads -> {"run", "stop", "exited"}]
      /\ \A t \in Threads : thread[t] = "exited" => thread'[t] = "exited"
      /\ \A t \in Threads : thread'[t] = "exited" => thread[t] = "exited" \/ worker[t].pc = "idle"
      /\ UNCHANGED <<next_choice, tail, call, listener, conn, queue, undelivered, worker, main, app, thr_pool,
                     lock, requests, req, allocated, callbacks>>
  BY Zenon DEF StopThread, Exit, Free, pool_vars, shared_vars
<1>2. TypeOK'
  BY <1>t, <1>1, Zenon DEF TypeOK
<1>3. AtOnePlace' /\ DeferInv' /\ WorkInv' /\ LockInv'
  BY <1>1, OnceFrame, DeferFrame, WorkFrame, LockFrame, Zenon DEF Inv
<1>4. ListsIntact'
  BY <1>1, SharedFrame, Zenon DEF Inv
<1>5. ShutdownInv'
  BY <1>1 DEF Inv, ShutdownInv
<1> QED
  BY <1>2, <1>3, <1>4, <1>5 DEF Inv

\* evthr_stop joins a thread; after the last one nobody is left.
LEMMA JoinThreadInv == ASSUME Inv, JoinThread PROVE Inv'
<1>t. TypeOK
  BY DEF Inv
<1> main \in Mains
  BY <1>t, Zenon DEF TypeOK
<1>1. /\ main.pc = "stop" /\ main.i \in Threads /\ thread[main.i] = "exited"
      /\ main' \in Mains /\ main'.i = main.i + 1
      /\ main'.pc = IF main.i + 1 = N THEN "freeing" ELSE "stop"
  <2>1. main.i + 1 \in Nat
    BY DEF Mains
  <2>2. CASE main.i + 1 = N
    BY <2>1, <2>2, Zenon DEF JoinThread, Mains
  <2>3. CASE main.i + 1 # N
    BY <2>1, <2>3, Zenon DEF JoinThread, Mains
  <2> QED
    BY <2>2, <2>3
<1>2. thr_pool /\ app.pc = "idle" /\ \A t \in Threads : t < main.i + 1 => thread[t] = "exited"
  <2>1. \A t \in Threads : t < main.i + 1 => t < main.i \/ t = main.i
    BY <1>1, NAssumption DEF Threads
  <2> QED
    BY <1>1, <2>1 DEF Inv, ShutdownInv
<1>3. IF main.i + 1 = N THEN \A t \in Threads : thread[t] = "exited" ELSE main.i + 1 \in Threads
  <2>1. main.i + 1 = N => \A t \in Threads : t < main.i + 1
    BY <1>1, NAssumption DEF Threads
  <2>2. main.i + 1 # N => main.i + 1 \in Threads
    BY <1>1, NAssumption DEF Threads
  <2> QED
    BY <1>2, <2>1, <2>2
<1>u. UNCHANGED <<next_choice, tail, call, listener, conn, queue, undelivered, worker, thread, app, thr_pool,
                  lock, requests, req, allocated, callbacks>>
  BY Zenon DEF JoinThread, pool_vars, shared_vars
<1>4. TypeOK'
  BY <1>t, <1>1, <1>u, Zenon DEF TypeOK
<1>5. AtOnePlace' /\ DeferInv' /\ WorkInv' /\ LockInv'
  <2>1. main'.pc # "defer"
    BY <1>1, Zenon
  <2> QED
    BY <2>1, <1>u, OnceFrame, DeferFrame, WorkFrame, LockFrame DEF Inv
<1>6. ListsIntact'
  <2>1. main'.pc = "freeing" => lock = NoOne /\ \A e \in Executors : worker[e].pc = "idle"
    BY <1>1, <1>2, <1>3, AllIdle, SMTT(30)
  <2> QED
    BY <2>1, <1>1, <1>u DEF Inv, ListsIntact, Used
<1>7. ShutdownInv'
  BY <1>1, <1>2, <1>3, <1>u, Zenon DEF Inv, ShutdownInv
<1> QED
  BY <1>4, <1>5, <1>6, <1>7 DEF Inv

\* The rest of evhtp_free: the lists go, and nobody is there to miss them.
LEMMA FreeHtpInv == ASSUME Inv, FreeHtp PROVE Inv'
<1>t. TypeOK
  BY DEF Inv
<1> main \in Mains
  BY <1>t DEF TypeOK
<1>1. /\ main.pc = "freeing" /\ main' \in Mains /\ main'.pc = "freed"
      /\ requests' = << >> /\ callbacks' = << >>
  BY Zenon DEF FreeHtp, Mains
<1>2. /\ << >> \in Seq(Nat) /\ DOMAIN requests' = {} /\ lock = NoOne /\ app.pc = "idle"
      /\ \A e \in Executors : worker[e].pc = "idle"
  BY <1>1 DEF Inv, ListsIntact, ShutdownInv
<1>u. UNCHANGED <<next_choice, tail, call, listener, conn, queue, undelivered, worker, thread, app, thr_pool,
                  lock, req, allocated>>
  BY Zenon DEF FreeHtp, pool_vars
<1>3. TypeOK'
  BY <1>t, <1>1, <1>2, <1>u, Zenon DEF TypeOK
<1>4. AtOnePlace' /\ DeferInv' /\ WorkInv'
  <2>1. main'.pc # "defer"
    BY <1>1, SMTT(30)
  <2> QED
    BY <2>1, <1>u, OnceFrame, DeferFrame, WorkFrame DEF Inv
<1>5. LockInv'
  BY <1>2, <1>u, CallersAssumption, Zenon DEF Inv, LockInv, Executors
<1>6. ListsIntact'
  BY <1>1, <1>2, <1>u, Zenon DEF Inv, ListsIntact, Used
<1>7. ShutdownInv'
  BY <1>1, <1>2, <1>u DEF Inv, ShutdownInv
<1> QED
  BY <1>3, <1>4, <1>5, <1>6, <1>7 DEF Inv

-----------------------------------------------------------------------------
(* Requests *)

\* A request begins: htp__request_new__.
LEMMA RequestNewInv ==
    ASSUME Inv, NEW e \in Executors, NEW c \in Conns, RequestNew(e, c)
    PROVE  Inv'
<1>t. TypeOK
  BY DEF Inv
<1>1. /\ \A d \in Conns : conn'[d].at = conn[d].at /\ conn'[d].by = conn[d].by
      /\ conn'[c].bev = conn[c].bev /\ conn'[c].closes = conn[c].closes
      /\ \A d \in Conns : d # c => conn'[d] = conn[d]
  <2> conn \in [Conns -> ConnRecords]
    BY <1>t DEF TypeOK
  <2> QED
    BY Zenon DEF RequestNew, ConnRecords
<1>2. /\ worker'[e].pc = "get" /\ worker'[e].conn = c
      /\ \A f \in Executors : f # e => worker'[f] = worker[f]
  <2> worker \in [Executors -> Workers]
    BY <1>t DEF TypeOK
  <2> QED
    BY Zenon DEF RequestNew, Idle
<1>3. /\ main.pc \notin {"freeing", "freed"} /\ req[c] = NoRequest
      /\ worker[e].pc = "idle" /\ conn[c].at = "active" /\ conn[c].by = e
      /\ e \in Threads => thread[e] # "exited"
  BY ServesAlive DEF RequestNew
<1>u. UNCHANGED <<next_choice, tail, call, listener, queue, undelivered, thread, main, app, thr_pool,
                  lock, requests, req, allocated, callbacks>>
  BY Zenon DEF RequestNew, shared_vars, pool_vars
<1>4. TypeOK'
  <2> conn \in [Conns -> ConnRecords] /\ worker \in [Executors -> Workers]
    BY <1>t DEF TypeOK
  <2>1. conn' \in [Conns -> ConnRecords]
    BY DEF RequestNew, ConnRecords
  <2>2. [Idle EXCEPT !.pc = "get", !.conn = c] \in Workers
    <3> << >> \in Seq(Nat)
      OBVIOUS
    <3> QED
      BY Zenon DEF Idle, Workers
  <2>3. worker' \in [Executors -> Workers]
    BY <2>2, Zenon DEF RequestNew
  <2> QED
    BY <1>t, <1>u, <2>1, <2>3, Zenon DEF TypeOK
<1>5. AtOnePlace'
  <2>1. AtOnePlace /\ UNCHANGED <<queue, undelivered, req>>
    BY <1>u, Zenon DEF Inv
  <2>2. conn[c].closes = 0 /\ conn[c].bev
    BY <1>3, PlacedConn, Zenon DEF Placed
  <2>3. \A d \in Conns : d # c => conn'[d] = conn[d] /\ req'[d] = req[d]
    BY <2>1, <1>1, Zenon
  <2>4. conn'[c].at = "active" /\ conn'[c].closes = 0 /\ conn'[c].bev
    BY <2>2, <1>1, <1>3
  <2> QED
    BY <2>1, <2>3, <2>4, <1>t, <1>3, QueuedConns, OnceStep
<1>6. ListsIntact'
  BY <1>3, <1>u, SharedStep, Zenon DEF Inv
<1>7. DeferInv'
  BY <1>1, <1>u, Zenon DEF Inv, DeferInv
<1>8. WorkInv'
  <2>1. /\ WorkInv /\ req' = req
        /\ \A f \in Executors : worker[f].pc # "idle" => worker[f].conn \in Conns
    BY <1>u, WorkingThread, Zenon DEF Inv, Working
  <2> QED
    BY <2>1, <1>1, <1>2, <1>3, WorkStep, Zenon
<1>9. LockInv'
  BY <1>2, <1>3, <1>u, Zenon DEF Inv, LockInv
<1>10. ShutdownInv'
  <2>1. ShutdownInv /\ UNCHANGED <<thread, thr_pool, queue, main, app>>
    BY <1>u, Zenon DEF Inv
  <2> QED
    BY <2>1, <1>1, <1>2, <1>3, ShutdownStep
<1> QED
  BY <1>4, <1>5, <1>6, <1>7, <1>8, <1>9, <1>10 DEF Inv

\* A request ends: htp__request_free_.
LEMMA RequestFreeInv ==
    ASSUME Inv, NEW e \in Executors, NEW c \in Conns, NEW close \in BOOLEAN, RequestFree(e, c, close)
    PROVE  Inv'
<1>t. TypeOK
  BY DEF Inv
<1>2. /\ worker'[e].pc = "put" /\ worker'[e].conn = c
      /\ \A f \in Executors : f # e => worker'[f] = worker[f]
  <2> worker \in [Executors -> Workers]
    BY <1>t DEF TypeOK
  <2> QED
    BY Zenon DEF RequestFree, Idle
<1>3. /\ main.pc \notin {"freeing", "freed"} /\ req[c] # NoRequest
      /\ worker[e].pc = "idle" /\ conn[c].at = "active" /\ conn[c].by = e
      /\ e \in Threads => thread[e] # "exited"
  BY ServesAlive DEF RequestFree
<1>u. UNCHANGED <<next_choice, tail, call, listener, conn, queue, undelivered, thread, main, app, thr_pool,
                  lock, requests, req, allocated, callbacks>>
  BY Zenon DEF RequestFree, shared_vars, pool_vars
<1>4. TypeOK'
  <2> worker \in [Executors -> Workers] /\ << >> \in Seq(Nat)
    BY <1>t DEF TypeOK
  <2>2. [Idle EXCEPT !.pc = "put", !.conn = c, !.close = close] \in Workers
    BY Zenon DEF Idle, Workers
  <2>3. worker' \in [Executors -> Workers]
    BY <2>2, Zenon DEF RequestFree
  <2> QED
    BY <1>t, <1>u, <2>3, Zenon DEF TypeOK
<1>5. AtOnePlace' /\ DeferInv'
  BY <1>u, OnceFrame, DeferFrame, Zenon DEF Inv
<1>6. ListsIntact'
  BY <1>3, <1>u, SharedStep, Zenon DEF Inv
<1>7. WorkInv'
  <2>1. WorkInv /\ req' = req /\ conn' = conn
    BY <1>u DEF Inv
  <2> QED
    BY <2>1, <1>2, <1>3, WorkStep, Zenon
<1>8. LockInv'
  BY <1>2, <1>3, <1>u, Zenon DEF Inv, LockInv
<1>9. ShutdownInv'
  <2>1. ShutdownInv /\ conn' = conn /\ UNCHANGED <<thread, thr_pool, queue, main, app>>
    BY <1>u, Zenon DEF Inv
  <2> QED
    BY <2>1, <1>2, <1>3, ShutdownStep, Zenon
<1> QED
  BY <1>4, <1>5, <1>6, <1>7, <1>8, <1>9 DEF Inv

\* The peer or the server ends a connection without a request.
LEMMA CloseInv ==
    ASSUME Inv, NEW e \in Executors, NEW c \in Conns, Close(e, c)
    PROVE  Inv'
<1>t. TypeOK
  BY DEF Inv
<1>1. /\ main.pc \notin {"freeing", "freed"} /\ req[c] = NoRequest
      /\ worker[e].pc = "idle" /\ conn[c].at = "active" /\ conn[c].by = e
  BY ServesAlive DEF Close
<1>2. /\ conn' \in [Conns -> ConnRecords]
      /\ conn'[c].at = "freed" /\ conn'[c].closes = 1 /\ conn'[c].bev = FALSE
      /\ \A d \in Conns : d # c => conn'[d] = conn[d]
  BY <1>1, FreeServed, Zenon DEF Close
<1>u. UNCHANGED <<next_choice, tail, call, listener, queue, undelivered, worker, thread, main, app, thr_pool,
                  lock, requests, req, allocated, callbacks>>
  BY Zenon DEF Close, shared_vars, pool_vars
<1>3. TypeOK'
  BY <1>t, <1>2, <1>u, Zenon DEF TypeOK
<1>4. AtOnePlace'
  <2>1. AtOnePlace /\ UNCHANGED <<queue, undelivered, req>>
    BY <1>u, Zenon DEF Inv
  <2> QED
    BY <2>1, <1>t, <1>1, <1>2, QueuedConns, OnceStep, Zenon
<1>5. ListsIntact' /\ LockInv'
  BY <1>u, SharedFrame, LockFrame DEF Inv
<1>6. DeferInv' /\ ShutdownInv'
  <2>1. /\ DeferInv /\ ShutdownInv
        /\ UNCHANGED <<thread, thr_pool, queue, main, app, worker, undelivered>>
    BY <1>u, Zenon DEF Inv
  <2>2. /\ \A d \in Conns : conn'[d].at = "active" => conn[d].at = "active" /\ conn'[d].by = conn[d].by
        /\ \A d \in Conns : conn[d].at # "active" => conn'[d] = conn[d]
    BY <1>1, <1>2
  <2>3. DeferInv'
    BY <2>1, <2>2, Zenon DEF DeferInv
  <2>4. ShutdownInv'
    BY <2>1, <2>2, <1>1, Zenon DEF ShutdownInv
  <2> QED
    BY <2>3, <2>4, Zenon
<1>7. WorkInv'
  <2>1. WorkInv /\ req' = req /\ worker' = worker
    BY <1>u, Zenon DEF Inv
  <2>2. \A f \in Executors : worker[f].pc # "idle" => worker[f].conn # c
    BY <1>1, WorkingThread, Zenon DEF Working
  <2> QED
    BY <2>1, <2>2, <1>2, WorkConn, Zenon
<1> QED
  BY <1>3, <1>4, <1>5, <1>6, <1>7, Zenon DEF Inv

\* htp__lock_ of a worker, which then reads the list of requests.
LEMMA LockRequestsInv ==
    ASSUME Inv, NEW e \in Executors, LockRequests(e)
    PROVE  Inv'
<1>t. TypeOK
  BY DEF Inv
<1> DEFINE new == [worker[e] EXCEPT !.pc = IF @ = "get" THEN "getting" ELSE "putting", !.seen = requests]
<1>1. /\ worker' = [worker EXCEPT ![e] = new] /\ worker[e] \in Workers
      /\ worker[e].pc \in {"get", "put"} /\ lock = NoOne /\ lock' = e
  BY <1>t, Zenon DEF LockRequests, Lock, TypeOK
<1>2. /\ new \in Workers /\ new.conn = worker[e].conn /\ new.seen = requests
      /\ new.pc = IF worker[e].pc = "get" THEN "getting" ELSE "putting"
  BY <1>t, <1>1, Zenon DEF Workers, TypeOK
<1> HIDE DEF new
<1>3. worker'[e] = new /\ \A f \in Executors : f # e => worker'[f] = worker[f]
  BY <1>1, <1>t DEF TypeOK
<1>u. UNCHANGED <<next_choice, tail, call, listener, conn, queue, undelivered, thread, main, app, thr_pool,
                  requests, req, allocated, callbacks>>
  BY Zenon DEF LockRequests, pool_vars
<1>4. TypeOK'
  BY <1>t, <1>1, <1>2, <1>u, Zenon DEF TypeOK
<1>5. AtOnePlace' /\ DeferInv'
  BY <1>u, OnceFrame, DeferFrame, Zenon DEF Inv
<1>6. ListsIntact'
  <2>1. ListsIntact /\ main.pc \notin {"freeing", "freed"}
    BY <1>1, Zenon DEF Inv, ListsIntact
  <2> QED
    BY <2>1, <1>u, SharedStep, Zenon
<1>7. WorkInv'
  <2>1. WorkInv /\ req' = req /\ conn' = conn
    BY <1>u, Zenon DEF Inv
  <2>2. /\ worker[e].conn \in Conns /\ conn[worker[e].conn].at = "active" /\ conn[worker[e].conn].by = e
        /\ worker[e].pc = "get" => req[worker[e].conn] = NoRequest
        /\ worker[e].pc = "put" => req[worker[e].conn] # NoRequest
    BY <1>1, WorkingThread, Zenon DEF Working
  <2>3. worker'[e].conn = worker[e].conn /\ worker'[e].pc = IF worker[e].pc = "get" THEN "getting" ELSE "putting"
    BY <1>2, <1>3, Zenon
  <2> QED
    BY <2>1, <2>2, <2>3, <1>1, <1>3, WorkStep
<1>8. LockInv'
  BY <1>1, <1>2, <1>3, <1>u, CallersAssumption, Zenon DEF Inv, LockInv, Executors
<1>9. ShutdownInv'
  <2>1. ShutdownInv /\ conn' = conn /\ UNCHANGED <<thread, thr_pool, queue, main, app>>
    BY <1>u, Zenon DEF Inv
  <2>2. e \in Threads => thread[e] # "exited"
    BY <2>1, <1>1, Zenon DEF ShutdownInv
  <2> QED
    BY <2>1, <2>2, <1>3, ShutdownStep, Zenon
<1> QED
  BY <1>4, <1>5, <1>6, <1>7, <1>8, <1>9 DEF Inv

\* A thread inside the lock is alone there, and nothing is being freed.
LEMMA InsideLock ==
    ASSUME Inv, NEW e \in Executors, worker[e].pc \in {"getting", "putting"}
    PROVE  /\ lock = e /\ worker[e].seen = requests /\ main.pc \notin {"freeing", "freed"}
           /\ worker[e].conn \in Conns /\ conn[worker[e].conn].at = "active" /\ conn[worker[e].conn].by = e
           /\ \A f \in Executors : f # e => worker[f].pc \notin {"getting", "putting"}
           /\ \A f \in Executors : (f # e /\ worker[f].pc # "idle") => worker[f].conn # worker[e].conn
           /\ app.pc = "idle"
<1>1. lock = e /\ worker[e].seen = requests
  BY Zenon DEF Inv, LockInv
<1>2. main.pc \notin {"freeing", "freed"}
  BY Zenon DEF Inv, ListsIntact
<1>3. worker[e].conn \in Conns /\ conn[worker[e].conn].at = "active" /\ conn[worker[e].conn].by = e
  BY WorkingThread, Zenon DEF Working
<1>4. \A f \in Executors : f # e => worker[f].pc \notin {"getting", "putting"}
  BY <1>1, Zenon DEF Inv, LockInv
<1>5. \A f \in Executors : (f # e /\ worker[f].pc # "idle") => worker[f].conn # worker[e].conn
  BY <1>3, WorkingThread, Zenon DEF Working
<1>6. app.pc = "idle"
  BY <1>1, CallersAssumption DEF Inv, LockInv, TypeOK, Apps, Executors
<1> QED
  BY <1>1, <1>2, <1>3, <1>4, <1>5, <1>6, Zenon

\* htp__connection_accept_ and htp__run_post_accept_: the connection is served, or
\* freed with its socket closed once, by whoever held it at that time.
LEMMA AcceptedOnce ==
    \A k \in ConnRecords, e \in Executors : \A a \in Accepted(k, e) :
      (k.closes = 0 /\ ~k.bev) =>
        /\ a \in ConnRecords
        /\ \/ a.at = "freed" /\ a.closes = 1 /\ a.bev = FALSE
           \/ a.at = "active" /\ a.closes = 0 /\ a.bev = TRUE /\ a.by = e
<1> SUFFICES ASSUME NEW k \in ConnRecords, NEW e \in Executors, NEW a \in Accepted(k, e), k.closes = 0, ~k.bev
             PROVE  /\ a \in ConnRecords
                    /\ \/ a.at = "freed" /\ a.closes = 1 /\ a.bev = FALSE
                       \/ a.at = "active" /\ a.closes = 0 /\ a.bev = TRUE /\ a.by = e
  BY Zenon
<1> DEFINE open == [k EXCEPT !.bev = TRUE, !.by = e, !.at = "active"]
           shut == CloseSocket(k)
<1>1. open \in ConnRecords /\ open.at = "active" /\ open.closes = 0 /\ open.bev = TRUE /\ open.by = e
  BY Zenon DEF ConnRecords
<1>2. shut \in ConnRecords /\ shut.closes = 1 /\ shut.bev = FALSE
  BY DEF ConnRecords, CloseSocket
<1>3. a = ConnectionFree(shut) \/ a = ConnectionFree(open) \/ a = open
  BY DEF Accepted
<1> HIDE DEF open, shut
<1>4. ConnectionFree(shut) = [shut EXCEPT !.at = "freed", !.closes = 1, !.bev = FALSE]
  BY <1>2 DEF ConnectionFree, ConnRecords
<1>5. ConnectionFree(open) = [open EXCEPT !.at = "freed", !.closes = 1, !.bev = FALSE]
  BY <1>1 DEF ConnectionFree, ConnRecords
<1>6. CASE a = ConnectionFree(shut)
  BY <1>2, <1>4, <1>6, Zenon DEF ConnRecords
<1>7. CASE a = ConnectionFree(open)
  <2>1. a = [open EXCEPT !.at = "freed", !.closes = 1, !.bev = FALSE]
    BY <1>5, <1>7
  <2>2. a \in ConnRecords
    BY <2>1, <1>1, Zenon DEF ConnRecords
  <2> QED
    BY <2>1, <2>2, <1>1 DEF ConnRecords
<1> QED
  BY <1>1, <1>3, <1>6, <1>7, Zenon

\* A connection htp__accept_cb_ has is in no queue, and no thread serves it.
LEMMA NobodyHas ==
    ASSUME Inv, NEW c \in Conns, conn[c].at \in {"none", "accepting"}
    PROVE  /\ \A t \in Threads : \A i \in DOMAIN queue[t] : queue[t][i] # c
           /\ \A e \in Executors : worker[e].pc # "idle" => worker[e].conn # c
           /\ c \notin undelivered /\ req[c] = NoRequest /\ conn[c].closes = 0 /\ conn[c].bev = FALSE
           /\ conn[c] \in ConnRecords
<1>1. \A t \in Threads : \A i \in DOMAIN queue[t] : queue[t][i] # c
  BY Zenon DEF Inv, AtOnePlace, QueuedWait, Waiting
<1>2. \A e \in Executors : worker[e].pc # "idle" => worker[e].conn # c
  BY WorkingThread, Zenon DEF Working
<1>3. conn[c] \in ConnRecords
  BY Zenon DEF Inv, TypeOK
<1>4. req[c] = NoRequest /\ conn[c].closes = 0 /\ conn[c].bev = FALSE
  BY <1>3, PlacedConn, Zenon DEF Placed, ConnRecords
<1>5. c \notin undelivered
  BY DEF Inv, DeferInv
<1> QED
  BY <1>1, <1>2, <1>3, <1>4, <1>5, Zenon

\* The end of htp__accept_cb_ when evthr_pool_defer failed: evutil_closesocket, and
\* no bufferevent that would close the socket again.
LEMMA FreeUnserved ==
    \A k \in ConnRecords :
      (k.closes = 0 /\ ~k.bev) =>
        LET freed == ConnectionFree(CloseSocket(k))
        IN  freed \in ConnRecords /\ freed.at = "freed" /\ freed.closes = 1 /\ freed.bev = FALSE
<1> SUFFICES ASSUME NEW k \in ConnRecords, k.closes = 0, ~k.bev
             PROVE  LET freed == ConnectionFree(CloseSocket(k))
                    IN  freed \in ConnRecords /\ freed.at = "freed" /\ freed.closes = 1 /\ freed.bev = FALSE
  BY Zenon
<1> DEFINE shut == CloseSocket(k)
           freed == [shut EXCEPT !.at = "freed", !.closes = 1, !.bev = FALSE]
<1>1. shut \in ConnRecords /\ shut.closes = 1 /\ shut.bev = FALSE
  BY DEF ConnRecords, CloseSocket
<1> HIDE DEF shut
<1>2. ConnectionFree(shut) = freed
  BY <1>1 DEF ConnectionFree, ConnRecords
<1>3. freed \in ConnRecords /\ freed.at = "freed" /\ freed.closes = 1 /\ freed.bev = FALSE
  BY <1>1, Zenon DEF ConnRecords
<1> QED
  BY <1>2, <1>3 DEF shut

\* evthr_defer puts a connection behind the others of one queue.
LEMMA AppendQueue ==
    ASSUME queue \in [Threads -> Seq(Conns)], NEW t \in Threads, NEW c \in Conns,
           queue' = [queue EXCEPT ![t] = Append(@, c)]
    PROVE  /\ queue' \in [Threads -> Seq(Conns)]
           /\ \A u \in Threads : \A i \in DOMAIN queue'[u] :
                \/ u = t /\ i = Len(queue[t]) + 1 /\ queue'[u][i] = c
                \/ i \in DOMAIN queue[u] /\ queue'[u][i] = queue[u][i]
           /\ \A u \in Threads : \A i \in DOMAIN queue[u] :
                i \in DOMAIN queue'[u] /\ queue'[u][i] = queue[u][i]
           /\ Len(queue[t]) + 1 \in DOMAIN queue'[t] /\ queue'[t][Len(queue[t]) + 1] = c
<1> DEFINE q == queue[t]
           q2 == Append(q, c)
<1>1. q \in Seq(Conns)
  OBVIOUS
<1>2. queue'[t] = q2 /\ \A u \in Threads : u # t => queue'[u] = queue[u]
  OBVIOUS
<1> HIDE DEF q
<1>3. /\ q2 \in Seq(Conns) /\ DOMAIN q = 1 .. Len(q) /\ Len(q) \in Nat
      /\ DOMAIN q2 = 1 .. Len(q) + 1 /\ q2[Len(q) + 1] = c
      /\ \A i \in 1 .. Len(q) : q2[i] = q[i]
  BY <1>1
<1> HIDE DEF q2
<1>4. \A i \in DOMAIN q2 : (i = Len(q) + 1 /\ q2[i] = c) \/ (i \in DOMAIN q /\ q2[i] = q[i])
  BY <1>3
<1>5. \A i \in DOMAIN q : i \in DOMAIN q2 /\ q2[i] = q[i]
  BY <1>3
<1>6. Len(q) + 1 \in DOMAIN q2 /\ q2[Len(q) + 1] = c
  BY <1>3
<1>7. queue' \in [Threads -> Seq(Conns)]
  BY <1>3, Zenon DEF q, q2
<1> QED
  BY <1>2, <1>4, <1>5, <1>6, <1>7 DEF q

\* A thread takes the first connection from its queue.
LEMMA TailQueue ==
    ASSUME queue \in [Threads -> Seq(Conns)], NEW t \in Threads, queue[t] # << >>,
           queue' = [queue EXCEPT ![t] = Tail(@)]
    PROVE  /\ queue' \in [Threads -> Seq(Conns)]
           /\ \A i \in DOMAIN queue'[t] : i + 1 \in DOMAIN queue[t] /\ i + 1 # 1 /\ queue'[t][i] = queue[t][i + 1]
           /\ \A i, j \in DOMAIN queue'[t] : i + 1 = j + 1 => i = j
           /\ \A i \in DOMAIN queue[t] : i # 1 => \E j \in DOMAIN queue'[t] : queue'[t][j] = queue[t][i]
           /\ \A u \in Threads : u # t => queue'[u] = queue[u]
           /\ 1 \in DOMAIN queue[t] /\ Head(queue[t]) = queue[t][1] /\ queue[t][1] \in Conns
<1> DEFINE q == queue[t]
           q2 == Tail(q)
<1>1. q \in Seq(Conns) /\ q # << >>
  OBVIOUS
<1>2. queue'[t] = q2 /\ \A u \in Threads : u # t => queue'[u] = queue[u]
  OBVIOUS
<1> HIDE DEF q
<1>3. /\ q2 \in Seq(Conns) /\ DOMAIN q = 1 .. Len(q) /\ Len(q) \in Nat \ {0}
      /\ DOMAIN q2 = 1 .. Len(q) - 1 /\ Head(q) = q[1] /\ q[1] \in Conns
      /\ \A i \in 1 .. Len(q) - 1 : q2[i] = q[i + 1]
  BY <1>1
<1> HIDE DEF q2
<1>4. \A i \in DOMAIN q2 : i + 1 \in DOMAIN q /\ i + 1 # 1 /\ q2[i] = q[i + 1]
  BY <1>3
<1>5. \A i, j \in DOMAIN q2 : i + 1 = j + 1 => i = j
  BY <1>3
<1>6. \A i \in DOMAIN q : i # 1 => \E j \in DOMAIN q2 : q2[j] = q[i]
  <2> SUFFICES ASSUME NEW i \in DOMAIN q, i # 1 PROVE \E j \in DOMAIN q2 : q2[j] = q[i]
    OBVIOUS
  <2>1. i \in Nat /\ i - 1 \in 1 .. Len(q) - 1 /\ (i - 1) + 1 = i
    BY <1>3
  <2> QED
    BY <1>3, <2>1, Zenon
<1>7. 1 \in DOMAIN q
  BY <1>3
<1>8. queue' \in [Threads -> Seq(Conns)]
  BY <1>3 DEF q, q2
<1> QED
  BY <1>2, <1>3, <1>4, <1>5, <1>6, <1>7, <1>8 DEF q

=============================================================================

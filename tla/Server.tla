------------------------------- MODULE Server -------------------------------
(***************************************************************************)
(* A listener with its pool of worker threads, and what the threads share: *)
(* evhtp_t with its list of used requests (htp->requests), its list of     *)
(* callbacks and the lock of evhtp_use_callback_locks around both.         *)
(*                                                                         *)
(* The main thread binds, accepts and sends each connection to a worker    *)
(* with evthr_pool_defer (PoolDefer); without a pool it serves them        *)
(* itself.  The worker finishes the accept, takes a request object for     *)
(* every request and gives it back.  An application thread registers       *)
(* callbacks and sends commands of its own to the pool.  evhtp_free stops  *)
(* the pool.                                                               *)
(*                                                                         *)
(* What a connection does between taking a request and giving it back is   *)
(* the matter of Connection and H2Session, and how a command travels that  *)
(* of Evthr: here a queue is a sequence.                                   *)
(***************************************************************************)
EXTENDS PoolDefer, Sequences

CONSTANTS
    Main, App,      \* the threads that call evthr_pool_defer
    NoOne,          \* nobody holds the lock
    MaxConns,       \* bound: how many connections are accepted
    MaxRequests,    \* bound: how many requests a connection has
    MaxCallbacks    \* bound: how often a callback is registered

ASSUME CallersAssumption ==
    /\ Main # App /\ Callers = {Main, App}
    /\ Main \notin Threads /\ App \notin Threads /\ NoOne \notin Threads \cup Callers

Conns     == 1 .. MaxConns
Executors == Threads \cup {Main}

VARIABLES
    thr_pool,     \* htp->thr_pool # NULL
    listener,     \* htp->server: "none", "listening" or "freed"
    main,         \* where the main thread is: its loop, a defer, evhtp_free
    conn,         \* per connection [at, by, bev, closes, requests]
    queue,        \* per worker: the connections in its queue
    undelivered,  \* connections that are in a queue though evthr_defer failed
    worker,       \* per executor: where it is in taking or giving back a request
    thread,       \* per worker: "run", "stop" (told to), "exited", or "astray":
                  \* it has used a connection that had been freed
    lock,         \* who holds htp->lock
    requests,     \* htp->requests
    req,          \* per connection: its request, a number, or NoRequest
    allocated,    \* how many requests were allocated
    callbacks,    \* htp->callbacks
    app           \* where the application thread is in evhtp_set_cb

shared_vars == <<lock, requests, req, allocated, callbacks>>
vars == <<next_choice, tail, call, thr_pool, listener, main, conn, queue, undelivered, worker,
          thread, shared_vars, app>>

NoRequest == 0

Idle == [pc |-> "idle", conn |-> 0, seen |-> << >>, close |-> FALSE]

Init ==
    /\ PoolInit
    /\ thr_pool \in BOOLEAN
    /\ listener = "none"
    /\ main = [pc |-> "loop", conn |-> 0, i |-> 0]
    /\ conn = [c \in Conns |-> [at |-> "none", by |-> Main, bev |-> FALSE, closes |-> 0, requests |-> 0]]
    /\ queue = [t \in Threads |-> << >>]
    /\ undelivered = {}
    /\ worker = [e \in Executors |-> Idle]
    /\ thread = [t \in Threads |-> "run"]
    /\ lock = NoOne
    /\ requests = << >>
    /\ req = [c \in Conns |-> NoRequest]
    /\ allocated = 0
    /\ callbacks = << >>
    /\ app = [pc |-> "idle", seen |-> << >>, calls |-> 0, registered |-> << >>]

-----------------------------------------------------------------------------
(* The listener *)

\* evhtp_bind_sockaddr: a socket that cannot be set up, bound or listened to is
\* closed, and nothing is left of the attempt.
Bind ==
    /\ main.pc = "loop" /\ listener = "none"
    /\ listener' \in {"listening", "none"}
    /\ UNCHANGED <<pool_vars, thr_pool, main, conn, queue, undelivered, worker, thread, shared_vars, app>>

\* evhtp_unbind_socket
Unbind ==
    /\ main.pc = "loop" /\ listener = "listening" /\ worker[Main].pc = "idle"
    /\ listener' = "freed"
    /\ UNCHANGED <<pool_vars, thr_pool, main, conn, queue, undelivered, worker, thread, shared_vars, app>>

\* evutil_closesocket(connection->sock)
CloseSocket(k) == [k EXCEPT !.closes = @ + 1]

\* evhtp_connection_free of a connection without a request: the bufferevent,
\* if there is one, closes the socket (BEV_OPT_CLOSE_ON_FREE)
ConnectionFree(k) == [k EXCEPT !.at = "freed", !.closes = IF k.bev THEN @ + 1 ELSE @, !.bev = FALSE]

\* Mutant: a connection post_accept refuses stays with the worker.
AcceptedUnchecked(k, e) ==
    LET open == [k EXCEPT !.bev = TRUE, !.by = e, !.at = "active"]
    IN  {ConnectionFree(CloseSocket(k)), [ConnectionFree(open) EXCEPT !.at = "active"], open}

\* htp__connection_accept_ and htp__run_post_accept_, on the executor e: the
\* pre_accept callback refuses, the post_accept callback refuses, or neither
Accepted(k, e) ==
    LET open == [k EXCEPT !.bev = TRUE, !.by = e, !.at = "active"]
    IN  {ConnectionFree(CloseSocket(k)), ConnectionFree(open), open}

\* htp__accept_cb_ as far as the defer.  Out of memory, the socket is left open.
Accept(c) ==
    /\ main.pc = "loop" /\ listener = "listening" /\ worker[Main].pc = "idle"
    /\ conn[c].at = "none" /\ \A d \in 1 .. c - 1 : conn[d].at # "none"
    /\ \/ /\ conn' = [conn EXCEPT ![c].at = "nomem"]
          /\ UNCHANGED <<pool_vars, main>>
       \/ /\ thr_pool
          /\ Ticket(Main)
          /\ main' = [main EXCEPT !.pc = "defer", !.conn = c]
          /\ conn' = [conn EXCEPT ![c].at = "accepting"]
       \/ /\ ~thr_pool
          /\ \E k \in Accepted(conn[c], Main) : conn' = [conn EXCEPT ![c] = k]
          /\ UNCHANGED <<pool_vars, main>>
    /\ UNCHANGED <<thr_pool, listener, queue, undelivered, worker, thread, shared_vars, app>>

\* evthr_pool_defer chooses; an application command is not followed further
Choose(caller) ==
    /\ \/ LoadA(caller)
       \/ LoadB(caller)
       \/ caller = App /\ (SendA(App) \/ SendB(App))
    /\ UNCHANGED <<thr_pool, listener, main, conn, queue, undelivered, worker, thread, shared_vars, app>>

\* evthr_defer, and the end of htp__accept_cb_: the connection is queued; or
\* there is no memory for the command; or it is queued and the wakeup fails.
\* The last two free the connection.
Deliver(t) ==
    LET c      == main.conn
        queued == [queue EXCEPT ![t] = Append(@, c)]
        freed  == [conn EXCEPT ![c] = ConnectionFree(CloseSocket(@))]
    IN  \/ queue' = queued /\ conn' = [conn EXCEPT ![c].at = "queued"] /\ UNCHANGED undelivered
        \/ UNCHANGED <<queue, undelivered>> /\ conn' = freed
        \/ queue' = queued /\ conn' = freed /\ undelivered' = undelivered \cup {c}

AcceptDefer ==
    /\ main.pc = "defer"
    /\ \/ SendA(Main) /\ Deliver(call[Main].i)
       \/ SendB(Main) /\ Deliver(SecondIndex(call[Main].i))
    /\ main' = [main EXCEPT !.pc = "loop", !.conn = 0]
    /\ UNCHANGED <<thr_pool, listener, worker, thread, shared_vars, app>>

\* the application sends a command, before it shuts the server down
AppDefer ==
    /\ thr_pool /\ main.pc \in {"loop", "defer"} /\ app.pc = "idle"
    /\ Ticket(App)
    /\ UNCHANGED <<thr_pool, listener, main, conn, queue, undelivered, worker, thread, shared_vars, app>>

-----------------------------------------------------------------------------
(* A worker, or the main thread without a pool *)

Free(e) == worker[e].pc = "idle" /\ IF e = Main THEN main.pc = "loop" ELSE thread[e] \in {"run", "stop"}

\* htp__run_in_thread_
RunInThread(t) ==
    /\ Free(t) /\ queue[t] # << >> /\ Head(queue[t]) \notin undelivered
    /\ LET c == Head(queue[t]) IN
       \E k \in Accepted(conn[c], t) : conn' = [conn EXCEPT ![c] = k]
    /\ queue' = [queue EXCEPT ![t] = Tail(@)]
    /\ UNCHANGED <<pool_vars, thr_pool, listener, main, undelivered, worker, thread, shared_vars, app>>

\* htp__run_in_thread_ of a connection that htp__accept_cb_ freed when the wakeup
\* failed after the insert.  The behaviour is undefined: the thread accepts,
\* refuses or closes once more what it finds in that memory, the connection as
\* it was left or one that was accepted since.  What it does from there is not
\* followed.
RunFreed(t) ==
    /\ Free(t) /\ queue[t] # << >> /\ Head(queue[t]) \in undelivered
    /\ \E d \in Head(queue[t]) .. MaxConns :
          /\ conn[d].at \notin {"none", "nomem"}
          /\ \E k \in Accepted(conn[d], t) : conn' = [conn EXCEPT ![d] = k]
    /\ queue' = [queue EXCEPT ![t] = Tail(@)]
    /\ thread' = [thread EXCEPT ![t] = "astray"]
    /\ UNCHANGED <<pool_vars, thr_pool, listener, main, undelivered, worker, shared_vars, app>>

Serves(e, c) == Free(e) /\ conn[c].at = "active" /\ conn[c].by = e

\* a request begins: htp__request_new__
RequestNew(e, c) ==
    /\ Serves(e, c) /\ req[c] = NoRequest /\ conn[c].requests < MaxRequests
    /\ conn' = [conn EXCEPT ![c].requests = @ + 1]
    /\ worker' = [worker EXCEPT ![e] = [Idle EXCEPT !.pc = "get", !.conn = c]]
    /\ UNCHANGED <<pool_vars, thr_pool, listener, main, queue, undelivered, thread, shared_vars, app>>

\* a request ends, alone or with its connection: htp__request_free_
RequestFree(e, c, close) ==
    /\ Serves(e, c) /\ req[c] # NoRequest
    /\ worker' = [worker EXCEPT ![e] = [Idle EXCEPT !.pc = "put", !.conn = c, !.close = close]]
    /\ UNCHANGED <<pool_vars, thr_pool, listener, main, conn, queue, undelivered, thread, shared_vars, app>>

\* the connection ends without a request
Close(e, c) ==
    /\ Serves(e, c) /\ req[c] = NoRequest
    /\ conn' = [conn EXCEPT ![c] = ConnectionFree(@)]
    /\ UNCHANGED <<pool_vars, thr_pool, listener, main, queue, undelivered, worker, thread, shared_vars, app>>

\* Mutant: nobody takes the lock, as without evhtp_use_callback_locks.
LockNone(e) == UNCHANGED lock

\* htp__lock_
Lock(e) == lock = NoOne /\ lock' = e

\* htp__lock_ of get_request_from_cache and of htp__request_free_, and the list
\* as the thread then reads it
LockRequests(e) ==
    /\ worker[e].pc \in {"get", "put"}
    /\ Lock(e)
    /\ worker' = [worker EXCEPT ![e].pc = IF @ = "get" THEN "getting" ELSE "putting", ![e].seen = requests]
    /\ UNCHANGED <<pool_vars, thr_pool, listener, main, conn, queue, undelivered, thread, requests, req,
                   allocated, callbacks, app>>

\* TAILQ_FIRST and TAILQ_REMOVE, or else htp__request_new_; htp__unlock_
GetRequest(e) ==
    /\ worker[e].pc = "getting"
    /\ LET seen == worker[e].seen IN
       /\ requests' = IF seen = << >> THEN requests ELSE Tail(seen)
       /\ allocated' = IF seen = << >> THEN allocated + 1 ELSE allocated
       /\ req' = [req EXCEPT ![worker[e].conn] = IF seen = << >> THEN allocated + 1 ELSE Head(seen)]
    /\ lock' = NoOne
    /\ worker' = [worker EXCEPT ![e] = Idle]
    /\ UNCHANGED <<pool_vars, thr_pool, listener, main, conn, queue, undelivered, thread, callbacks, app>>

\* Mutant: the lock is not released.
PutRequestLocked(e) ==
    /\ worker[e].pc = "putting"
    /\ LET c == worker[e].conn IN
       /\ requests' = <<req[c]>> \o worker[e].seen
       /\ req' = [req EXCEPT ![c] = NoRequest]
       /\ conn' = IF worker[e].close THEN [conn EXCEPT ![c] = ConnectionFree(@)] ELSE conn
    /\ UNCHANGED lock
    /\ worker' = [worker EXCEPT ![e] = Idle]
    /\ UNCHANGED <<pool_vars, thr_pool, listener, main, queue, undelivered, thread, allocated, callbacks,
                   app>>

\* TAILQ_INSERT_HEAD; htp__unlock_; and the rest of evhtp_connection_free
PutRequest(e) ==
    /\ worker[e].pc = "putting"
    /\ LET c == worker[e].conn IN
       /\ requests' = <<req[c]>> \o worker[e].seen
       /\ req' = [req EXCEPT ![c] = NoRequest]
       /\ conn' = IF worker[e].close THEN [conn EXCEPT ![c] = ConnectionFree(@)] ELSE conn
    /\ lock' = NoOne
    /\ worker' = [worker EXCEPT ![e] = Idle]
    /\ UNCHANGED <<pool_vars, thr_pool, listener, main, queue, undelivered, thread, allocated, callbacks,
                   app>>

-----------------------------------------------------------------------------
(* The application thread registers callbacks *)

\* evhtp_set_cb, evhtp_set_glob_cb, evhtp_set_regex_cb: htp__lock_
SetCb ==
    /\ app.pc = "idle" /\ main.pc \in {"loop", "defer"} /\ call[App].pc = "idle"
    /\ app.calls < MaxCallbacks
    /\ Lock(App)
    /\ app' = [app EXCEPT !.pc = "adding", !.seen = callbacks, !.calls = @ + 1]
    /\ UNCHANGED <<pool_vars, thr_pool, listener, main, conn, queue, undelivered, worker, thread,
                   requests, req, allocated, callbacks>>

\* evhtp_callback_new may fail (no memory, a bad expression), else
\* evhtp_callbacks_add_callback; htp__unlock_
AddCallback ==
    /\ app.pc = "adding"
    /\ \/ /\ callbacks' = Append(app.seen, app.calls)
          /\ app' = [app EXCEPT !.pc = "idle", !.seen = << >>, !.registered = Append(@, app.calls)]
       \/ /\ app' = [app EXCEPT !.pc = "idle", !.seen = << >>]
          /\ UNCHANGED callbacks
    /\ lock' = NoOne
    /\ UNCHANGED <<pool_vars, thr_pool, listener, main, conn, queue, undelivered, worker, thread,
                   requests, req, allocated>>

-----------------------------------------------------------------------------
(* evhtp_free, called by the main thread when the listener is gone and the *)
(* application thread is through                                           *)

EvhtpFree ==
    /\ main.pc = "loop" /\ listener = "freed"
    /\ app.pc = "idle" /\ call[App].pc = "idle"
    /\ IF thr_pool THEN main' = [main EXCEPT !.pc = "stop", !.i = 0]
       ELSE /\ worker[Main].pc = "idle" /\ \A c \in Conns : conn[c].at # "active"
            /\ main' = [main EXCEPT !.pc = "freeing"]
    /\ UNCHANGED <<pool_vars, thr_pool, listener, conn, queue, undelivered, worker, thread, shared_vars, app>>

\* evthr_pool_stop: evthr_stop tells one thread after the other and joins it
StopThread ==
    /\ main.pc = "stop" /\ main.i \in Threads /\ thread[main.i] = "run"
    /\ thread' = [thread EXCEPT ![main.i] = "stop"]
    /\ UNCHANGED <<pool_vars, thr_pool, listener, main, conn, queue, undelivered, worker, shared_vars, app>>

JoinThread ==
    /\ main.pc = "stop" /\ main.i \in Threads /\ thread[main.i] = "exited"
    /\ main' = [main EXCEPT !.i = @ + 1, !.pc = IF main.i + 1 = N THEN "freeing" ELSE @]
    /\ UNCHANGED <<pool_vars, thr_pool, listener, conn, queue, undelivered, worker, thread, shared_vars, app>>

\* the loop of a thread ends between two events, whatever is in its queue
Exit(t) ==
    /\ Free(t) /\ thread[t] = "stop"
    /\ thread' = [thread EXCEPT ![t] = "exited"]
    /\ UNCHANGED <<pool_vars, thr_pool, listener, main, conn, queue, undelivered, worker, shared_vars, app>>

\* evthr_pool_free, the lock, the callbacks, the requests, the evhtp_t
FreeHtp ==
    /\ main.pc = "freeing"
    /\ main' = [main EXCEPT !.pc = "freed"]
    /\ requests' = << >> /\ callbacks' = << >>
    /\ UNCHANGED <<pool_vars, thr_pool, listener, conn, queue, undelivered, worker, thread, lock, req,
                   allocated, app>>

-----------------------------------------------------------------------------
Work(e) ==
    \/ LockRequests(e) \/ GetRequest(e) \/ PutRequest(e)
    \/ e \in Threads /\ (RunInThread(e) \/ RunFreed(e) \/ Exit(e))

MainSteps == AcceptDefer \/ StopThread \/ JoinThread \/ FreeHtp \/ Choose(Main)

Next ==
    \/ Bind \/ Unbind \/ \E c \in Conns : Accept(c)
    \/ MainSteps \/ Choose(App) \/ AppDefer \/ SetCb \/ AddCallback \/ EvhtpFree
    \/ \E e \in Executors :
         \/ Work(e)
         \/ \E c \in Conns : \/ RequestNew(e, c) \/ Close(e, c)
                             \/ \E close \in BOOLEAN : RequestFree(e, c, close)

\* A thread with something to do does it; nothing obliges a peer, the
\* application or the main loop to begin something.
Fairness ==
    /\ WF_vars(MainSteps) /\ WF_vars(AddCallback)
    /\ \A e \in Executors : WF_vars(Work(e))

Spec == Init /\ [][Next]_vars /\ Fairness

-----------------------------------------------------------------------------
\* No thread has used a freed connection.  From there on the program's behaviour
\* is undefined, and nothing is said of it.
Defined == \A t \in Threads : thread[t] # "astray"

\* each queued connection is there once
QueuedOnce ==
    \A t, u \in Threads : \A i \in DOMAIN queue[t], j \in DOMAIN queue[u] :
      queue[t][i] = queue[u][j] => t = u /\ i = j

\* who is in a queue waits to be served, but for the ones whose wakeup failed
Waiting(c) == IF c \in undelivered THEN conn[c].at = "freed" ELSE conn[c].at = "queued"
QueuedWait == \A t \in Threads : \A i \in DOMAIN queue[t] : Waiting(queue[t][i])

\* where connection c is, and what it has there
InQueue(c) == \E t \in Threads : \E i \in DOMAIN queue[t] : queue[t][i] = c
Placed(c) ==
    /\ conn[c].at = "queued" => InQueue(c)
    /\ conn[c].closes = (IF conn[c].at = "freed" THEN 1 ELSE 0)
    /\ conn[c].bev <=> conn[c].at = "active"
    /\ req[c] # NoRequest => conn[c].at = "active"

AtOnePlace == QueuedOnce /\ QueuedWait /\ \A c \in Conns : Placed(c)

\* A connection is at one place at a time: with htp__accept_cb_, in the queue of
\* one worker, or with the thread that serves it; nobody has it when it is
\* freed, but for a queue whose wakeup failed after the insert.  Its socket is
\* closed once, when it is freed.  This ends when a worker comes to such an entry
\* of its queue and runs htp__run_in_thread_ on freed memory (evhtp.c:3368, 3311).
ConnectionOnce == Defined => AtOnePlace

\* the requests connections have
Used == { req[c] : c \in Conns } \ {NoRequest}

ListsIntact ==
    /\ \A c, d \in Conns : (c # d /\ req[c] # NoRequest) => req[c] # req[d]
    /\ \A i \in DOMAIN requests : requests[i] \notin Used
    /\ \A i, j \in DOMAIN requests : i # j => requests[i] # requests[j]
    /\ main.pc # "freed" => /\ { requests[i] : i \in DOMAIN requests } \cup Used = 1 .. allocated
                            /\ callbacks = app.registered
    /\ main.pc \in {"freeing", "freed"} => lock = NoOne /\ \A e \in Executors : worker[e].pc = "idle"

\* Whatever the workers and the application thread do at the same time: a
\* request object belongs to one connection or lies in the list once, none is
\* lost, a callback whose registration succeeded is in the list, and all this
\* is freed when no thread can use it any more (as long as Defined).
SharedIntact == Defined => ListsIntact

\* A connection that was accepted is served or closed unless the server is freed
\* first, and evhtp_free returns: no accept and no thread that is joined is
\* stuck behind a defer, the lock or another thread (as long as Defined).
AcceptSettles ==
    /\ \A c \in Conns :
         conn[c].at # "none" ~> conn[c].at \in {"active", "freed", "nomem"} \/ main.pc = "freed" \/ ~Defined
    /\ main.pc = "stop" ~> main.pc = "freed" \/ ~Defined

-----------------------------------------------------------------------------
(* The inductive invariant behind ConnectionOnce and SharedIntact, for as  *)
(* long as the behaviour is defined                                        *)

Calls == [pc : {"idle", "loadA", "loadB", "sendA", "sendB"}, i : Threads, a : Nat, b : Nat]
Mains == [pc : {"loop", "defer", "stop", "freeing", "freed"}, conn : Conns \cup {0}, i : Nat]
ConnRecords == [at : {"none", "nomem", "accepting", "queued", "active", "freed"}, by : Executors,
                bev : BOOLEAN, closes : Nat, requests : Nat]
Workers == [pc : {"idle", "get", "getting", "put", "putting"}, conn : Conns \cup {0},
            seen : Seq(Nat), close : BOOLEAN]
Apps == [pc : {"idle", "adding"}, seen : Seq(Nat), calls : Nat, registered : Seq(Nat)]

TypeOK ==
    /\ next_choice \in Nat /\ tail \in [Threads -> Nat] /\ call \in [Callers -> Calls]
    /\ thr_pool \in BOOLEAN /\ listener \in {"none", "listening", "freed"} /\ main \in Mains
    /\ conn \in [Conns -> ConnRecords] /\ queue \in [Threads -> Seq(Conns)] /\ undelivered \subseteq Conns
    /\ worker \in [Executors -> Workers] /\ thread \in [Threads -> {"run", "stop", "exited"}]
    /\ lock \in Executors \cup {App, NoOne}
    /\ requests \in Seq(Nat) /\ req \in [Conns -> Nat] /\ allocated \in Nat
    /\ callbacks \in Seq(Nat) /\ app \in Apps

\* the connection a defer is about is with nobody else, and one whose defer failed
\* is never served
DeferInv ==
    /\ main.pc = "defer" => main.conn \in Conns /\ thr_pool
    /\ main.pc = "defer" => conn[main.conn].at = "accepting"
    /\ \A c \in Conns : c \in undelivered => conn[c].at = "freed"

\* a thread that takes or gives back a request serves the connection it is for
Working(e) ==
    /\ worker[e].pc # "idle" => /\ worker[e].conn \in Conns
                                /\ conn[worker[e].conn].at = "active" /\ conn[worker[e].conn].by = e
    /\ worker[e].pc \in {"get", "getting"} => req[worker[e].conn] = NoRequest
    /\ worker[e].pc \in {"put", "putting"} => req[worker[e].conn] # NoRequest
WorkInv == \A e \in Executors : Working(e)

\* who is inside the lock, and that the list is still as that thread read it
LockInv ==
    /\ \A e \in Executors : worker[e].pc \in {"getting", "putting"} <=> lock = e
    /\ \A e \in Executors : lock = e => worker[e].seen = requests
    /\ app.pc = "adding" <=> lock = App
    /\ app.pc = "adding" => app.seen = callbacks

\* who may still be at work while the server is being freed
ShutdownInv ==
    /\ \A t \in Threads : thread[t] = "exited" => worker[t].pc = "idle"
    /\ \A c \in Conns : conn[c].at = "active" => (conn[c].by = Main <=> ~thr_pool)
    /\ \A t \in Threads : queue[t] # << >> => thr_pool
    /\ main.pc = "stop" => /\ thr_pool /\ main.i \in Threads
                           /\ \A t \in Threads : t < main.i => thread[t] = "exited"
    /\ main.pc \in {"freeing", "freed"} =>
         IF thr_pool THEN \A t \in Threads : thread[t] = "exited"
                     ELSE \A c \in Conns : conn[c].at # "active"
    /\ main.pc \in {"stop", "freeing", "freed"} => app.pc = "idle"

Inv ==
    /\ TypeOK /\ AtOnePlace /\ ListsIntact
    /\ DeferInv /\ WorkInv /\ LockInv /\ ShutdownInv

DefinedInv ==
    /\ thread \in [Threads -> {"run", "stop", "exited", "astray"}]
    /\ Defined => Inv
=============================================================================

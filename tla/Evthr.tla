------------------------------- MODULE Evthr -------------------------------
(***************************************************************************)
(* A worker thread of thread.c: evthr_defer puts a command on the thread's *)
(* mpsc queue and wakes it through an eventfd; the thread's event loop     *)
(* reads the eventfd and runs commands until a poll does not return one.   *)
(* evthr_stop breaks the loop through a second eventfd and joins.          *)
(*                                                                         *)
(* The poll loop gives up on MPSC_QUEUE_RETRY as it does on                *)
(* MPSC_QUEUE_EMPTY (thread.c:118), so it relies on the wakeup that the    *)
(* inserting thread writes after it has linked its node.                   *)
(***************************************************************************)
EXTENDS MpscQueue

CONSTANT MaxCount   \* the largest value of an eventfd counter

ASSUME MaxCountAssumption == MaxCount \in Nat \ {0}

VARIABLES
    msg_fd,    \* the counter of thread->msg_fd
    stop_fd,   \* the counter of thread->stop_fd
    thr,       \* where the thread is in _evthr_loop
    defer,     \* per producer: idle, or about to write msg_fd
    stopper    \* where the caller of evthr_stop and evthr_free is

thrVars == <<msg_fd, stop_fd, thr, defer, stopper>>
vars    == <<queueVars, thrVars>>

\* evthr_new: the eventfds are created with counter 0.
ThrInit ==
    /\ Init
    /\ msg_fd = 0 /\ stop_fd = 0
    /\ thr = "new"
    /\ defer = [p \in Producers |-> "idle"]
    /\ stopper = "none"

-----------------------------------------------------------------------------
(* evthr_defer, on a thread that was not freed; a failing calloc queues nothing *)

DeferInsert(p, n) ==
    /\ defer[p] = "idle" /\ stopper # "freed"
    /\ InsertExchange(p, n)
    /\ UNCHANGED thrVars

DeferLink(p) ==
    /\ InsertLink(p)
    /\ defer' = [defer EXCEPT ![p] = "write"]
    /\ UNCHANGED <<msg_fd, stop_fd, thr, stopper>>

\* write(thread->msg_fd): EVTHR_RES_OK, or EVTHR_RES_RETRY when the counter is
\* at its largest value and the write fails with EAGAIN.
DeferWake(p) ==
    /\ defer[p] = "write"
    /\ defer' = [defer EXCEPT ![p] = "idle"]
    /\ msg_fd' = IF msg_fd < MaxCount THEN msg_fd + 1 ELSE msg_fd
    /\ UNCHANGED <<queueVars, stop_fd, thr, stopper>>

-----------------------------------------------------------------------------
(* the thread *)

\* evthr_start and _evthr_loop up to event_base_loop.
Loop ==
    /\ thr = "new"
    /\ thr' = "loop"
    /\ UNCHANGED <<queueVars, msg_fd, stop_fd, defer, stopper>>

\* _evthr_read_cmd on msg_fd: the read resets the counter.
ReadMsg ==
    /\ thr = "loop" /\ msg_fd > 0
    /\ msg_fd' = 0
    /\ thr' = "running"
    /\ UNCHANGED <<queueVars, stop_fd, defer, stopper>>

\* A step of mpsc_queue_poll in _evthr_run_callbacks.
RunPoll ==
    /\ thr = "running"
    /\ Poll
    /\ UNCHANGED thrVars

\* Mutant: the eventfd is read after the queue was drained, not before.
RunCallbackDrains ==
    /\ thr = "running"
    /\ PollAgain
    /\ thr' = IF cons.res = "ITEM" THEN "running" ELSE "loop"
    /\ msg_fd' = IF cons.res = "ITEM" THEN msg_fd ELSE 0
    /\ UNCHANGED <<stop_fd, defer, stopper>>

\* The poll returned a command: run its callback and free it, or stop.
RunCallback ==
    /\ thr = "running"
    /\ PollAgain
    /\ thr' = IF cons.res = "ITEM" THEN "running" ELSE "loop"
    /\ UNCHANGED <<msg_fd, stop_fd, defer, stopper>>

\* Mutant: the stop message is read and the loop goes on.
ReadStopNoBreak ==
    /\ thr = "loop" /\ stop_fd > 0
    /\ stop_fd' = 0
    /\ UNCHANGED <<queueVars, msg_fd, thr, defer, stopper>>

\* _evthr_read_cmd on stop_fd: event_base_loopbreak; the loop returns and the
\* exit callback runs.
ReadStop ==
    /\ thr = "loop" /\ stop_fd > 0
    /\ stop_fd' = 0
    /\ thr' = "exited"
    /\ UNCHANGED <<queueVars, msg_fd, defer, stopper>>

-----------------------------------------------------------------------------
(* evthr_stop, then evthr_free by the same caller, once no defer is under way *)

Stop ==
    /\ stopper = "none" /\ thr # "new"
    /\ stop_fd' = stop_fd + 1
    /\ stopper' = "join"
    /\ UNCHANGED <<queueVars, msg_fd, thr, defer>>

Join ==
    /\ stopper = "join" /\ thr = "exited"
    /\ stopper' = "joined"
    /\ UNCHANGED <<queueVars, msg_fd, stop_fd, thr, defer>>

Free ==
    /\ stopper = "joined"
    /\ \A p \in Producers : defer[p] = "idle" /\ prod[p].pc = "idle"
    /\ stopper' = "freed"
    /\ UNCHANGED <<queueVars, msg_fd, stop_fd, thr, defer>>

-----------------------------------------------------------------------------
Worker == Loop \/ ReadMsg \/ RunPoll \/ RunCallback \/ ReadStop

Defer(p) ==
    \/ \E n \in Nodes : DeferInsert(p, n)
    \/ DeferLink(p)
    \/ DeferWake(p)

ThrNext == Worker \/ (\E p \in Producers : Defer(p)) \/ Stop \/ Join \/ Free

ThrSpec == ThrInit /\ [][ThrNext]_vars

\* The thread is scheduled and its event loop serves both eventfds; a thread
\* inside evthr_defer or evthr_stop goes on.
ThrFairSpec ==
    /\ ThrSpec
    /\ WF_vars(Worker)
    /\ WF_vars(ReadStop)
    /\ WF_vars(Join)
    /\ \A p \in Producers : WF_vars(DeferLink(p) \/ DeferWake(p))

-----------------------------------------------------------------------------
(* Properties *)

ThrTypeOK ==
    /\ TypeOK
    /\ msg_fd \in 0 .. MaxCount /\ stop_fd \in 0 .. 1
    /\ thr \in {"new", "loop", "running", "exited"}
    /\ defer \in [Producers -> {"idle", "write"}]
    /\ stopper \in {"none", "join", "joined", "freed"}

\* Every command that evthr_defer has queued is run, also the one whose defer
\* answered RETRY, unless somebody stops the thread.  Giving up on RETRY
\* (thread.c:118) loses no wakeup, because the thread that caused it has yet to
\* write the eventfd.
EventuallyRun ==
    \A i \in 1 .. MaxSent : Len(sent) >= i ~> Len(got) >= i \/ stopper # "none"

\* No thread is inside evthr_defer.
Quiet == \A p \in Producers : prod[p].pc = "idle" /\ defer[p] = "idle"

\* evthr_stop returns, provided that the senders fall silent some time, however
\* late: the thread then comes back from running callbacks to its loop, finds
\* stop_fd readable whatever is in its queue, and leaves.  While they keep the
\* queue filled it need not: nothing ends the loop of _evthr_run_callbacks but a
\* poll without an item (thread.c:118).
StopReturns == <>[]Quiet => (stopper = "join" ~> stopper \in {"joined", "freed"})

-----------------------------------------------------------------------------
\* Somebody has written msg_fd since the thread read it last, or is about to.
Wakeup == msg_fd > 0 \/ \E p \in Producers : prod[p].pc = "link" \/ defer[p] = "write"

\* No wakeup is lost: when the thread is in its event loop and a command is
\* queued, msg_fd is readable or will be written (thread.c:118 and 242).
NoLostWakeup == thr = "loop" /\ Len(got) < Len(sent) => Wakeup

\* Its inductive form: what a look at next or head that found nothing leaves
\* the thread to rely on.
WakeInv ==
    /\ thr # "running" => cons.pc = "load" /\ (Len(got) < Len(sent) => Wakeup)
    /\ cons.pc \in {"stubhead", "head"} => lo = Len(log) \/ Wakeup
    /\ cons.pc = "done" /\ cons.res # "ITEM" => Len(got) = Len(sent) \/ Wakeup
=============================================================================

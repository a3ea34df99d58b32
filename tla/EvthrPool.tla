----------------------------- MODULE EvthrPool -----------------------------
(***************************************************************************)
(* The calls of thread.c that send one command to every thread of a pool:  *)
(* evthr_pool_defer_all, evthr_pool_defer_all_sync, which waits for all of *)
(* them on a context on its own stack, and evthr_pool_defer_all_completed, *)
(* which also has each thread defer a completion back to the sender.       *)
(*                                                                         *)
(* The thread's queue is the FIFO that MpscQueue implements; that a queued *)
(* command is run is the subject of Evthr.  The callers are threads        *)
(* outside the pool.                                                       *)
(***************************************************************************)
EXTENDS Integers, Sequences, FiniteSets

CONSTANTS
    N,           \* pool->nthreads
    Callers,     \* the threads that use the pool
    MaxCalls,    \* bound: calls made by all callers together
    MaxFail      \* bound: calls cut short by a failing evthr_defer, and
                 \* completions of a call that are lost to one

ASSUME NAssumption == N \in Nat \ {0}
ASSUME BoundsAssumption ==
    MaxCalls \in Nat /\ MaxFail \in Nat

Threads == 0 .. N - 1

VARIABLES
    queue,        \* per thread: the commands queued
    cur,          \* per thread: the command it runs, or Idle
    call,         \* per caller: the call it is in, and its locals
    ctx,          \* per caller: ctx.nthreads of the context on its stack
    inbox,        \* per caller: completions queued to it in its last call
    lost,         \* history: completions of that call that could not be queued
    ran,          \* history: per caller, how often each thread ran its last call's cb
    calls,        \* calls made by all callers
    made,         \* per caller: calls made
    failed        \* history: the calls in which an evthr_defer failed

vars == <<queue, cur, call, ctx, inbox, lost, ran, calls, made, failed>>

Idle == [kind |-> "none"]
Kinds  == {"all", "sync", "completed"}
NoCall == [pc |-> "idle", kind |-> "none", i |-> 0]

\* A command carries its sender and the number of the call, which stands for
\* the identity of the stack frame its context is in.
Cmd(c, kind) == [kind |-> kind, from |-> c, id |-> made[c]]

Init ==
    /\ queue = [t \in Threads |-> <<>>]
    /\ cur = [t \in Threads |-> Idle]
    /\ call = [c \in Callers |-> NoCall]
    /\ ctx = [c \in Callers |-> 0]
    /\ inbox = [c \in Callers |-> 0] /\ lost = [c \in Callers |-> 0]
    /\ ran = [c \in Callers |-> [t \in Threads |-> 0]]
    /\ calls = 0 /\ made = [c \in Callers |-> 0]
    /\ failed = {}

\* evthr_defer queues the command and returns EVTHR_RES_OK ...
Defer(t, cmd) ==
    /\ queue' = [queue EXCEPT ![t] = Append(@, cmd)]
    /\ UNCHANGED failed

\* ... or something else: calloc failed and nothing is queued, or the command is
\* queued and the eventfd, being full, was not written.
DeferFails(t, cmd) ==
    /\ Cardinality(failed) < MaxFail
    /\ failed' = failed \cup {<<cmd.from, cmd.id>>}
    /\ UNCHANGED queue \/ queue' = [queue EXCEPT ![t] = Append(@, cmd)]

-----------------------------------------------------------------------------
(* evthr_pool_defer_all, _sync and _completed *)

AllStart(c, kind) ==
    /\ call[c] = NoCall /\ calls < MaxCalls
    /\ calls' = calls + 1
    /\ made' = [made EXCEPT ![c] = @ + 1]
    /\ call' = [call EXCEPT ![c] = [NoCall EXCEPT !.pc = "push", !.kind = kind]]
    /\ ctx' = [ctx EXCEPT ![c] = N]
    /\ inbox' = [inbox EXCEPT ![c] = 0] /\ lost' = [lost EXCEPT ![c] = 0]
    /\ ran' = [ran EXCEPT ![c] = [t \in Threads |-> 0]]
    /\ UNCHANGED <<queue, cur, failed>>

\* One turn of the loop of evthr_pool_defer_all.
AllPush(c) ==
    /\ call[c].pc = "push" /\ call[c].i < N
    /\ Defer(call[c].i, Cmd(c, call[c].kind))
    /\ call' = [call EXCEPT ![c].i = @ + 1]
    /\ UNCHANGED <<cur, ctx, inbox, lost, ran, calls, made>>

\* A turn whose evthr_defer fails ends the call, and the life of its context.
AllFail(c) ==
    /\ call[c].pc = "push" /\ call[c].i < N
    /\ DeferFails(call[c].i, Cmd(c, call[c].kind))
    /\ call' = [call EXCEPT ![c] = NoCall]
    /\ UNCHANGED <<cur, ctx, inbox, lost, ran, calls, made>>

\* Mutant: a synchronous call returns without waiting.
AllPushedNoWait(c) ==
    /\ call[c].pc = "push" /\ call[c].i = N
    /\ call' = [call EXCEPT ![c] = NoCall]
    /\ UNCHANGED <<queue, cur, ctx, inbox, lost, ran, calls, made, failed>>

\* The loop is over: a plain defer_all returns, the others wait.
AllPushed(c) ==
    /\ call[c].pc = "push" /\ call[c].i = N
    /\ call' = [call EXCEPT ![c] = IF @.kind = "all" THEN NoCall ELSE [@ EXCEPT !.pc = "check"]]
    /\ UNCHANGED <<queue, cur, ctx, inbox, lost, ran, calls, made, failed>>

\* Mutant: the wait ends when one thread is left.
SyncCheckLast(c) ==
    /\ call[c].pc = "check"
    /\ call' = [call EXCEPT ![c] = IF ctx[c] > 1 THEN [@ EXCEPT !.pc = "wait"] ELSE NoCall]
    /\ UNCHANGED <<queue, cur, ctx, inbox, lost, ran, calls, made, failed>>

\* while (ctx.nthreads > 0) pthread_cond_wait(): one critical section of mut.
SyncCheck(c) ==
    /\ call[c].pc = "check"
    /\ call' = [call EXCEPT ![c] = IF ctx[c] > 0 THEN [@ EXCEPT !.pc = "wait"] ELSE NoCall]
    /\ UNCHANGED <<queue, cur, ctx, inbox, lost, ran, calls, made, failed>>

-----------------------------------------------------------------------------
(* a thread of the pool *)

\* The call that sent the command has not returned, so its stack frame is there.
Live(cmd) == cmd.id = made[cmd.from] /\ call[cmd.from].pc \in {"push", "check", "wait"}

\* The end of defer_completed_cb: evthr_defer queues the completion to the
\* sender, or has no memory for it; the result is ignored.
Complete(c) ==
    \/ inbox' = [inbox EXCEPT ![c] = @ + 1] /\ UNCHANGED lost
    \/ lost[c] < MaxFail /\ lost' = [lost EXCEPT ![c] = @ + 1] /\ UNCHANGED inbox

\* Poll a command and run its callback: for the synchronous calls that is the
\* first line of defer_sync_cb.
RunCb(t) ==
    /\ cur[t] = Idle /\ queue[t] # <<>>
    /\ LET cmd     == Head(queue[t])
           current == cmd.id = made[cmd.from]
       IN
       /\ queue' = [queue EXCEPT ![t] = Tail(@)]
       /\ cur' = [cur EXCEPT ![t] = IF cmd.kind \in {"sync", "completed"} THEN cmd ELSE Idle]
       /\ ran' = IF current THEN [ran EXCEPT ![cmd.from][t] = @ + 1] ELSE ran
       /\ IF current /\ cmd.kind = "completed" THEN Complete(cmd.from)
                                              ELSE UNCHANGED <<inbox, lost>>
    /\ UNCHANGED <<call, ctx, calls, made, failed>>

\* The caller is in a synchronous call; its context may lie where that of an
\* earlier call did.
InSyncCall(c) == call[c].kind \in {"sync", "completed"}

\* ctx->nthreads is a size_t: decremented at 0 it wraps.
CtxMod == N + 2

\* Mutant: the condition is not signalled.
DecrementNoSignal(c) ==
    /\ ctx' = [ctx EXCEPT ![c] = (@ + CtxMod - 1) % CtxMod]
    /\ UNCHANGED call

\* --ctx->nthreads and the signal
Decrement(c) ==
    /\ ctx' = [ctx EXCEPT ![c] = (@ + CtxMod - 1) % CtxMod]
    /\ call' = IF call[c].pc = "wait" THEN [call EXCEPT ![c].pc = "check"] ELSE call

\* The critical section of defer_sync_cb.  A context whose call has returned is
\* dead stack: the write has no effect, or hits the context of the sender's
\* current call.
RunSignal(t) ==
    /\ cur[t] # Idle
    /\ cur' = [cur EXCEPT ![t] = Idle]
    /\ LET c == cur[t].from
       IN \/ (Live(cur[t]) \/ InSyncCall(c)) /\ Decrement(c)
          \/ ~Live(cur[t]) /\ UNCHANGED <<ctx, call>>
    /\ UNCHANGED <<queue, inbox, lost, ran, calls, made, failed>>

-----------------------------------------------------------------------------
Caller(c) ==
    \/ \E kind \in Kinds : AllStart(c, kind)
    \/ AllPush(c) \/ AllFail(c) \/ AllPushed(c) \/ SyncCheck(c)

Thread(t) == RunCb(t) \/ RunSignal(t)

Next == (\E c \in Callers : Caller(c)) \/ (\E t \in Threads : Thread(t))

Spec == Init /\ [][Next]_vars

\* The threads of the pool run what they are sent (Evthr!EventuallyRun), and a
\* caller inside a call goes on with it.
FairSpec ==
    /\ Spec
    /\ \A t \in Threads : WF_vars(Thread(t))
    /\ \A c \in Callers : WF_vars(AllPush(c) \/ AllPushed(c) \/ SyncCheck(c))

-----------------------------------------------------------------------------
(* Properties *)

Commands == [kind : Kinds, from : Callers, id : 1 .. MaxCalls]

TypeOK ==
    /\ queue \in [Threads -> Seq(Commands)]
    /\ cur \in [Threads -> Commands \cup {Idle}]
    /\ call \in [Callers -> [pc   : {"idle", "push", "check", "wait"},
                             kind : Kinds \cup {"none"}, i : 0 .. N]]
    /\ ctx \in [Callers -> 0 .. CtxMod - 1]
    /\ inbox \in [Callers -> 0 .. N] /\ lost \in [Callers -> 0 .. MaxFail]
    /\ ran \in [Callers -> [Threads -> Nat]]
    /\ calls \in 0 .. MaxCalls /\ made \in [Callers -> 0 .. MaxCalls]
    /\ failed \subseteq Callers \X (1 .. MaxCalls)

\* No evthr_defer of a command has failed in a call of c so far.
NeverFailed(c) == \A id \in 1 .. MaxCalls : <<c, id>> \notin failed

\* evthr_pool_defer_all_sync is a barrier: when it returns after its wait, every
\* thread of the pool has run the callback exactly once; for
\* evthr_pool_defer_all_completed every thread has also called evthr_defer for its
\* completion, and all of them are queued to the caller but those whose
\* evthr_defer failed, of which nobody is told (thread.c:641).  A caller one of
\* whose calls was cut short by a failing evthr_defer has no such guarantee any
\* more: that call left pointers to its context behind.
SyncBarrier ==
    [][\A c \in Callers :
         (NeverFailed(c) /\ call[c].pc = "check" /\ call'[c].pc = "idle") =>
            /\ \A t \in Threads : ran[c][t] = 1
            /\ call[c].kind = "completed" => inbox[c] + lost[c] = N]_vars

\* The commands of a synchronous call that are queued or run.
SyncCommands ==
    (UNION {{queue[t][k] : k \in 1 .. Len(queue[t])} \cup {cur[t]} : t \in Threads})
      \cap [kind : {"sync", "completed"}, from : Callers, id : 1 .. MaxCalls]

\* The context of a synchronous call lives on the caller's stack; a command that
\* still points to it when the call has returned belongs to a caller one of
\* whose calls evthr_pool_defer_all cut short (thread.c:614).
DanglingOnlyAfterFailure ==
    \A cmd \in SyncCommands : Live(cmd) \/ ~NeverFailed(cmd.from)

\* A synchronous call returns, however the signals and the waits interleave.
SyncReturns ==
    \A c \in Callers : InSyncCall(c) ~> (call[c].pc = "idle" \/ ~NeverFailed(c))

-----------------------------------------------------------------------------
(* The inductive invariant *)

Mine(c, cmd) == cmd.from = c /\ cmd.id = made[c]

\* Where the command of c's call to thread t is: its queue, or run by it.
InQueue(c, t) == \E k \in 1 .. Len(queue[t]) : Mine(c, queue[t][k])
Running(c, t) == cur[t] # Idle /\ Mine(c, cur[t])

\* The threads whose decrement of ctx.nthreads is to come.
Outstanding(c) == {t \in Threads : t >= call[c].i \/ InQueue(c, t) \/ Running(c, t)}

PoolType ==
    /\ queue \in [Threads -> Seq(Commands)]
    /\ cur \in [Threads -> Commands \cup {Idle}]
    /\ call \in [Callers -> [pc   : {"idle", "push", "check", "wait"},
                             kind : Kinds \cup {"none"}, i : 0 .. N]]
    /\ ctx \in [Callers -> 0 .. CtxMod - 1]
    /\ inbox \in [Callers -> Nat] /\ lost \in [Callers -> Nat]
    /\ ran \in [Callers -> [Threads -> Nat]]
    /\ calls \in 0 .. MaxCalls /\ made \in [Callers -> 0 .. MaxCalls]
    /\ failed \subseteq Callers \X (1 .. MaxCalls)

CallInv(c) ==
    /\ made[c] <= calls
    /\ call[c].pc = "idle" => call[c] = NoCall
    /\ call[c].pc # "idle" => made[c] >= 1 /\ call[c].kind \in Kinds
    /\ call[c].pc \in {"check", "wait"} => call[c].i = N /\ call[c].kind # "all"

\* A command belongs to a call that was made; if that is the call its sender is
\* in, it is of the call's kind.
Made(cmd) ==
    /\ cmd.id <= made[cmd.from]
    /\ cmd.id = made[cmd.from] /\ call[cmd.from].pc # "idle" => cmd.kind = call[cmd.from].kind

CommandInv(t) ==
    /\ \A k \in 1 .. Len(queue[t]) : Made(queue[t][k])
    /\ cur[t] # Idle => Made(cur[t]) /\ cur[t].kind # "all"

\* During a call each thread gets one command, and has run it when it is off the
\* thread's queue.
StageInv(c, t) ==
    call[c].pc # "idle" =>
        /\ \A k, l \in 1 .. Len(queue[t]) :
             Mine(c, queue[t][k]) /\ Mine(c, queue[t][l]) => k = l
        /\ InQueue(c, t) => t < call[c].i
        /\ Running(c, t) => t < call[c].i /\ ~InQueue(c, t)
        /\ ran[c][t] = IF t < call[c].i /\ ~InQueue(c, t) THEN 1 ELSE 0

\* As long as no defer of c failed, the commands that point to a context of c
\* belong to the call c is in.
PointerInv(c, t) ==
    NeverFailed(c) =>
        /\ \A k \in 1 .. Len(queue[t]) :
             queue[t][k].from = c /\ queue[t][k].kind # "all" => Live(queue[t][k])
        /\ cur[t] # Idle /\ cur[t].from = c => Live(cur[t])

\* The counters of a synchronous call: nthreads, which only the call's own
\* commands decrement unless a defer of c failed, and the completions.
CountInv(c) ==
    /\ NeverFailed(c) /\ InSyncCall(c) => ctx[c] = Cardinality(Outstanding(c))
    /\ call[c].kind = "completed" =>
         inbox[c] + lost[c] = Cardinality({t \in Threads : ran[c][t] = 1})

PoolInv ==
    /\ PoolType
    /\ \A c \in Callers : CallInv(c) /\ CountInv(c)
    /\ \A t \in Threads : CommandInv(t)
    /\ \A c \in Callers, t \in Threads : StageInv(c, t) /\ PointerInv(c, t)
=============================================================================

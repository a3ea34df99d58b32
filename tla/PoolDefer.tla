----------------------------- MODULE PoolDefer -----------------------------
(***************************************************************************)
(* The choice of a thread by evthr_pool_defer of thread.c: a ticket names  *)
(* one candidate, the thread half a pool further the other, and the one    *)
(* that was chosen less often gets the command.  The counter the code      *)
(* calls a backlog, thread->tail, is incremented by every choice and never *)
(* decremented (WITH_HEAD is off), so it counts the commands ever sent.    *)
(*                                                                         *)
(* Several threads may call evthr_pool_defer on one pool; each atomic      *)
(* access is a step.  Server gives the steps their callers.                *)
(***************************************************************************)
EXTENDS Integers, FiniteSets

CONSTANTS
    N,           \* pool->nthreads
    Callers,     \* the threads that call evthr_pool_defer
    TicketMod,   \* next_choice counts modulo this (2^32 in the code)
    MaxTail      \* bound: how often a thread is chosen

ASSUME NAssumption == N \in Nat /\ N >= 2
ASSUME BoundsAssumption == TicketMod \in Nat \ {0} /\ MaxTail \in Nat

Threads == 0 .. N - 1

VARIABLES
    next_choice,  \* pool->next_choice
    tail,         \* thread->tail of every thread
    call          \* per caller: where it is in evthr_pool_defer, and its locals

pool_vars == <<next_choice, tail, call>>

NoCall == [pc |-> "idle", i |-> 0, a |-> 0, b |-> 0]

PoolInit ==
    /\ next_choice = 0
    /\ tail = [t \in Threads |-> 0]
    /\ call = [c \in Callers |-> NoCall]

\* get_second_index_
SecondIndex(i) == (i + (IF N \div 2 = 0 THEN 1 ELSE N \div 2)) % N

\* ticket = next_choice++; i = ticket % nthreads
Ticket(c) ==
    /\ call[c].pc = "idle"
    /\ \A t \in Threads : tail[t] < MaxTail
    /\ next_choice' = (next_choice + 1) % TicketMod
    /\ call' = [call EXCEPT ![c] = [NoCall EXCEPT !.pc = "loadA", !.i = next_choice % N]]
    /\ UNCHANGED tail

\* tail++ and evthr_defer
Send(c, t) ==
    /\ tail' = [tail EXCEPT ![t] = @ + 1]
    /\ call' = [call EXCEPT ![c] = NoCall]
    /\ UNCHANGED next_choice

\* A candidate that was never chosen is taken when the caller has seen so; its
\* counter is incremented in a later step.
LoadA(c) ==
    /\ call[c].pc = "loadA"
    /\ call' = [call EXCEPT ![c].a = tail[call[c].i],
                            ![c].pc = IF tail[call[c].i] = 0 THEN "sendA" ELSE "loadB"]
    /\ UNCHANGED <<next_choice, tail>>

\* Mutant: the thread with the longer backlog is chosen.
LoadBSwapped(c) ==
    /\ call[c].pc = "loadB"
    /\ LET b == tail[SecondIndex(call[c].i)] IN
       call' = [call EXCEPT ![c].b = b,
                            ![c].pc = IF b # 0 /\ call[c].a > b THEN "sendA" ELSE "sendB"]
    /\ UNCHANGED <<next_choice, tail>>

LoadB(c) ==
    /\ call[c].pc = "loadB"
    /\ LET b == tail[SecondIndex(call[c].i)] IN
       call' = [call EXCEPT ![c].b = b,
                            ![c].pc = IF b # 0 /\ call[c].a <= b THEN "sendA" ELSE "sendB"]
    /\ UNCHANGED <<next_choice, tail>>

SendA(c) == call[c].pc = "sendA" /\ Send(c, call[c].i)
SendB(c) == call[c].pc = "sendB" /\ Send(c, SecondIndex(call[c].i))

-----------------------------------------------------------------------------
\* In a pool of two threads, however the loads and increments of concurrent
\* callers interleave, and across the wrap of the ticket counter, no thread is
\* sent more commands than the other beyond one per concurrent caller.
Balance == \A t, u \in Threads : tail[t] - tail[u] <= Cardinality(Callers)
=============================================================================

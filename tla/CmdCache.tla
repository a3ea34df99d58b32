------------------------------ MODULE CmdCache ------------------------------
(***************************************************************************)
(* The recycling of commands in thread.c.  A sender takes a spent command  *)
(* out of its cache, the ring msg_cache_c/msg_cache_p of its own evthr, or *)
(* callocs one (evthr_defer); the worker that has run the command puts it  *)
(* back into the ring of its sender, or frees it when the ring is full     *)
(* (_evthr_run_callbacks).  The sender chooses the worker, so every worker *)
(* of a pool is a producer on the sender's ring.                           *)
(*                                                                         *)
(* Producers are the workers, Data the commands.  The queues to the        *)
(* workers are sets: Evthr shows that each queued command is run once.     *)
(***************************************************************************)
EXTENDS SpscQueue, FiniteSets

VARIABLES
    alloc,    \* the commands that are allocated
    queued    \* per worker: the commands on its queue

cacheVars == <<vars, alloc, queued>>

CacheInit ==
    /\ Init
    /\ alloc = {}
    /\ queued = [w \in Producers |-> {}]

-----------------------------------------------------------------------------
(* evthr_defer by the sender, to a worker of its choice *)

SenderLoad == DequeueLoad /\ UNCHANGED <<alloc, queued>>

SenderReload == DequeueReload /\ tail # head /\ UNCHANGED <<alloc, queued>>

\* The cache is empty: calloc.
SenderMiss(w, c) ==
    /\ DequeueReload /\ tail = head
    /\ c \notin alloc
    /\ alloc' = alloc \cup {c}
    /\ queued' = [queued EXCEPT ![w] = @ \cup {c}]

SenderSlot == DequeueSlot /\ UNCHANGED <<alloc, queued>>

\* The command from the cache is queued to the worker.
SenderHit(w) ==
    /\ DequeueStore
    /\ queued' = [queued EXCEPT ![w] = @ \cup {cons.data}]
    /\ UNCHANGED alloc

-----------------------------------------------------------------------------
(* _evthr_run_callbacks of a worker: run a command, then give it back *)

WorkerRun(w) ==
    \E c \in queued[w] :
        /\ EnqueueLoad(w, c)
        /\ queued' = [queued EXCEPT ![w] = @ \ {c}]
        /\ UNCHANGED alloc

\* Mutant: a command that does not fit into the ring is not freed.
WorkerReloadLeaks(w) == EnqueueReload(w) /\ UNCHANGED <<alloc, queued>>

\* The ring may be full: free(cmd).
WorkerReload(w) ==
    /\ EnqueueReload(w)
    /\ alloc' = IF prod'[w].pc = "idle" THEN alloc \ {prod[w].data} ELSE alloc
    /\ UNCHANGED queued

WorkerSlot(w) == EnqueueSlot(w) /\ UNCHANGED <<alloc, queued>>

WorkerStore(w) == EnqueueStore(w) /\ UNCHANGED <<alloc, queued>>

-----------------------------------------------------------------------------
Sender ==
    \/ SenderLoad \/ SenderReload \/ SenderSlot
    \/ \E w \in Producers : SenderHit(w) \/ (\E c \in Data : SenderMiss(w, c))

Worker(w) == WorkerRun(w) \/ WorkerReload(w) \/ WorkerSlot(w) \/ WorkerStore(w)

CacheNext == Sender \/ (\E w \in Producers : Worker(w))

CacheSpec == CacheInit /\ [][CacheNext]_cacheVars

-----------------------------------------------------------------------------
(* Properties *)

\* Where a command is: on the queues of workers, in the hands of workers, in
\* slots of the ring between tail and head.
QueuedAt(c) == {w \in Producers : c \in queued[w]}
HeldBy(c) == {w \in Producers : prod[w].pc # "idle" /\ prod[w].data = c}
SlotsOf(c) == {s \in Slots : Dist(tail, s) < Dist(tail, head) /\ buf[s] = c}

Places(c) ==
    {<<"queue", w>> : w \in QueuedAt(c)} \cup {<<"hand", w>> : w \in HeldBy(c)}
      \cup {<<"slot", s>> : s \in SlotsOf(c)}

\* Commands are conserved: an allocated command is in exactly one place, so
\* none leaks and none is queued twice; a freed one is nowhere, so the sender
\* never gets a freed command or the garbage of an unwritten slot.
OneOwner ==
    \A c \in Data : Cardinality(Places(c)) = IF c \in alloc THEN 1 ELSE 0

-----------------------------------------------------------------------------
(* The inductive invariant, with one worker *)

CacheType == alloc \subseteq Data /\ queued \in [Producers -> SUBSET Data]

Owned ==
    \A c \in Data : IF c \in alloc THEN \E x \in Places(c) : Places(c) = {x}
                                   ELSE Places(c) = {}

\* That of the ring, and a place for every command.
OwnerInv == Inv /\ CacheType /\ Owned
=============================================================================

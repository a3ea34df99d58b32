-------------------------- MODULE EvthrPoolProofs --------------------------
(***************************************************************************)
(* Proofs about the calls that send a command to every thread of a pool,   *)
(* for every number of threads and callers and every bound: a synchronous  *)
(* call is a barrier, and no command points to the context of a call that  *)
(* has returned, unless an evthr_defer of that caller failed.              *)
(***************************************************************************)
EXTENDS EvthrPool, FiniteSetTheorems, TLAPS

\* What Append does to a sequence, as a set of facts about the result.
LEMMA AppendFacts ==
    ASSUME NEW S, NEW s \in Seq(S), NEW e \in S
    PROVE  /\ Append(s, e) \in Seq(S)
           /\ Len(s) \in Nat /\ Len(Append(s, e)) = Len(s) + 1
           /\ \A i \in 1 .. Len(s) : Append(s, e)[i] = s[i]
           /\ Append(s, e)[Len(s) + 1] = e
OBVIOUS

\* The same for Head and Tail.
LEMMA TailFacts ==
    ASSUME NEW S, NEW s \in Seq(S), s # << >>
    PROVE  /\ Head(s) \in S /\ Head(s) = s[1] /\ Len(s) \in Nat \ {0}
           /\ Tail(s) \in Seq(S) /\ Len(Tail(s)) = Len(s) - 1
           /\ \A i \in 1 .. Len(s) - 1 : Tail(s)[i] = s[i + 1]
OBVIOUS

\* The elements of a sequence over S are in S.
LEMMA ElementFact == ASSUME NEW S, NEW s \in Seq(S), NEW i \in 1 .. Len(s) PROVE s[i] \in S
OBVIOUS

\* --ctx->nthreads does not wrap while a thread is outstanding.
LEMMA DecrementFact ==
    \A n \in Nat, a \in Nat : 1 <= a /\ a <= n => (a + (n + 2) - 1) % (n + 2) = a - 1
OBVIOUS

\* nthreads stays a size_t.
LEMMA DecrementType ==
    \A n \in Nat, a \in Nat : (a + (n + 2) - 1) % (n + 2) \in 0 .. (n + 2) - 1
OBVIOUS

\* The threads of the pool are N.
LEMMA ThreadsFinite ==
    /\ IsFiniteSet(Threads) /\ Cardinality(Threads) = N
    /\ \A T \in SUBSET Threads : IsFiniteSet(T) /\ Cardinality(T) \in 0 .. N
<1>1. IsFiniteSet(Threads) /\ Cardinality(Threads) = N
      BY NAssumption, FS_Interval DEF Threads
<1>2. ASSUME NEW T \in SUBSET Threads
      PROVE  IsFiniteSet(T) /\ Cardinality(T) \in 0 .. N
      <2>1. IsFiniteSet(T) /\ Cardinality(T) <= N
            BY <1>1, FS_Subset
      <2>2. Cardinality(T) \in Nat
            BY <2>1, FS_CardinalityType
      <2> QED BY <2>1, <2>2, NAssumption
<1> QED BY <1>1, <1>2

\* The commands on queues and in hands are commands.
LEMMA CommandsTyped ==
    ASSUME PoolType
    PROVE  /\ \A t \in Threads : /\ queue[t] \in Seq(Commands) /\ Len(queue[t]) \in Nat
                                 /\ cur[t] # Idle => cur[t] \in Commands
           /\ \A t \in Threads : \A k \in 1 .. Len(queue[t]) : queue[t][k] \in Commands
<1>1. \A t \in Threads : /\ queue[t] \in Seq(Commands) /\ Len(queue[t]) \in Nat
                         /\ cur[t] # Idle => cur[t] \in Commands
      BY DEF PoolType
<1> HIDE DEF Commands
<1>2. ASSUME NEW t \in Threads, NEW k \in 1 .. Len(queue[t])
      PROVE  queue[t][k] \in Commands
      BY <1>1, ElementFact
<1> QED BY <1>1, <1>2

\* What PoolInv says of the state, conjunct by conjunct.
LEMMA PoolParts ==
    ASSUME PoolInv
    PROVE  /\ PoolType
           /\ \A c \in Callers : CallInv(c) /\ CountInv(c)
           /\ \A t \in Threads : CommandInv(t)
           /\ \A c \in Callers, t \in Threads : StageInv(c, t) /\ PointerInv(c, t)
BY DEF PoolInv

\* The step of one caller leaves another one, d, alone: what it may add to a queue
\* is not a command of d.
LEMMA OtherCaller ==
    ASSUME PoolInv, NEW d \in Callers, UNCHANGED cur,
           call'[d] = call[d], made'[d] = made[d], ctx'[d] = ctx[d],
           inbox'[d] = inbox[d], lost'[d] = lost[d], ran'[d] = ran[d],
           calls' \in Nat, calls <= calls', NeverFailed(d)' => NeverFailed(d),
           \A t \in Threads :
              \/ queue'[t] = queue[t]
              \/ \E cmd \in Commands : cmd.from # d /\ queue'[t] = Append(queue[t], cmd)
    PROVE  /\ CallInv(d)' /\ CountInv(d)'
           /\ \A t \in Threads : StageInv(d, t)' /\ PointerInv(d, t)'
<1>1. /\ PoolType /\ CallInv(d) /\ CountInv(d)
      /\ \A t \in Threads : StageInv(d, t) /\ PointerInv(d, t)
      BY PoolParts, Zenon
<1>2. \A t \in Threads : queue[t] \in Seq(Commands) /\ Len(queue[t]) \in Nat
      BY <1>1, CommandsTyped, Zenon
<1>3. ASSUME NEW t \in Threads
      PROVE  /\ Len(queue'[t]) \in Nat /\ Len(queue[t]) <= Len(queue'[t])
             /\ \A k \in 1 .. Len(queue[t]) : queue'[t][k] = queue[t][k]
             /\ \A k \in 1 .. Len(queue'[t]) :
                   k \in 1 .. Len(queue[t]) \/ queue'[t][k].from # d
      <2>1. CASE queue'[t] = queue[t]
            BY <1>2, <2>1
      <2>2. CASE \E cmd \in Commands : cmd.from # d /\ queue'[t] = Append(queue[t], cmd)
            <3>1. PICK cmd \in Commands : cmd.from # d /\ queue'[t] = Append(queue[t], cmd)
                  BY <2>2
            <3>2. /\ Len(queue'[t]) = Len(queue[t]) + 1
                  /\ \A k \in 1 .. Len(queue[t]) : queue'[t][k] = queue[t][k]
                  /\ queue'[t][Len(queue[t]) + 1] = cmd
                  BY <1>2, <3>1, AppendFacts
            <3> QED BY <1>2, <3>1, <3>2
      <2> QED BY <2>1, <2>2, Zenon
<1>4. \A t \in Threads : \A k \in 1 .. Len(queue'[t]) :
         /\ Mine(d, queue[t][k])' => k \in 1 .. Len(queue[t]) /\ Mine(d, queue[t][k])
         /\ k \in 1 .. Len(queue[t]) /\ Mine(d, queue[t][k]) => Mine(d, queue[t][k])'
      BY <1>3 DEF Mine
<1>5. ASSUME NEW t \in Threads
      PROVE  /\ InQueue(d, t)' <=> InQueue(d, t)
             /\ Running(d, t)' <=> Running(d, t)
      <2>1. \A k \in 1 .. Len(queue[t]) : k \in 1 .. Len(queue'[t])
            BY <1>2, <1>3
      <2> QED BY <1>4, <2>1, Zenon DEF InQueue, Running, Mine
<1>6. CallInv(d)'
      BY <1>1 DEF CallInv, PoolType
<1>7. CountInv(d)'
      <2>1. Outstanding(d)' = Outstanding(d)
            BY <1>5, Zenon DEF Outstanding
      <2> QED BY <1>1, <2>1 DEF CountInv, InSyncCall
<1>8. ASSUME NEW t \in Threads
      PROVE  StageInv(d, t)'
      BY <1>1, <1>4, <1>5 DEF StageInv
<1>9. ASSUME NEW t \in Threads
      PROVE  PointerInv(d, t)'
      <2> SUFFICES ASSUME NeverFailed(d)' PROVE PointerInv(d, t)'
          BY Zenon DEF PointerInv
      <2>1. ASSUME NEW k \in 1 .. Len(queue'[t]),
                   queue'[t][k].from = d, queue'[t][k].kind # "all"
            PROVE  Live(queue[t][k])'
            <3>1. k \in 1 .. Len(queue[t]) /\ queue'[t][k] = queue[t][k]
                  BY <1>3, <2>1, Zenon
            <3>2. Live(queue[t][k])
                  BY <1>1, <2>1, <3>1, Zenon DEF PointerInv
            <3> QED BY <2>1, <3>1, <3>2 DEF Live
      <2>2. ASSUME cur'[t] # Idle, cur'[t].from = d
            PROVE  Live(cur[t])'
            BY <1>1, <2>2 DEF PointerInv, Live
      <2> QED BY <2>1, <2>2 DEF PointerInv
<1> QED BY <1>6, <1>7, <1>8, <1>9

\* A call keeps its kind, so commands stay in line with the calls they belong to.
LEMMA CommandsKept ==
    ASSUME PoolInv, UNCHANGED cur, made' \in [Callers -> Nat],
           \A d \in Callers :
              /\ made[d] <= made'[d]
              /\ made'[d] = made[d] /\ call'[d].pc # "idle" =>
                    call[d].pc # "idle" /\ call'[d].kind = call[d].kind,
           \A t \in Threads :
              \/ queue'[t] = queue[t]
              \/ \E cmd \in Commands : Made(cmd)' /\ queue'[t] = Append(queue[t], cmd)
    PROVE  \A t \in Threads : CommandInv(t)'
<1>1. PoolType /\ \A t \in Threads : CommandInv(t)
      BY PoolParts, Zenon
<1>2. /\ \A t \in Threads : queue[t] \in Seq(Commands) /\ Len(queue[t]) \in Nat
      /\ \A t \in Threads : cur[t] # Idle => cur[t] \in Commands
      /\ \A t \in Threads : \A k \in 1 .. Len(queue[t]) : queue[t][k] \in Commands
      BY <1>1, CommandsTyped
<1>3. \A cmd \in Commands : Made(cmd) => Made(cmd)'
      <2> SUFFICES ASSUME NEW cmd \in Commands, Made(cmd) PROVE Made(cmd)'
          OBVIOUS
      <2>1. cmd.from \in Callers /\ cmd.id \in Nat
            BY DEF Commands
      <2>2. made[cmd.from] \in Nat /\ made'[cmd.from] \in Nat
            BY <1>1, <2>1 DEF PoolType
      <2> QED BY <2>1, <2>2 DEF Made
<1>4. ASSUME NEW t \in Threads
      PROVE  CommandInv(t)'
      <2>1. \A k \in 1 .. Len(queue[t]) : Made(queue[t][k])
            BY <1>1, Zenon DEF CommandInv
      <2>2. CASE queue'[t] = queue[t]
            BY <1>1, <1>2, <1>3, <2>1, <2>2 DEF CommandInv
      <2>3. CASE \E cmd \in Commands : Made(cmd)' /\ queue'[t] = Append(queue[t], cmd)
            <3>1. PICK cmd \in Commands : Made(cmd)' /\ queue'[t] = Append(queue[t], cmd)
                  BY <2>3
            <3>2. /\ Len(queue'[t]) = Len(queue[t]) + 1
                  /\ \A k \in 1 .. Len(queue[t]) : queue'[t][k] = queue[t][k]
                  /\ queue'[t][Len(queue[t]) + 1] = cmd
                  BY <1>2, <3>1, AppendFacts
            <3>3. ASSUME NEW k \in 1 .. Len(queue'[t])
                  PROVE  Made(queue[t][k])'
                  <4>1. CASE k = Len(queue[t]) + 1
                        BY <3>1, <3>2, <4>1, Zenon DEF Made
                  <4>2. CASE k # Len(queue[t]) + 1
                        <5>1. k \in 1 .. Len(queue[t])
                              BY <1>2, <3>2, <4>2
                        <5>2. queue'[t][k] = queue[t][k] /\ Made(queue[t][k])
                              BY <2>1, <3>2, <5>1
                        <5>3. PICK x \in Commands : x = queue[t][k]
                              BY <1>2, <5>1, Zenon
                        <5> QED BY <1>3, <5>2, <5>3 DEF Made
                  <4> QED BY <4>1, <4>2, Zenon
            <3>4. cur'[t] # Idle => Made(cur[t])' /\ cur'[t].kind # "all"
                  BY <1>1, <1>2, <1>3 DEF CommandInv, Made
            <3> QED BY <3>3, <3>4 DEF CommandInv
      <2> QED BY <2>2, <2>3
<1> QED BY <1>4

\* evthr_pool_defer_all and its variants start with no command of theirs on the
\* way and all threads outstanding.
LEMMA AllStartInv ==
    ASSUME PoolInv, NEW c \in Callers, NEW kind \in Kinds, AllStart(c, kind)
    PROVE  PoolInv'
<1>1. /\ PoolType /\ CallInv(c) /\ \A t \in Threads : CommandInv(t) /\ PointerInv(c, t)
      BY PoolParts
<1>2. /\ call[c] = NoCall /\ calls' = calls + 1 /\ made'[c] = made[c] + 1
      /\ calls \in Nat /\ made[c] \in Nat
      /\ call'[c].pc = "push" /\ call'[c].kind = kind /\ call'[c].i = 0
      /\ ctx'[c] = N /\ inbox'[c] = 0 /\ lost'[c] = 0 /\ \A t \in Threads : ran'[c][t] = 0
      /\ UNCHANGED <<queue, cur, failed>>
      BY <1>1 DEF AllStart, NoCall, PoolType
<1>3. \A d \in Callers : d # c =>
         /\ call'[d] = call[d] /\ made'[d] = made[d] /\ ctx'[d] = ctx[d]
         /\ inbox'[d] = inbox[d] /\ lost'[d] = lost[d] /\ ran'[d] = ran[d]
      BY <1>1 DEF AllStart, PoolType
<1>4. \A d \in Callers : NeverFailed(d)' <=> NeverFailed(d)
      BY <1>2 DEF NeverFailed
<1>5. PoolType'
      <2>1. calls' \in 0 .. MaxCalls /\ made' \in [Callers -> 0 .. MaxCalls]
            BY <1>1, BoundsAssumption DEF AllStart, PoolType, CallInv
      <2>2. call' \in [Callers -> [pc   : {"idle", "push", "check", "wait"},
                                   kind : Kinds \cup {"none"}, i : 0 .. N]]
            BY <1>1, NAssumption, Zenon DEF AllStart, PoolType, NoCall
      <2>3. ctx' \in [Callers -> 0 .. CtxMod - 1] /\ inbox' \in [Callers -> Nat]
               /\ lost' \in [Callers -> Nat]
            BY <1>1, NAssumption DEF AllStart, PoolType, CtxMod
      <2>4. ran' \in [Callers -> [Threads -> Nat]]
            BY <1>1 DEF AllStart, PoolType
      <2> QED BY <1>1, <1>2, <2>1, <2>2, <2>3, <2>4, Zenon DEF PoolType
<1>6. \A t \in Threads : CommandInv(t)'
      <2>1. made' \in [Callers -> Nat]
            BY <1>5, BoundsAssumption DEF PoolType
      <2>2. \A d \in Callers :
               /\ made[d] <= made'[d]
               /\ made'[d] = made[d] /\ call'[d].pc # "idle" =>
                     call[d].pc # "idle" /\ call'[d].kind = call[d].kind
            BY <1>1, <1>2, <1>3, SMTT(30) DEF PoolType
      <2> QED BY <1>2, <2>1, <2>2, CommandsKept
<1>7. ASSUME NEW t \in Threads
      PROVE  ~InQueue(c, t)' /\ ~Running(c, t)'
      BY <1>1, <1>2, CommandsTyped, SMTT(30) DEF InQueue, Running, Mine, CommandInv, Made, Commands
<1>8. CallInv(c)'
      BY <1>1, <1>2 DEF CallInv
<1>9. CountInv(c)'
      <2>1. Outstanding(c)' = Threads
            BY <1>2 DEF Outstanding, Threads
      <2>2. {t \in Threads : ran'[c][t] = 1} = {}
            BY <1>2
      <2>3. inbox'[c] + lost'[c] = 0
            BY <1>2
      <2> QED BY <1>2, <2>1, <2>2, <2>3, ThreadsFinite, FS_EmptySet, Zenon DEF CountInv
<1>10. ASSUME NEW t \in Threads
      PROVE  StageInv(c, t)' /\ PointerInv(c, t)'
      <2>1. StageInv(c, t)'
            BY <1>2, <1>7 DEF StageInv, InQueue, Threads
      <2>2. PointerInv(c, t)'
            <3> SUFFICES ASSUME NeverFailed(c)
                         PROVE  PointerInv(c, t)'
                BY <1>4 DEF PointerInv
            <3>1. call[c].pc = "idle"
                  BY <1>2 DEF NoCall
            <3>2. \A cmd : cmd.from = c => ~Live(cmd)
                  BY <3>1, Zenon DEF Live
            <3>3. \A k \in 1 .. Len(queue[t]) : queue[t][k].from = c => queue[t][k].kind = "all"
                  BY <1>1, <3>2 DEF PointerInv
            <3>4. ~(cur[t] # Idle /\ cur[t].from = c)
                  BY <1>1, <3>2, Zenon DEF PointerInv
            <3> QED BY <1>2, <3>3, <3>4, Zenon DEF PointerInv
      <2> QED BY <2>1, <2>2
<1>11. ASSUME NEW d \in Callers, d # c
      PROVE  /\ CallInv(d)' /\ CountInv(d)'
             /\ \A t \in Threads : StageInv(d, t)' /\ PointerInv(d, t)'
      BY <1>2, <1>3, <1>4, <1>11, OtherCaller
<1> QED
    BY <1>5, <1>6, <1>8, <1>9, <1>10, <1>11 DEF PoolInv

\* A turn of the loop of evthr_pool_defer_all puts the call's only command for the
\* thread on the thread's queue; the thread stays outstanding.
LEMMA AllPushInv ==
    ASSUME PoolInv, NEW c \in Callers, AllPush(c)
    PROVE  PoolInv'
<1>1. /\ PoolType /\ CallInv(c) /\ CountInv(c)
      /\ \A t \in Threads : StageInv(c, t) /\ PointerInv(c, t)
      BY PoolParts
<1>2. /\ call[c].pc = "push" /\ call[c].i \in Nat /\ call[c].i < N
      /\ call'[c].pc = "push" /\ call'[c].kind = call[c].kind
      /\ call'[c].i = call[c].i + 1
      /\ UNCHANGED <<cur, ctx, inbox, lost, ran, calls, made, failed>>
      /\ \A d \in Callers : d # c => call'[d] = call[d]
      BY <1>1 DEF AllPush, PoolType, Defer
<1>3. PICK i \in Threads : i = call[c].i
      BY <1>2, NAssumption DEF Threads
<1>4. made[c] \in 1 .. MaxCalls /\ call[c].kind \in Kinds
      BY <1>1, <1>2, BoundsAssumption DEF CallInv, PoolType
<1>5. PICK cmd \in Commands : cmd = Cmd(c, call[c].kind)
      BY <1>4, Zenon DEF Cmd, Commands
<1>6. cmd.from = c /\ cmd.id = made[c] /\ cmd.kind = call[c].kind
      BY <1>5 DEF Cmd
<1>7. /\ queue'[i] = Append(queue[i], cmd)
      /\ \A t \in Threads : t # i => queue'[t] = queue[t]
      /\ queue' \in [Threads -> Seq(Commands)]
      <2>1. queue \in [Threads -> Seq(Commands)]
            BY <1>1 DEF PoolType
      <2>2. queue' = [queue EXCEPT ![i] = Append(queue[i], cmd)]
            BY <1>3, <1>5, Zenon DEF AllPush, Defer
      <2>3. Append(queue[i], cmd) \in Seq(Commands)
            BY <2>1, AppendFacts, Zenon
      <2> HIDE DEF Commands, Threads
      <2> QED BY <2>1, <2>2, <2>3
<1>8. /\ Len(queue[i]) \in Nat /\ Len(queue'[i]) = Len(queue[i]) + 1
      /\ \A k \in 1 .. Len(queue[i]) : queue'[i][k] = queue[i][k]
      /\ queue'[i][Len(queue[i]) + 1] = cmd
      BY <1>1, <1>7, AppendFacts DEF PoolType
<1>9. PoolType'
      <2>1. call' \in [Callers -> [pc   : {"idle", "push", "check", "wait"},
                                   kind : Kinds \cup {"none"}, i : 0 .. N]]
            <3>1. call \in [Callers -> [pc   : {"idle", "push", "check", "wait"},
                                        kind : Kinds \cup {"none"}, i : 0 .. N]]
                  BY <1>1, Zenon DEF PoolType
            <3>2. call' = [call EXCEPT ![c].i = @ + 1]
                  BY Zenon DEF AllPush
            <3>3. call[c].i + 1 \in 0 .. N
                  BY <1>2, NAssumption
            <3> QED BY <3>1, <3>2, <3>3
      <2> QED BY <1>1, <1>2, <1>7, <2>1, Zenon DEF PoolType
<1>10. \A t \in Threads : CommandInv(t)'
      <2>1. Made(cmd)'
            BY <1>2, <1>4, <1>6 DEF Made
      <2>2. made' \in [Callers -> Nat] /\ \A d \in Callers : made[d] <= made'[d]
            BY <1>1, <1>2, BoundsAssumption, SMTT(30) DEF PoolType
      <2>3. \A d \in Callers : call'[d].pc # "idle" =>
               call[d].pc # "idle" /\ call'[d].kind = call[d].kind
            BY <1>2, Zenon
      <2> QED BY <1>2, <1>7, <2>1, <2>2, <2>3, CommandsKept, SMTT(30)
<1>11. ~InQueue(c, i) /\ ~Running(c, i) /\ ran[c][i] = 0
      BY <1>1, <1>2, <1>3 DEF StageInv
<1>12. ASSUME NEW t \in Threads
      PROVE  /\ InQueue(c, t)' <=> (InQueue(c, t) \/ t = i)
             /\ Running(c, t)' <=> Running(c, t)
      <2>1. Running(c, t)' <=> Running(c, t)
            BY <1>2, Zenon DEF Running, Mine
      <2>2. CASE t = i
            <3>1. Len(queue[i]) + 1 \in 1 .. Len(queue'[i])
                  BY <1>8
            <3> QED BY <1>2, <1>6, <1>8, <2>1, <2>2, <3>1, Zenon DEF InQueue, Mine
      <2>3. CASE t # i
            BY <1>2, <1>7, <2>1, <2>3 DEF InQueue, Mine
      <2> QED BY <2>2, <2>3, Zenon
<1>13. CallInv(c)'
      BY <1>1, <1>2, Zenon DEF CallInv
<1>14. CountInv(c)'
      <2>1. Outstanding(c)' = Outstanding(c)
            <3>1. \A t \in Threads :
                     t >= call[c].i + 1 \/ t = i <=> t >= call[c].i
                  BY <1>2, <1>3 DEF Threads
            <3> QED BY <1>2, <1>12, <3>1, Zenon DEF Outstanding
      <2> QED BY <1>1, <1>2, <2>1, Zenon DEF CountInv, NeverFailed, InSyncCall
<1>15. ASSUME NEW t \in Threads
      PROVE  StageInv(c, t)'
      <2>1. CASE t = i
            <3>1. \A k \in 1 .. Len(queue[i]) : ~Mine(c, queue[i][k])
                  BY <1>11, Zenon DEF InQueue
            <3>2. \A k \in 1 .. Len(queue'[i]) :
                     Mine(c, queue[i][k])' => k = Len(queue[i]) + 1
                  BY <1>2, <1>8, <3>1 DEF Mine
            <3> QED BY <1>2, <1>3, <1>11, <1>12, <2>1, <3>2 DEF StageInv
      <2>2. CASE t # i
            <3>1. t < call[c].i + 1 <=> t < call[c].i
                  BY <1>2, <1>3, <2>2 DEF Threads
            <3>2. \A k \in 1 .. Len(queue[t]) : Mine(c, queue[t][k])' <=> Mine(c, queue[t][k])
                  BY <1>2, <1>7, <2>2, Zenon DEF Mine
            <3> QED BY <1>1, <1>2, <1>7, <1>12, <2>2, <3>1, <3>2, Zenon DEF StageInv
      <2> QED BY <2>1, <2>2, SMTT(30)
<1>16. ASSUME NEW t \in Threads
      PROVE  PointerInv(c, t)'
      <2>1. NeverFailed(c)' <=> NeverFailed(c)
            BY <1>2, Zenon DEF NeverFailed
      <2>2. \A x : x.from = c /\ Live(x) => Live(x)'
            BY <1>2, Zenon DEF Live
      <2>3. Live(cmd)'
            BY <1>2, <1>6, Zenon DEF Live
      <2>4. CASE t = i
            BY <1>1, <1>2, <1>8, <2>1, <2>2, <2>3, <2>4 DEF PointerInv
      <2>5. CASE t # i
            BY <1>1, <1>2, <1>7, <2>1, <2>2, <2>5 DEF PointerInv
      <2> QED BY <2>4, <2>5
<1>17. ASSUME NEW d \in Callers, d # c
      PROVE  /\ CallInv(d)' /\ CountInv(d)'
             /\ \A t \in Threads : StageInv(d, t)' /\ PointerInv(d, t)'
      <2>1. NeverFailed(d)' => NeverFailed(d)
            BY <1>2, Zenon DEF NeverFailed
      <2>2. calls' \in Nat /\ calls <= calls'
            BY <1>1, <1>2 DEF PoolType
      <2> QED BY <1>2, <1>6, <1>7, <1>17, <2>1, <2>2, OtherCaller, SMTT(30)
<1> QED
    BY <1>9, <1>10, <1>13, <1>14, <1>15, <1>16, <1>17 DEF PoolInv

\* A failing evthr_defer ends the call; from then on nothing is claimed of the
\* contexts of its caller.
LEMMA AllFailInv ==
    ASSUME PoolInv, NEW c \in Callers, AllFail(c)
    PROVE  PoolInv'
<1>1. PoolType /\ CallInv(c)
      BY PoolParts, Zenon
<1>2. /\ call[c].pc = "push" /\ call[c].i \in Nat /\ call[c].i < N
      /\ call'[c] = NoCall /\ call'[c].pc = "idle" /\ call'[c].kind = "none"
      /\ UNCHANGED <<cur, ctx, inbox, lost, ran, calls, made>>
      /\ \A d \in Callers : d # c => call'[d] = call[d]
      BY <1>1 DEF AllFail, PoolType, NoCall
<1>3. PICK i \in Threads : i = call[c].i
      BY <1>2, NAssumption DEF Threads
<1>4. made[c] \in 1 .. MaxCalls /\ call[c].kind \in Kinds
      BY <1>1, <1>2, BoundsAssumption DEF CallInv, PoolType
<1>5. PICK cmd \in Commands : cmd = Cmd(c, call[c].kind)
      BY <1>4, Zenon DEF Cmd, Commands
<1>6. cmd.from = c /\ cmd.id = made[c] /\ cmd.kind = call[c].kind
      BY <1>5 DEF Cmd
<1>7. failed' = failed \cup {<<c, made[c]>>}
      BY <1>5, <1>6, Zenon DEF AllFail, DeferFails
<1>8. /\ \A t \in Threads : \/ queue'[t] = queue[t]
                            \/ queue'[t] = Append(queue[t], cmd)
      /\ queue' \in [Threads -> Seq(Commands)]
      <2>1. queue \in [Threads -> Seq(Commands)]
            BY <1>1 DEF PoolType
      <2>2. queue' = queue \/ queue' = [queue EXCEPT ![i] = Append(queue[i], cmd)]
            BY <1>3, <1>5 DEF AllFail, DeferFails
      <2>3. Append(queue[i], cmd) \in Seq(Commands)
            BY <2>1, AppendFacts
      <2> HIDE DEF Commands, Threads
      <2> QED BY <2>1, <2>2, <2>3, SMTT(30)
<1>9. PoolType'
      <2>1. call' \in [Callers -> [pc   : {"idle", "push", "check", "wait"},
                                   kind : Kinds \cup {"none"}, i : 0 .. N]]
            BY <1>1, NAssumption DEF AllFail, PoolType, NoCall
      <2>2. failed' \subseteq Callers \X (1 .. MaxCalls)
            BY <1>1, <1>4, <1>7 DEF PoolType
      <2> QED BY <1>1, <1>2, <1>8, <2>1, <2>2, Zenon DEF PoolType
<1>10. \A t \in Threads : CommandInv(t)'
      <2>1. Made(cmd)'
            BY <1>2, <1>4, <1>6 DEF Made
      <2>2. made' \in [Callers -> Nat] /\ \A d \in Callers : made[d] <= made'[d]
            BY <1>1, <1>2, BoundsAssumption DEF PoolType
      <2>3. \A d \in Callers : call'[d].pc # "idle" =>
               call[d].pc # "idle" /\ call'[d].kind = call[d].kind
            BY <1>2
      <2> QED BY <1>2, <1>8, <2>1, <2>2, <2>3, CommandsKept, Zenon
<1>11. ~NeverFailed(c)'
      BY <1>4, <1>7, Zenon DEF NeverFailed
<1>12. CallInv(c)' /\ CountInv(c)'
      BY <1>1, <1>2, <1>11, Zenon DEF CallInv, CountInv
<1>13. \A t \in Threads : StageInv(c, t)' /\ PointerInv(c, t)'
      BY <1>2, <1>11, Zenon DEF StageInv, PointerInv
<1>14. ASSUME NEW d \in Callers, d # c
      PROVE  /\ CallInv(d)' /\ CountInv(d)'
             /\ \A t \in Threads : StageInv(d, t)' /\ PointerInv(d, t)'
      <2>1. NeverFailed(d)' => NeverFailed(d)
            BY <1>7, Zenon DEF NeverFailed
      <2>2. calls' \in Nat /\ calls <= calls'
            BY <1>1, <1>2 DEF PoolType
      <2> QED BY <1>2, <1>6, <1>8, <1>14, <2>1, <2>2, OtherCaller
<1> QED
    BY <1>9, <1>10, <1>12, <1>13, <1>14 DEF PoolInv

\* When nobody is outstanding, no command of the call is left.
LEMMA NobodyOutstanding ==
    ASSUME PoolInv, NEW c \in Callers, NeverFailed(c), InSyncCall(c), ctx[c] = 0
    PROVE  /\ \A t \in Threads : t < call[c].i /\ ~InQueue(c, t) /\ ~Running(c, t)
           /\ call[c].pc # "idle" => \A t \in Threads : ran[c][t] = 1
<1>1. PoolType /\ CountInv(c) /\ \A t \in Threads : StageInv(c, t)
      BY PoolParts, Zenon
<1>2. Outstanding(c) \in SUBSET Threads /\ Cardinality(Outstanding(c)) = 0
      BY <1>1 DEF CountInv, Outstanding
<1>3. Outstanding(c) = {}
      BY <1>2, ThreadsFinite, FS_EmptySet, Zenon
<1>4. \A t \in Threads : ~(t >= call[c].i) /\ ~InQueue(c, t) /\ ~Running(c, t)
      BY <1>3, Zenon DEF Outstanding
<1>5. \A t \in Threads : t < call[c].i
      BY <1>1, <1>4 DEF Threads, PoolType
<1>6. call[c].pc # "idle" => \A t \in Threads : ran[c][t] = 1
      BY <1>1, <1>4, <1>5, Zenon DEF StageInv
<1> QED BY <1>4, <1>5, <1>6

\* The steps of a call after its loop: it returns when it is not synchronous, or
\* when nobody is outstanding.
LEMMA ReturnOrWait ==
    ASSUME PoolInv, NEW c \in Callers, AllPushed(c) \/ SyncCheck(c)
    PROVE  PoolInv'
<1>1. /\ PoolType /\ CallInv(c) /\ CountInv(c) /\ \A t \in Threads : CommandInv(t)
      /\ \A t \in Threads : StageInv(c, t) /\ PointerInv(c, t)
      BY PoolParts
<1>2. /\ call[c].pc \in {"push", "check"} /\ call[c].i = N
      /\ UNCHANGED <<queue, cur, ctx, inbox, lost, ran, calls, made, failed>>
      /\ \A d \in Callers : d # c => call'[d] = call[d]
      BY <1>1, Zenon DEF AllPushed, SyncCheck, PoolType, CallInv
<1> DEFINE Rec == [pc : {"idle", "push", "check", "wait"}, kind : Kinds \cup {"none"}, i : 0 .. N]
<1>a. call[c] \in Rec /\ call \in [Callers -> Rec] /\ NoCall \in Rec
      BY <1>1, NAssumption DEF PoolType, NoCall
<1>b. PICK r \in Rec :
         /\ call' = [call EXCEPT ![c] = r]
         /\ \/ r = NoCall /\ (call[c].kind = "all" \/ ~(ctx[c] > 0))
            \/ /\ r.pc \in {"check", "wait"} /\ r.kind = call[c].kind
               /\ r.i = call[c].i /\ call[c].kind # "all"
      <2>1. CASE AllPushed(c)
            <3>1. CASE call[c].kind = "all"
                  BY <1>a, <2>1, <3>1, Zenon DEF AllPushed
            <3>2. CASE call[c].kind # "all"
                  <4>1. [call[c] EXCEPT !.pc = "check"] \in Rec
                        BY <1>a, Zenon
                  <4> QED BY <1>a, <2>1, <3>2, <4>1, Zenon DEF AllPushed
            <3> QED BY <3>1, <3>2
      <2>2. CASE SyncCheck(c)
            <3>1. call[c].kind # "all"
                  BY <1>1, <2>2 DEF CallInv, SyncCheck
            <3>2. CASE ctx[c] > 0
                  <4>1. [call[c] EXCEPT !.pc = "wait"] \in Rec
                        BY <1>a
                  <4> QED BY <1>a, <2>2, <3>1, <3>2, <4>1, Zenon DEF SyncCheck
            <3>3. CASE ~(ctx[c] > 0)
                  BY <1>a, <2>2, <3>3, Zenon DEF SyncCheck
            <3> QED BY <3>2, <3>3
      <2> QED BY <2>1, <2>2, Zenon
<1>c. call'[c] = r /\ call' \in [Callers -> Rec]
      BY <1>a, <1>b
<1>3. \/ call'[c] = NoCall /\ (call[c].kind = "all" \/ ~(ctx[c] > 0))
      \/ /\ call'[c].pc \in {"check", "wait"} /\ call'[c].kind = call[c].kind
         /\ call'[c].i = call[c].i /\ call[c].kind # "all"
      BY <1>b, <1>c, Zenon
<1>4. PoolType'
      BY <1>1, <1>2, <1>c, Zenon DEF PoolType
<1> HIDE DEF Rec
<1>5. \A d \in Callers : NeverFailed(d)' <=> NeverFailed(d)
      BY <1>2, Zenon DEF NeverFailed
<1>6. \A t \in Threads : CommandInv(t)'
      <2>1. made' \in [Callers -> Nat] /\ \A d \in Callers : made[d] <= made'[d]
            BY <1>1, <1>2, BoundsAssumption, SMTT(30) DEF PoolType
      <2>2. \A d \in Callers : call'[d].pc # "idle" =>
               call[d].pc # "idle" /\ call'[d].kind = call[d].kind
            BY <1>2, <1>3 DEF NoCall
      <2> QED BY <1>2, <2>1, <2>2, CommandsKept
<1>7. ASSUME NEW d \in Callers, d # c
      PROVE  /\ CallInv(d)' /\ CountInv(d)'
             /\ \A t \in Threads : StageInv(d, t)' /\ PointerInv(d, t)'
      <2>1. calls' \in Nat /\ calls <= calls'
            BY <1>1, <1>2 DEF PoolType
      <2> QED BY <1>2, <1>5, <1>7, <2>1, OtherCaller, Zenon
<1>8. ASSUME call'[c].pc # "idle"
      PROVE  /\ CallInv(c)' /\ CountInv(c)'
             /\ \A t \in Threads : StageInv(c, t)' /\ PointerInv(c, t)'
      <2>1. /\ call'[c].pc \in {"check", "wait"} /\ call'[c].kind = call[c].kind
            /\ call'[c].i = call[c].i /\ call[c].kind # "all"
            BY <1>3, <1>8, SMTT(30) DEF NoCall
      <2>a. queue' = queue /\ cur' = cur /\ made' = made
            BY <1>2, Zenon
      <2>2. \A t \in Threads : /\ InQueue(c, t)' <=> InQueue(c, t)
                               /\ Running(c, t)' <=> Running(c, t)
            BY <2>a, Zenon DEF InQueue, Running, Mine
      <2>b. call'[c].i = call[c].i
            BY <2>1, Zenon
      <2>3. Outstanding(c)' = Outstanding(c)
            BY <2>b, <2>2, SMTT(30) DEF Outstanding
      <2>4. CallInv(c)'
            BY <1>1, <1>2, <2>1, SMTT(30) DEF CallInv
      <2>5. CountInv(c)'
            BY <1>1, <1>2, <1>5, <2>1, <2>3, Zenon DEF CountInv, InSyncCall
      <2>6. ASSUME NEW t \in Threads PROVE StageInv(c, t)'
            BY <1>1, <1>2, <2>1, <2>2, Zenon DEF StageInv, Mine
      <2>7. \A x : x.from = c /\ Live(x) => Live(x)'
            BY <1>2, <2>1 DEF Live
      <2>8. ASSUME NEW t \in Threads PROVE PointerInv(c, t)'
            BY <1>1, <1>2, <1>5, <2>7, Zenon DEF PointerInv
      <2> QED BY <2>4, <2>5, <2>6, <2>8, SMTT(30)
<1>9. ASSUME call'[c].pc = "idle"
      PROVE  /\ CallInv(c)' /\ CountInv(c)'
             /\ \A t \in Threads : StageInv(c, t)' /\ PointerInv(c, t)'
      <2>1. /\ call'[c] = NoCall /\ call'[c].kind = "none"
            /\ call[c].kind = "all" \/ ~(ctx[c] > 0)
            BY <1>3, <1>9, SMTT(30) DEF NoCall
      <2>2. CallInv(c)'
            BY <1>1, <1>2, <1>9, <2>1, SMTT(30) DEF CallInv
      <2>3. CountInv(c)' /\ \A t \in Threads : StageInv(c, t)'
            BY <1>9, <2>1, Zenon DEF CountInv, InSyncCall, StageInv
      <2>4. ASSUME NEW t \in Threads, NeverFailed(c)
            PROVE  /\ \A k \in 1 .. Len(queue[t]) :
                         queue[t][k].from = c => queue[t][k].kind = "all"
                   /\ ~(cur[t] # Idle /\ cur[t].from = c)
            <3>1. \A x : Live(x) /\ x.from = c => Mine(c, x)
                  BY Zenon DEF Live, Mine
            <3>2. CASE call[c].kind = "all"
                  <4>1. \A x : Mine(c, x) /\ Made(x) => x.kind = "all"
                        BY <1>2, <3>2, Zenon DEF Mine, Made
                  <4> QED BY <1>1, <2>4, <3>1, <4>1, Zenon DEF PointerInv, CommandInv
            <3>3. CASE call[c].kind # "all"
                  <4>1. InSyncCall(c) /\ ctx[c] = 0
                        BY <1>1, <1>2, <2>1, <3>3, NAssumption, SMTT(30)
                        DEF InSyncCall, CallInv, Kinds, PoolType, CtxMod
                  <4>2. ~InQueue(c, t) /\ ~Running(c, t)
                        BY <2>4, <4>1, NobodyOutstanding, SMTT(30)
                  <4> QED BY <1>1, <2>4, <3>1, <4>2, SMTT(30) DEF PointerInv, InQueue, Running
            <3> QED BY <3>2, <3>3, Zenon
      <2>5. ASSUME NEW t \in Threads PROVE PointerInv(c, t)'
            BY <1>2, <1>5, <2>4 DEF PointerInv
      <2> QED BY <2>2, <2>3, <2>5, Zenon
<1> QED
    BY <1>4, <1>6, <1>7, <1>8, <1>9 DEF PoolInv

-----------------------------------------------------------------------------

\* A thread polls a command and runs its callback: the command moves from the
\* queue into the thread's hands, or is done with.
LEMMA RunCbInv ==
    ASSUME PoolInv, NEW t \in Threads, RunCb(t)
    PROVE  PoolInv'
<1>1. /\ PoolType /\ \A c \in Callers : CallInv(c) /\ CountInv(c)
      /\ \A u \in Threads : CommandInv(u)
      /\ \A c \in Callers, u \in Threads : StageInv(c, u) /\ PointerInv(c, u)
      BY PoolParts
<1>a. \A c \in Callers : CallInv(c)
      BY <1>1, Zenon
<1>b. \A c \in Callers, u \in Threads : StageInv(c, u)
      BY <1>1, Zenon
<1>c. \A c \in Callers, u \in Threads : PointerInv(c, u)
      BY <1>1, Zenon
<1>d. \A u \in Threads : CommandInv(u)
      BY <1>1, Zenon
<1>2. /\ queue[t] \in Seq(Commands) /\ queue[t] # << >> /\ cur[t] = Idle
      /\ queue \in [Threads -> Seq(Commands)] /\ cur \in [Threads -> Commands \cup {Idle}]
      BY <1>1, SMTT(30) DEF RunCb, PoolType
<1>3. PICK cmd \in Commands : cmd = Head(queue[t])
      BY <1>2, TailFacts
<1>4. /\ cmd = queue[t][1] /\ Len(queue[t]) \in Nat \ {0} /\ Tail(queue[t]) \in Seq(Commands)
      /\ Len(Tail(queue[t])) = Len(queue[t]) - 1
      /\ \A k \in 1 .. Len(queue[t]) - 1 : Tail(queue[t])[k] = queue[t][k + 1]
      BY <1>2, <1>3, TailFacts, Zenon
<1>5. cmd.from \in Callers /\ cmd.kind \in Kinds
      BY DEF Commands
<1>6. /\ queue' \in [Threads -> Seq(Commands)] /\ queue'[t] = Tail(queue[t])
      /\ \A u \in Threads : u # t => queue'[u] = queue[u]
      <2>1. queue' = [queue EXCEPT ![t] = Tail(queue[t])]
            BY Zenon DEF RunCb
      <2> HIDE DEF Commands, Threads
      <2> QED BY <1>2, <1>4, <2>1
<1>7. /\ cur' \in [Threads -> Commands \cup {Idle}]
      /\ cur'[t] = IF cmd.kind # "all" THEN cmd ELSE Idle
      /\ \A u \in Threads : u # t => cur'[u] = cur[u]
      <2>1. cur' = [cur EXCEPT ![t] = IF cmd.kind \in {"sync", "completed"} THEN cmd ELSE Idle]
            BY <1>3 DEF RunCb
      <2>2. cmd.kind \in {"sync", "completed"} <=> cmd.kind # "all"
            BY <1>5, Zenon DEF Kinds
      <2> HIDE DEF Commands, Threads, Idle
      <2> QED BY <1>2, <2>1, <2>2, Zenon
<1>8. UNCHANGED <<call, ctx, calls, made, failed>>
      BY Zenon DEF RunCb
<1>9. /\ ran' \in [Callers -> [Threads -> Nat]]
      /\ \A c \in Callers, u \in Threads :
            ran'[c][u] = IF u = t /\ Mine(c, cmd) THEN ran[c][u] + 1 ELSE ran[c][u]
      <2>1. ran \in [Callers -> [Threads -> Nat]]
            BY <1>1, Zenon DEF PoolType
      <2>2. CASE cmd.id = made[cmd.from]
            <3>1. ran' = [ran EXCEPT ![cmd.from][t] = ran[cmd.from][t] + 1]
                  BY <1>3, <2>2, Zenon DEF RunCb
            <3> HIDE DEF Threads, Commands
            <3> QED BY <1>5, <2>1, <2>2, <3>1 DEF Mine
      <2>3. CASE cmd.id # made[cmd.from]
            <3>1. ran' = ran
                  BY <1>3, <2>3, Zenon DEF RunCb
            <3> QED BY <2>1, <2>3, <3>1, Zenon DEF Mine
      <2> QED BY <2>2, <2>3, Zenon
<1>10. /\ inbox' \in [Callers -> Nat] /\ lost' \in [Callers -> Nat]
       /\ \A c \in Callers :
             inbox'[c] + lost'[c] = IF cmd.kind = "completed" /\ Mine(c, cmd)
                                      THEN (inbox[c] + lost[c]) + 1 ELSE inbox[c] + lost[c]
      <2>1. inbox \in [Callers -> Nat] /\ lost \in [Callers -> Nat]
            BY <1>1, Zenon DEF PoolType
      <2>2. CASE cmd.id = made[cmd.from] /\ cmd.kind = "completed"
            <3>1. Complete(cmd.from)
                  BY <1>3, <2>2, Zenon DEF RunCb
            <3>2. CASE inbox' = [inbox EXCEPT ![cmd.from] = @ + 1] /\ lost' = lost
                  <4> HIDE DEF Commands
                  <4> QED BY <1>5, <2>1, <2>2, <3>2 DEF Mine
            <3>3. CASE lost' = [lost EXCEPT ![cmd.from] = @ + 1] /\ inbox' = inbox
                  <4> HIDE DEF Commands
                  <4> QED BY <1>5, <2>1, <2>2, <3>3 DEF Mine
            <3> QED BY <3>1, <3>2, <3>3, Zenon DEF Complete
      <2>3. CASE ~(cmd.id = made[cmd.from] /\ cmd.kind = "completed")
            <3>1. inbox' = inbox /\ lost' = lost
                  BY <1>3, <2>3, Zenon DEF RunCb
            <3> QED BY <2>1, <2>3, <3>1, Zenon DEF Mine
      <2> QED BY <2>2, <2>3, Zenon
<1>11. PoolType'
      BY <1>1, <1>6, <1>7, <1>8, <1>9, <1>10, SMTT(30) DEF PoolType
<1>12. /\ Len(queue'[t]) \in Nat
       /\ \A k \in 1 .. Len(queue'[t]) :
             k + 1 \in 1 .. Len(queue[t]) /\ k + 1 # 1 /\ queue'[t][k] = queue[t][k + 1]
       /\ \A k \in 1 .. Len(queue[t]) : k # 1 =>
             k - 1 \in 1 .. Len(queue'[t]) /\ queue'[t][k - 1] = queue[t][k]
       /\ 1 \in 1 .. Len(queue[t])
      <2>1. Len(queue'[t]) = Len(queue[t]) - 1
            BY <1>4, <1>6, Zenon
      <2>2. \A k \in 1 .. Len(queue[t]) : k # 1 => k - 1 \in 1 .. Len(queue[t]) - 1 /\ (k - 1) + 1 = k
            BY <1>4
      <2>3. \A k \in 1 .. Len(queue[t]) - 1 : k + 1 \in 1 .. Len(queue[t]) /\ k + 1 # 1
            BY <1>4
      <2>4. \A k \in 1 .. Len(queue[t]) - 1 : queue'[t][k] = queue[t][k + 1]
            BY <1>4, <1>6
      <2>5. ASSUME NEW k \in 1 .. Len(queue[t]), k # 1
            PROVE  queue'[t][k - 1] = queue[t][k]
            BY <2>2, <2>4, <2>5
      <2>6. Len(queue'[t]) \in Nat /\ 1 \in 1 .. Len(queue[t])
            BY <1>4, <2>1
      <2> QED BY <2>1, <2>2, <2>3, <2>4, <2>5, <2>6, SMTT(30)
<1>13. /\ \A x, c : Mine(c, x)' <=> Mine(c, x)
       /\ \A x : (Live(x)' <=> Live(x)) /\ (Made(x)' <=> Made(x))
       /\ \A c : NeverFailed(c)' <=> NeverFailed(c)
      BY <1>8 DEF Mine, Live, Made, NeverFailed
<1>14. \A u \in Threads : CommandInv(u)'
      <2>1. Made(cmd) /\ \A k \in 1 .. Len(queue[t]) : Made(queue[t][k])
            BY <1>d, <1>4, <1>12, Zenon DEF CommandInv
      <2>2. CommandInv(t)'
            BY <1>7, <1>12, <1>13, <2>1, Zenon DEF CommandInv
      <2>3. ASSUME NEW u \in Threads, u # t PROVE CommandInv(u)'
            BY <1>d, <1>6, <1>7, <1>13, <2>3, Zenon DEF CommandInv
      <2> QED BY <2>2, <2>3, Zenon
<1>15. ASSUME NEW c \in Callers, NEW u \in Threads
      PROVE  PointerInv(c, u)'
      <2> SUFFICES ASSUME NeverFailed(c) PROVE PointerInv(c, u)'
          BY <1>13, Zenon DEF PointerInv
      <2>1. CASE u = t
            <3>1. cmd.from = c /\ cmd.kind # "all" => Live(cmd)
                  BY <1>c, <1>4, <1>12, Zenon DEF PointerInv
            <3>2. ASSUME NEW k \in 1 .. Len(queue'[t])
                  PROVE  queue'[t][k].from = c /\ queue'[t][k].kind # "all" => Live(queue'[t][k])
                  <4>1. PICK l \in 1 .. Len(queue[t]) : queue'[t][k] = queue[t][l]
                        BY <1>12, Zenon
                  <4>2. queue[t][l].from = c /\ queue[t][l].kind # "all" => Live(queue[t][l])
                        BY <1>c, Zenon DEF PointerInv
                  <4> QED BY <4>1, <4>2, Zenon
            <3> QED BY <1>7, <1>13, <2>1, <3>1, <3>2, Zenon DEF PointerInv
      <2>2. CASE u # t
            BY <1>c, <1>6, <1>7, <1>13, <2>2, Zenon DEF PointerInv
      <2> QED BY <2>1, <2>2
<1>16. ASSUME NEW c \in Callers, NEW u \in Threads, u # t
      PROVE  /\ InQueue(c, u)' <=> InQueue(c, u)
             /\ Running(c, u)' <=> Running(c, u)
             /\ ran'[c][u] = ran[c][u] /\ StageInv(c, u)'
      <2>1. InQueue(c, u)' <=> InQueue(c, u)
            BY <1>6, <1>13, <1>16, Zenon DEF InQueue
      <2>2. Running(c, u)' <=> Running(c, u)
            BY <1>7, <1>13, <1>16, Zenon DEF Running
      <2>3. ran'[c][u] = ran[c][u]
            BY <1>9, <1>16, Zenon
      <2>4. StageInv(c, u)'
            <3>1. StageInv(c, u)
                  BY <1>b, Zenon
            <3>2. queue'[u] = queue[u] /\ call' = call
                  BY <1>6, <1>8, <1>16
            <3>3. \A x : Mine(c, x)' <=> Mine(c, x)
                  BY <1>13, Zenon
            <3> QED BY <2>1, <2>2, <2>3, <3>1, <3>2, <3>3 DEF StageInv
      <2> QED BY <2>1, <2>2, <2>3, <2>4, Zenon
<1>17. ASSUME NEW c \in Callers, ~Mine(c, cmd)
      PROVE  /\ InQueue(c, t)' <=> InQueue(c, t)
             /\ ~Running(c, t)' /\ ~Running(c, t)
             /\ ran'[c][t] = ran[c][t] /\ StageInv(c, t)'
      <2>1. InQueue(c, t)' <=> InQueue(c, t)
            <3>1. ASSUME InQueue(c, t)' PROVE InQueue(c, t)
                  BY <1>12, <1>13, <3>1, Zenon DEF InQueue
            <3>2. ASSUME InQueue(c, t) PROVE InQueue(c, t)'
                  <4>1. PICK k \in 1 .. Len(queue[t]) : Mine(c, queue[t][k])
                        BY <3>2, Zenon DEF InQueue
                  <4>2. k # 1
                        BY <1>4, <1>17, <4>1, Zenon
                  <4>3. PICK l \in 1 .. Len(queue'[t]) : queue'[t][l] = queue[t][k]
                        BY <1>12, <4>1, <4>2, Zenon
                  <4> QED BY <1>13, <4>1, <4>3, Zenon DEF InQueue
            <3> QED BY <3>1, <3>2, Zenon
      <2>2. ~Running(c, t)' /\ ~Running(c, t)
            BY <1>2, <1>7, <1>13, <1>17, Zenon DEF Running
      <2>3. ran'[c][t] = ran[c][t]
            BY <1>9, <1>17, Zenon
      <2>4. \A k, l \in 1 .. Len(queue'[t]) : k + 1 = l + 1 => k = l
            BY <1>12
      <2>5. StageInv(c, t)'
            <3>1. StageInv(c, t)
                  BY <1>b, Zenon
            <3>2. call' = call
                  BY <1>8
            <3>3. \A x : Mine(c, x)' <=> Mine(c, x)
                  BY <1>13, Zenon
            <3>4. \A k \in 1 .. Len(queue'[t]) :
                     k + 1 \in 1 .. Len(queue[t]) /\ queue'[t][k] = queue[t][k + 1]
                  BY <1>12, Zenon
            <3> QED BY <2>1, <2>2, <2>3, <2>4, <3>1, <3>2, <3>3, <3>4 DEF StageInv
      <2> QED BY <2>1, <2>2, <2>3, <2>5
<1>18. ASSUME NEW c \in Callers, Mine(c, cmd), call[c].pc # "idle"
      PROVE  /\ InQueue(c, t) /\ ~InQueue(c, t)' /\ cmd.kind = call[c].kind
             /\ Running(c, t)' <=> cmd.kind # "all"
             /\ ran[c][t] = 0 /\ ran'[c][t] = 1 /\ StageInv(c, t)'
      <2>1. InQueue(c, t)
            BY <1>4, <1>12, <1>18, Zenon DEF InQueue
      <2>2. ~InQueue(c, t)'
            <3>1. \A k \in 1 .. Len(queue[t]) : Mine(c, queue[t][k]) => k = 1
                  BY <1>b, <1>4, <1>12, <1>18, Zenon DEF StageInv
            <3> QED BY <1>12, <1>13, <3>1, Zenon DEF InQueue
      <2>3. cmd.kind = call[c].kind
            BY <1>d, <1>4, <1>12, <1>18 DEF CommandInv, Made, Mine
      <2>4. cmd # Idle
            BY <1>5 DEF Idle, Kinds
      <2>5. Running(c, t)' <=> cmd.kind # "all"
            BY <1>7, <1>13, <1>18, <2>4, Zenon DEF Running
      <2>6. ran[c][t] = 0 /\ ran'[c][t] = 1 /\ t < call[c].i
            BY <1>b, <1>9, <1>18, <2>1 DEF StageInv
      <2>7. StageInv(c, t)'
            BY <1>8, <1>13, <2>2, <2>6, Zenon DEF StageInv, InQueue
      <2> QED BY <2>1, <2>2, <2>3, <2>5, <2>6, <2>7, Zenon
<1>19. ASSUME NEW c \in Callers
      PROVE  StageInv(c, t)'
      BY <1>8, <1>17, <1>18, Zenon DEF StageInv
<1>20. ASSUME NEW c \in Callers
      PROVE  CallInv(c)'
      BY <1>a, <1>8, Zenon DEF CallInv
<1>21. ASSUME NEW c \in Callers
      PROVE  CountInv(c)'
      <2>0. InSyncCall(c) => call[c].pc # "idle" /\ call[c].kind # "all"
            BY <1>a DEF CallInv, NoCall, InSyncCall
      <2>1. ASSUME NeverFailed(c), InSyncCall(c)
            PROVE  ctx'[c] = Cardinality(Outstanding(c)')
            <3>1. ASSUME NEW u \in Threads
                  PROVE  u \in Outstanding(c)' <=> u \in Outstanding(c)
                  <4>1. CASE u # t
                        BY <1>8, <1>16, <4>1, Zenon DEF Outstanding
                  <4>2. CASE u = t /\ ~Mine(c, cmd)
                        BY <1>8, <1>17, <4>2, Zenon DEF Outstanding
                  <4>3. CASE u = t /\ Mine(c, cmd)
                        BY <1>8, <1>18, <2>0, <2>1, <4>3, Zenon DEF Outstanding
                  <4> QED BY <4>1, <4>2, <4>3, Zenon
            <3>2. Outstanding(c)' = Outstanding(c)
                  BY <3>1, Zenon DEF Outstanding
            <3> QED BY <1>1, <1>8, <2>1, <3>2, Zenon DEF CountInv
      <2>2. ASSUME call[c].kind = "completed"
            PROVE  inbox'[c] + lost'[c] = Cardinality({u \in Threads : ran'[c][u] = 1})
            <3> DEFINE R == {u \in Threads : ran[c][u] = 1}
                       S == {u \in Threads : ran'[c][u] = 1}
            <3>1. InSyncCall(c) /\ inbox[c] + lost[c] = Cardinality(R)
                  BY <1>1, <2>2, Zenon DEF CountInv, InSyncCall
            <3>2. CASE ~Mine(c, cmd)
                  <4>1. S = R
                        BY <1>16, <1>17, <3>2
                  <4>2. inbox'[c] + lost'[c] = inbox[c] + lost[c]
                        BY <1>10, <3>2, Zenon
                  <4> QED BY <3>1, <4>1, <4>2, Zenon
            <3>3. CASE Mine(c, cmd)
                  <4>1. /\ S = R \cup {t} /\ t \notin R
                        BY <1>16, <1>18, <2>0, <3>1, <3>3
                  <4>2. inbox'[c] + lost'[c] = (inbox[c] + lost[c]) + 1
                        BY <1>10, <1>18, <2>0, <2>2, <3>1, <3>3, Zenon
                  <4>3. IsFiniteSet(R)
                        BY ThreadsFinite
                  <4>4. Cardinality(S) = Cardinality(R) + 1
                        BY <4>1, <4>3, FS_AddElement, Zenon
                  <4> QED BY <3>1, <4>2, <4>4, Zenon
            <3> QED BY <3>2, <3>3, Zenon
      <2> QED BY <1>8, <1>13, <2>1, <2>2, Zenon DEF CountInv, InSyncCall
<1> QED
    BY <1>11, <1>14, <1>15, <1>16, <1>19, <1>20, <1>21, Zenon DEF PoolInv

\* A thread decrements ctx.nthreads and signals: while no defer of the sender
\* failed, the context is that of the sender's current call.
LEMMA RunSignalInv ==
    ASSUME PoolInv, NEW t \in Threads, RunSignal(t)
    PROVE  PoolInv'
<1>1. /\ PoolType /\ \A c \in Callers : CallInv(c) /\ CountInv(c)
      /\ \A u \in Threads : CommandInv(u)
      /\ \A c \in Callers, u \in Threads : StageInv(c, u) /\ PointerInv(c, u)
      BY PoolParts
<1>a. \A c \in Callers : CallInv(c)
      BY <1>1, Zenon
<1>b. \A c \in Callers, u \in Threads : StageInv(c, u)
      BY <1>1, Zenon
<1>c. \A c \in Callers, u \in Threads : PointerInv(c, u)
      BY <1>1, Zenon
<1>d. \A u \in Threads : CommandInv(u)
      BY <1>1, Zenon
<1>2. cur[t] # Idle /\ cur \in [Threads -> Commands \cup {Idle}]
      BY <1>1 DEF RunSignal, PoolType
<1>3. PICK cmd \in Commands : cmd = cur[t]
      BY <1>2
<1>4. cmd.from \in Callers
      BY DEF Commands
<1>5. /\ cur' \in [Threads -> Commands \cup {Idle}] /\ cur'[t] = Idle
      /\ \A u \in Threads : u # t => cur'[u] = cur[u]
      <2>1. cur' = [cur EXCEPT ![t] = Idle]
            BY Zenon DEF RunSignal
      <2> HIDE DEF Commands, Threads, Idle
      <2> QED BY <1>2, <2>1
<1>6. UNCHANGED <<queue, inbox, lost, ran, calls, made, failed>>
      BY Zenon DEF RunSignal
<1>7. \/ Decrement(cmd.from)
      \/ ~Live(cmd) /\ UNCHANGED <<ctx, call>>
      BY <1>3, Zenon DEF RunSignal
<1>8. /\ ctx' \in [Callers -> 0 .. CtxMod - 1]
      /\ \A c \in Callers : c # cmd.from => ctx'[c] = ctx[c]
      /\ Live(cmd) => ctx'[cmd.from] = (ctx[cmd.from] + CtxMod - 1) % CtxMod
      <2>1. ctx \in [Callers -> 0 .. CtxMod - 1]
            BY <1>1, Zenon DEF PoolType
      <2>2. CASE Decrement(cmd.from)
            <3>1. PICK x : x = (ctx[cmd.from] + CtxMod - 1) % CtxMod
                  OBVIOUS
            <3>2. ctx[cmd.from] \in Nat
                  BY <1>4, <2>1, NAssumption DEF CtxMod
            <3>3. x \in 0 .. CtxMod - 1
                  BY <3>1, <3>2, DecrementType, NAssumption DEF CtxMod
            <3>4. ctx' = [ctx EXCEPT ![cmd.from] = x]
                  BY <2>2, <3>1, Zenon DEF Decrement
            <3> QED BY <1>4, <2>1, <3>1, <3>3, <3>4, Zenon
      <2>3. CASE ~Live(cmd) /\ UNCHANGED <<ctx, call>>
            BY <2>1, <2>3, Zenon
      <2> QED BY <1>7, <2>2, <2>3, Zenon
<1>9. /\ call' \in [Callers -> [pc   : {"idle", "push", "check", "wait"},
                                kind : Kinds \cup {"none"}, i : 0 .. N]]
      /\ \A c \in Callers : /\ call'[c].i = call[c].i /\ call'[c].kind = call[c].kind
                            /\ \/ call'[c] = call[c]
                               \/ call[c].pc = "wait" /\ call'[c].pc = "check"
      <2> DEFINE Rec == [pc : {"idle", "push", "check", "wait"},
                         kind : Kinds \cup {"none"}, i : 0 .. N]
      <2>1. call \in [Callers -> Rec]
            BY <1>1, Zenon DEF PoolType
      <2>2. CASE call' = call
            BY <2>1, <2>2
      <2>3. CASE Decrement(cmd.from) /\ call[cmd.from].pc = "wait"
            <3>0. \A q \in Rec : LET s == [q EXCEPT !.pc = "check"]
                                 IN s \in Rec /\ s.pc = "check" /\ s.i = q.i /\ s.kind = q.kind
                  OBVIOUS
            <3>1. PICK r : /\ r = [call[cmd.from] EXCEPT !.pc = "check"]
                           /\ r \in Rec /\ r.pc = "check" /\ r.i = call[cmd.from].i
                           /\ r.kind = call[cmd.from].kind
                  <4> HIDE DEF Rec
                  <4> QED BY <1>4, <2>1, <3>0, Zenon
            <3>2. call' = [call EXCEPT ![cmd.from].pc = "check"]
                  BY <2>3 DEF Decrement
            <3>3. call'[cmd.from] = r /\ \A c \in Callers : c # cmd.from => call'[c] = call[c]
                  BY <1>4, <2>1, <3>1, <3>2
            <3>4. call' = [c \in Callers |-> call'[c]]
                  BY <2>1, <3>2, Zenon
            <3> HIDE DEF Rec
            <3>5. call' \in [Callers -> Rec]
                  BY <2>1, <3>1, <3>3, <3>4
            <3> QED BY <2>3, <3>1, <3>3, <3>5 DEF Rec
      <2>4. call' = call \/ (Decrement(cmd.from) /\ call[cmd.from].pc = "wait")
            BY <1>7, Zenon DEF Decrement
      <2> QED BY <2>2, <2>3, <2>4, Zenon
<1>10. PoolType'
      BY <1>1, <1>5, <1>6, <1>8, <1>9, Zenon DEF PoolType
<1>11. \A c \in Callers : /\ call'[c].pc = "idle" <=> call[c].pc = "idle"
                          /\ call'[c].pc = "idle" => call'[c] = call[c]
                          /\ call'[c].pc \in {"push", "check", "wait"} <=>
                               call[c].pc \in {"push", "check", "wait"}
      BY <1>9, Zenon
<1>12. /\ \A c \in Callers : \A x : Mine(c, x)' <=> Mine(c, x)
       /\ \A x \in Commands : (Live(x)' <=> Live(x)) /\ (Made(x)' <=> Made(x))
       /\ \A c \in Callers : NeverFailed(c)' <=> NeverFailed(c)
      <2>1. \A x \in Commands : x.from \in Callers
            BY Zenon DEF Commands
      <2> QED BY <1>6, <1>9, <1>11, <2>1 DEF Mine, Live, Made, NeverFailed
<1>13. \A u \in Threads : \A k \in 1 .. Len(queue[u]) : queue[u][k] \in Commands
      BY <1>1, CommandsTyped
<1>14. ASSUME NEW u \in Threads PROVE CommandInv(u)'
      <2>1. CASE u = t
            <3>1. CommandInv(u)
                  BY <1>d, Zenon
            <3>2. cur'[u] = Idle /\ queue' = queue
                  BY <1>5, <1>6, <2>1, Zenon
            <3> QED BY <1>12, <1>13, <3>1, <3>2, Zenon DEF CommandInv
      <2>2. CASE u # t
            <3>1. cur'[u] = cur[u] /\ (cur[u] # Idle => cur[u] \in Commands)
                  BY <1>1, <1>5, <2>2, CommandsTyped
            <3> QED BY <1>d, <1>6, <1>12, <1>13, <3>1, Zenon DEF CommandInv
      <2> QED BY <2>1, <2>2, SMTT(30)
<1>15. ASSUME NEW c \in Callers, NEW u \in Threads PROVE PointerInv(c, u)'
      <2>1. CASE u = t
            <3>1. PointerInv(c, u)
                  BY <1>c, Zenon
            <3>2. cur'[u] = Idle /\ queue' = queue
                  BY <1>5, <1>6, <2>1, Zenon
            <3> QED BY <1>12, <1>13, <3>1, <3>2 DEF PointerInv
      <2>2. CASE u # t
            <3>1. cur'[u] = cur[u] /\ (cur[u] # Idle => cur[u] \in Commands)
                  BY <1>1, <1>5, <2>2, CommandsTyped, Zenon
            <3> QED BY <1>c, <1>6, <1>12, <1>13, <3>1, Zenon DEF PointerInv
      <2> QED BY <2>1, <2>2, SMTT(30)
<1>16. ASSUME NEW c \in Callers, NEW u \in Threads
      PROVE  /\ InQueue(c, u)' <=> InQueue(c, u)
             /\ Running(c, u)' <=> Running(c, u) /\ u # t
      BY <1>5, <1>6, <1>12, SMTT(30) DEF InQueue, Running
<1>17. ASSUME NEW c \in Callers, NEW u \in Threads PROVE StageInv(c, u)'
      <2> SUFFICES ASSUME call[c].pc # "idle" PROVE StageInv(c, u)'
          BY <1>11, Zenon DEF StageInv
      <2>1. /\ \A k, l \in 1 .. Len(queue[u]) :
                 Mine(c, queue[u][k]) /\ Mine(c, queue[u][l]) => k = l
            /\ InQueue(c, u) => u < call[c].i
            /\ Running(c, u) => u < call[c].i /\ ~InQueue(c, u)
            /\ ran[c][u] = IF u < call[c].i /\ ~InQueue(c, u) THEN 1 ELSE 0
            BY <1>b, Zenon DEF StageInv
      <2> QED BY <1>6, <1>9, <1>12, <1>16, <2>1, Zenon DEF StageInv
<1>18. ASSUME NEW c \in Callers PROVE CallInv(c)'
      BY <1>a, <1>6, <1>9, <1>11, SMTT(30) DEF CallInv
<1>19. ASSUME NEW c \in Callers PROVE CountInv(c)'
      <2>1. ASSUME NeverFailed(c), InSyncCall(c)
            PROVE  ctx'[c] = Cardinality(Outstanding(c)')
            <3>0. ctx[c] = Cardinality(Outstanding(c))
                  BY <1>1, <2>1, Zenon DEF CountInv
            <3>1. CASE cmd.from # c
                  <4>1. ~Running(c, t)
                        BY <1>3, <3>1, Zenon DEF Running, Mine
                  <4>2. Outstanding(c)' = Outstanding(c)
                        BY <1>9, <1>16, <4>1, Zenon DEF Outstanding
                  <4> QED BY <1>8, <3>0, <3>1, <4>2, Zenon
            <3>2. CASE cmd.from = c
                  <4>1. Live(cmd)
                        BY <1>c, <1>2, <1>3, <2>1, <3>2 DEF PointerInv
                  <4>2. Running(c, t) /\ call[c].pc # "idle"
                        BY <1>2, <1>3, <3>2, <4>1, Zenon DEF Running, Mine, Live
                  <4>3. ~InQueue(c, t) /\ ~(t >= call[c].i)
                        <5>1. ~InQueue(c, t) /\ t < call[c].i
                              BY <1>b, <4>2, Zenon DEF StageInv
                        <5>2. t \in Int /\ call[c].i \in Int
                              BY <1>1, NAssumption DEF PoolType, Threads
                        <5> QED BY <5>1, <5>2
                  <4>4. t \in Outstanding(c)
                        BY <4>2, Zenon DEF Outstanding
                  <4>5. Outstanding(c)' = Outstanding(c) \ {t}
                        BY <1>9, <1>16, <4>3 DEF Outstanding
                  <4>6. IsFiniteSet(Outstanding(c)) /\ Cardinality(Outstanding(c)) \in 0 .. N
                        BY ThreadsFinite DEF Outstanding
                  <4>7. Cardinality(Outstanding(c)') = Cardinality(Outstanding(c)) - 1
                        BY <4>4, <4>5, <4>6, FS_RemoveElement, Zenon
                  <4>8. Cardinality(Outstanding(c)) # 0
                        BY <4>4, <4>6, FS_EmptySet, Zenon
                  <4>9. ctx[c] \in Nat /\ 1 <= ctx[c] /\ ctx[c] <= N
                        BY <3>0, <4>6, <4>8, NAssumption
                  <4>10. ctx'[c] = ctx[c] - 1
                        BY <1>8, <3>2, <4>1, <4>9, DecrementFact, NAssumption, Zenon DEF CtxMod
                  <4> QED BY <3>0, <4>7, <4>10, Zenon
            <3> QED BY <3>1, <3>2
      <2>2. CountInv(c) /\ (InSyncCall(c)' <=> InSyncCall(c)) /\ call'[c].kind = call[c].kind
            BY <1>1, <1>9 DEF InSyncCall
      <2> QED BY <1>6, <1>12, <2>1, <2>2, Zenon DEF CountInv
<1> QED
    BY <1>10, <1>14, <1>15, <1>17, <1>18, <1>19, Zenon DEF PoolInv

\* The pool starts with empty queues and no call.
LEMMA PoolInit == Init => PoolInv
<1> SUFFICES ASSUME Init PROVE PoolInv
    OBVIOUS
<1>1. /\ \A t \in Threads : queue[t] = << >> /\ Len(queue[t]) = 0 /\ cur[t] = Idle
      /\ \A c \in Callers : call[c] = NoCall /\ made[c] = 0 /\ calls = 0
      BY DEF Init
<1>2. NoCall.pc = "idle" /\ NoCall.kind = "none"
      BY Zenon DEF NoCall
<1>3. PoolType
      <2>1. << >> \in Seq(Commands)
            OBVIOUS
      <2>2. queue \in [Threads -> Seq(Commands)] /\ cur \in [Threads -> Commands \cup {Idle}]
            BY <2>1, Zenon DEF Init
      <2>3. NoCall \in [pc : {"idle", "push", "check", "wait"},
                        kind : Kinds \cup {"none"}, i : 0 .. N]
            BY NAssumption DEF NoCall
      <2> QED BY <2>2, <2>3, NAssumption, BoundsAssumption DEF Init, PoolType, CtxMod
<1>4. ASSUME NEW c \in Callers PROVE CallInv(c) /\ CountInv(c)
      BY <1>1, <1>2 DEF CallInv, CountInv, InSyncCall
<1>5. ASSUME NEW t \in Threads PROVE CommandInv(t)
      BY <1>1 DEF CommandInv
<1>6. ASSUME NEW c \in Callers, NEW t \in Threads PROVE StageInv(c, t) /\ PointerInv(c, t)
      BY <1>1, <1>2 DEF StageInv, PointerInv
<1> QED BY <1>3, <1>4, <1>5, <1>6 DEF PoolInv

\* PoolInv speaks of the variables only.
LEMMA PoolFrame ==
    ASSUME PoolInv, UNCHANGED vars
    PROVE  PoolInv'
<1>1. UNCHANGED <<queue, cur, call, ctx, inbox, lost, ran, calls, made, failed>>
      BY Zenon DEF vars
<1>2. /\ \A c, x : Mine(c, x)' <=> Mine(c, x)
      /\ \A x : (Live(x)' <=> Live(x)) /\ (Made(x)' <=> Made(x))
      /\ \A c : (NeverFailed(c)' <=> NeverFailed(c)) /\ (InSyncCall(c)' <=> InSyncCall(c))
      BY <1>1, Zenon DEF Mine, Live, Made, NeverFailed, InSyncCall
<1>3. \A c, t : (InQueue(c, t)' <=> InQueue(c, t)) /\ (Running(c, t)' <=> Running(c, t))
      BY <1>1, <1>2, Zenon DEF InQueue, Running
<1>4. \A c : Outstanding(c)' = Outstanding(c)
      BY <1>1, <1>3, Zenon DEF Outstanding
<1>5. PoolType'
      BY <1>1 DEF PoolInv, PoolType
<1>6. \A c \in Callers : CallInv(c)' /\ CountInv(c)'
  <2> SUFFICES ASSUME NEW c \in Callers PROVE CallInv(c)' /\ CountInv(c)'
      OBVIOUS
  <2>1. CallInv(c) /\ CountInv(c)
      BY Zenon DEF PoolInv
  <2>2. CallInv(c)'
      BY <1>1, <1>2, <2>1, Zenon DEF CallInv
  <2>3. CountInv(c)'
      BY <1>1, <1>2, <1>4, <2>1, Zenon DEF CountInv
  <2> QED BY <2>2, <2>3
<1>7. \A t \in Threads : CommandInv(t)'
  <2> SUFFICES ASSUME NEW t \in Threads PROVE CommandInv(t)'
      OBVIOUS
  <2>1. CommandInv(t)
      BY DEF PoolInv
  <2> QED BY <1>1, <1>2, <2>1 DEF CommandInv
<1>8. \A c \in Callers, t \in Threads : StageInv(c, t)' /\ PointerInv(c, t)'
  <2> SUFFICES ASSUME NEW c \in Callers, NEW t \in Threads
               PROVE  StageInv(c, t)' /\ PointerInv(c, t)'
      OBVIOUS
  <2>1. StageInv(c, t) /\ PointerInv(c, t)
      BY DEF PoolInv
  <2>2. StageInv(c, t)'
      BY <1>1, <1>2, <1>3, <2>1, Zenon DEF StageInv
  <2>3. PointerInv(c, t)'
      BY <1>1, <1>2, <2>1 DEF PointerInv
  <2> QED BY <2>2, <2>3
<1> QED BY <1>5, <1>6, <1>7, <1>8 DEF PoolInv

\* Every step of a caller or of a thread keeps PoolInv.
LEMMA PoolStep ==
    ASSUME PoolInv, [Next]_vars
    PROVE  PoolInv'
<1>1. ASSUME NEW c \in Callers, Caller(c) PROVE PoolInv'
      <2>1. CASE \E kind \in Kinds : AllStart(c, kind)
            BY <2>1, AllStartInv
      <2>2. CASE AllPush(c)
            BY <2>2, AllPushInv
      <2>3. CASE AllFail(c)
            BY <2>3, AllFailInv, Zenon
      <2>4. CASE AllPushed(c) \/ SyncCheck(c)
            BY <2>4, ReturnOrWait
      <2> QED BY <1>1, <2>1, <2>2, <2>3, <2>4 DEF Caller
<1>2. ASSUME NEW t \in Threads, Thread(t) PROVE PoolInv'
      BY <1>2, RunCbInv, RunSignalInv DEF Thread
<1> QED BY <1>1, <1>2, PoolFrame DEF Next

\* The inductive invariant of the pool: each thread gets one command of a call,
\* and ctx.nthreads counts the threads that have not signalled.
THEOREM PoolInvariance == Spec => []PoolInv
<1>1. Init => PoolInv
      BY PoolInit
<1>2. PoolInv /\ [Next]_vars => PoolInv'
      BY PoolStep
<1> QED BY <1>1, <1>2, PTL DEF Spec

\* No command points to the context of a call that has returned, the stack frame
\* of evthr_pool_defer_all_sync, unless an evthr_defer of its sender failed.
THEOREM NoDanglingContext == Spec => []DanglingOnlyAfterFailure
<1>1. PoolInv => DanglingOnlyAfterFailure
      <2> SUFFICES ASSUME PoolInv, NEW cmd \in SyncCommands, NeverFailed(cmd.from)
                   PROVE  Live(cmd)
          BY Zenon DEF DanglingOnlyAfterFailure
      <2>1. PICK t \in Threads :
                cmd \in {queue[t][k] : k \in 1 .. Len(queue[t])} \cup {cur[t]}
            BY DEF SyncCommands
      <2>2. cmd.kind \in {"sync", "completed"} /\ cmd.from \in Callers
            <3>1. cmd \in [kind : {"sync", "completed"}, from : Callers, id : 1 .. MaxCalls]
                  BY DEF SyncCommands
            <3> QED BY <3>1, Zenon
      <2>3. PointerInv(cmd.from, t)
            BY <2>2, PoolParts, Zenon
      <2>4. CASE cmd \in {queue[t][k] : k \in 1 .. Len(queue[t])}
            <3>1. PICK k \in 1 .. Len(queue[t]) : cmd = queue[t][k]
                  BY <2>4, Zenon
            <3> QED BY <2>2, <2>3, <3>1, Zenon DEF PointerInv
      <2>5. CASE cmd = cur[t]
            <3>1. cur[t] # Idle
                  BY <2>2, <2>5 DEF Idle
            <3> QED BY <2>2, <2>3, <2>5, <3>1, Zenon DEF PointerInv
      <2> QED BY <2>1, <2>4, <2>5
<1> QED BY <1>1, PoolInvariance, PTL

\* Only the caller's own look at ctx.nthreads, at 0, ends the wait of its call.
LEMMA OnlyZeroReturns ==
    ASSUME PoolInv, Next, NEW c \in Callers, call[c].pc = "check", call'[c].pc = "idle"
    PROVE  ctx[c] = 0
<1>1. /\ call \in [Callers -> [pc   : {"idle", "push", "check", "wait"},
                               kind : Kinds \cup {"none"}, i : 0 .. N]]
      /\ ctx \in [Callers -> 0 .. CtxMod - 1]
      BY PoolParts, Zenon DEF PoolType
<1>2. ASSUME NEW d \in Callers, Caller(d) PROVE ctx[c] = 0
      <2>1. d = c
            <3>1. \E r : call' = [call EXCEPT ![d] = r]
                  BY <1>2, Zenon DEF Caller, AllStart, AllPush, AllFail, AllPushed, SyncCheck
            <3> QED BY <1>1, <3>1, SMTT(30)
      <2>2. NoCall.pc = "idle"
            BY SMTT(30) DEF NoCall
      <2>3. SyncCheck(c)
            BY <1>2, <2>1, <2>2, Zenon DEF Caller, AllStart, AllPush, AllFail, AllPushed
      <2>4. CASE ctx[c] > 0
            <3>1. call' = [call EXCEPT ![c] = [call[c] EXCEPT !.pc = "wait"]]
                  BY <2>3, <2>4 DEF SyncCheck
            <3>2. call'[c].pc = "wait"
                  BY <1>1, <3>1, Zenon
            <3> QED BY <3>2
      <2>5. ctx[c] \in Nat
            BY <1>1, NAssumption DEF CtxMod
      <2> QED BY <2>4, <2>5
<1>3. ASSUME NEW t \in Threads, Thread(t) PROVE FALSE
      <2>1. call' = call \/ \E d : call[d].pc = "wait" /\ call' = [call EXCEPT ![d].pc = "check"]
            BY <1>3 DEF Thread, RunCb, RunSignal, Decrement
      <2> QED BY <1>1, <2>1, SMTT(30)
<1> QED BY <1>2, <1>3, Zenon DEF Next

\* evthr_pool_defer_all_sync is a barrier: a call that returns after its wait has
\* had every thread of the pool run the callback exactly once, and
\* evthr_pool_defer_all_completed all its completions queued to it, but for those
\* whose evthr_defer failed.
THEOREM SyncIsBarrier == Spec => SyncBarrier
<1> DEFINE Returns(c) == NeverFailed(c) /\ call[c].pc = "check" /\ call'[c].pc = "idle"
           Done(c) == /\ \A t \in Threads : ran[c][t] = 1
                      /\ call[c].kind = "completed" => inbox[c] + lost[c] = N
<1>1. ASSUME PoolInv, [Next]_vars, NEW c \in Callers, Returns(c) PROVE Done(c)
      <2>1. Next
            BY <1>1, Zenon DEF vars
      <2>2. ctx[c] = 0
            BY <1>1, <2>1, OnlyZeroReturns, Zenon
      <2>3. CallInv(c) /\ CountInv(c)
            BY <1>1, PoolParts, Zenon
      <2>4. InSyncCall(c)
            BY <1>1, <2>3, Zenon DEF CallInv, InSyncCall, Kinds
      <2>5. \A t \in Threads : ran[c][t] = 1
            BY <1>1, <2>2, <2>4, NobodyOutstanding
      <2>6. {t \in Threads : ran[c][t] = 1} = Threads
            BY <2>5, Zenon
      <2>7. call[c].kind = "completed" => inbox[c] + lost[c] = N
            BY <2>3, <2>6, ThreadsFinite, Zenon DEF CountInv
      <2> QED BY <2>5, <2>7, Zenon
<1>2. PoolInv /\ [Next]_vars => [\A c \in Callers : Returns(c) => Done(c)]_vars
      BY <1>1
<1> QED BY <1>2, PoolInvariance, PTL DEF Spec, SyncBarrier
=============================================================================

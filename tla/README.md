# A TLA+ model of libevhtp

libevhtp is an HTTP server and client library on top of libevent: HTTP/1.x with a parser of
its own (`msgparser.c`), HTTP/2 through nghttp2, and optional worker threads that
are fed through lock-free queues (`thread.c`, `mpsc-queue.h`, `spsc_queue.h`).
These modules model the parts of it that are hard to test: what threads do between
each other's steps, what callbacks do in orders nobody wrote down, and what is left
when something fails in the middle. `PROJECT.json` maps every definition to the
lines it models.

Line numbers below are those of the files under `src/`. The modelled configuration
is the one `CMakeLists.txt` builds: `evhtp.c`, `numtoa.c`, `msgparser.c`, `log.c`,
`sslutils.c`, `thread.c`, with `WITH_SEND_MSG`, `WITH_HEAD` and `WITH_COUNTERS` off.

## Inventory

| Part | State | Operations | Meets | What is hard |
|---|---|---|---|---|
| spsc ring, `spsc_queue.h` | head, tail, a cached copy of each, slots | enqueue, dequeue | recycling of commands | two threads, cached indices, wrap |
| mpsc queue, `mpsc-queue.h` | head, tail, stub, next pointers | insert, poll | evthr | an insert is two steps, between which the list is cut |
| evthr, `thread.c` | eventfds, queue, event loop | defer, stop, free, the loop | pool, connection | lost wakeups, full eventfd, stop racing with work |
| command cache, `thread.c` | ring per sender | take or calloc, give back or free | both queues | double use, leak, several producers |
| evthr pool, `thread.c` | threads, ticket, choice counters | defer, defer_all, _sync, _completed | evthr | context on a caller's stack, failing defers, waiting |
| listener, `evhtp.c` | evhtp_t: listener, pool, lock, list of used requests, list of callbacks | bind, accept, dispatch, registration, evhtp_free | pool, connections | lists shared by threads, defers that fail half way, shutdown |
| HTTP/1 connection, `evhtp.c` | flags, request, parser, buffers, resume event | read, write, event and resume callbacks; pause, resume, take ownership, free | parser, application | pipelining, pauses anywhere, close at any point |
| replies, `evhtp.c`, `numtoa.c` | request flags, headers, output buffer | send_reply, reply_start/body/end, chunked | connection, lists | replies finished later than their output; a length for every combination of calls, version and method |
| message parser, `msgparser.c` | state, flags, lengths, counters | run, eof, pause, resume, skip_body | connection | messages cut anywhere, hooks that pause or fail |
| HTTP/2 server, `evhtp.c` | session, streams, requests, deferred flush | nghttp2 callbacks, replies, reset, write/event callbacks | nghttp2, application | streams that close under a callback, parking, windows |
| virtual hosts | connection->htp | lookup by Host | both connections | state that outlives a request |
| clients, `evhtp.c` | connection, c->request or pending list, streams | make_request, the client branches of the callbacks, freeing | parser, nghttp2, application | requests freed at any time, responses that never come |
| key-value lists, `evhtp.c` | pairs with storage | add, copy, remove, find, collapse | requests, replies | who owns which text |
| query strings, URI paths, globs, callbacks, header filters | none | pure functions | request | character-level edge cases |
| TLS, logging, hook registration | see `PROJECT.json` | | | |

The correctness properties these parts owe each other: a queued command is run once,
in order, and by somebody who is awake; memory is not used after it was given back;
replies leave in the order of their requests; a body is what the peer sent, whatever
the cuts and pauses; limits and hosts apply to the request they belong to; what is
paused stays and what is resumed goes on; what is finished is delivered; what is
closed is freed; a response goes to the request it answers. The hazards of the code, each at its line and with the properties
that watch it, are listed in `PROJECT.json`.

## Modules

```
FifoQueue <- (implements) - MpscQueue <- EXTENDS - Evthr <- EvthrProofs
SpscQueue <- EXTENDS - CmdCache <- SpscQueueProofs
EvthrPool <- EvthrPoolProofs
PoolDefer <- EXTENDS - Server <- ServerLemmas <- ServerProofs
Client <- ClientProofs
Connection <- MCConnection, ConnectionProofs
H2Session <- MCH2Session, H2SessionProofs
MsgParser, MsgGrammar <- MCMsgParser
KvList <- H2Headers, Reply
RequestTarget <- MCRequestTarget;  MCRequestTarget, H2Headers, Reply <- MCHeaders <- MCAlgorithms
```

**SpscQueue** is `spsc_enqueue`/`spsc_dequeue`. Each access to a shared field is an
action (`EnqueueLoad`, `EnqueueReload`, `EnqueueSlot`, `EnqueueStore`, and the same
for dequeue); the release/acquire pairs of the code justify interleaving them
sequentially. The set of producers is a constant, because `thread.c` has more than
one. `sent` and `got` are history.

**MpscQueue** is `mpsc_queue_insert` (exchange of the head, then the link) and
`mpsc_queue_poll` with every atomic access a step, including the insertion of the
stub by the poller. A polled node belongs to its owner, who may free it or insert it
again at once. **FifoQueue** is the abstract specification: a sequence with atomic
insert and poll, where a poll may also answer RETRY while an insert is pending.
`ImplementsFifo` is the refinement: a node is in the abstract queue from the
exchange of the head.

**Evthr** adds `evthr_defer` (insert, link, write the eventfd, which fails with
EAGAIN at its limit), the loop that reads the eventfd and polls until a poll does not
return an item, `evthr_stop` (second eventfd, join) and `evthr_free`.

**CmdCache** is the life of an `evthr_cmd_t`: taken from the sender's ring or
calloc'ed, queued to a worker, run, given back to the ring or freed.

**EvthrPool** is `evthr_pool_defer_all`, `_sync` and `_completed`. The stack
context of a call is identified by the number of the call; a command that outlives
it is dangling. A completion that `evthr_defer` cannot queue is counted in `lost`: its
result is ignored (641). `calls` counts the calls of all callers and is only there to bound them.
**PoolDefer** is the two-choice selection of `evthr_pool_defer`,
each atomic access a step, with a wrapping ticket.

**Server** composes `PoolDefer` with the listener and what the threads share. The main
thread binds, accepts and defers each connection (`Accept`, `Choose`, `AcceptDefer`), or
serves it itself when there is no pool; a worker runs `htp__run_in_thread_`, takes a
request from `htp->requests` for each request and puts it back, under the lock, in
steps of their own (`LockRequests`, then `GetRequest` or `PutRequest`, which use the list
as it was read). An application thread registers callbacks under the same lock and sends
commands to the pool. `EvhtpFree`, `StopThread`, `JoinThread`, `FreeHtp` are
`evhtp_free`. A queue is a sequence here: `Evthr` shows that it is one. `Deliver` has the
three ways `evthr_defer` can end, one of which has queued the command and yet fails. The
connection is then freed (3368), and the worker that polls the command runs on the freed
memory: `RunFreed` does what `htp__run_in_thread_` may do with whatever is there, the old
connection or one accepted since, and leaves the worker "astray". `Defined` says that this
has not happened; the invariants of `Server` are about such states.

**Connection** is one HTTP/1 server connection. The thread is in the event loop, in
`htparser_run` (one action per parser hook: `RunBegin`, `RunHead`, `RunBody`,
`RunComplete`, `RunOut`) or behind it (`ReadHandover`, `ReadTooLong`, `ReadPause`,
`ReadError`, `ReadReturn`, which are the branches of `htp__connection_readcb_`
after the run). `WriteCb`'s disjuncts are the exits of `htp__connection_writecb_`,
`ResumeCb`'s those of `htp__connection_resumecb_`; `AppFinish` and `AppResume` are
the application, later. A message is a head and a number of body units; the parser
is here what the connection sees of it, `MsgParser` is the parser itself. What the client
sends is a constant: `Stream` has the units of all messages one behind the other and
`Start` says how many come before each message (`StreamAssumption`); `next` counts those
that have been sent.

**MsgParser** is `htparser_run`: each action is one turn of its loop, `Feed`, `Run`,
`Resume` and `Eof` are the caller. `HeadLine` is the first line of a message, by
`ParseRequestLine` or `ParseStatusLine`; of a target it has the form, the parts that are
reported and the error. A stream is a sequence of symbols,
CR and LF being themselves, so lines are cut by reads anywhere. **MsgGrammar** says
what a whole stream contains, by recursion on the stream and without a parser state;
`ReportsFollowGrammar` compares the two.

**H2Session** is an HTTP/2 server connection. nghttp2 is external and modelled from
its use: received frames call back in `Recv*` and `Data*` actions (one per exit of
the callback; `DataDropped` is what nghttp2 does with DATA it does not report), submitted frames leave in `Send*`, streams close when both sides have
ended or one resets. The request callback is a place of its own (`pc.at = "cb"`)
within the receive, so that replies, resets and the flush happen under it.

**Client** is a client connection, with or without TLS, over HTTP/1 or, when ALPN chose
it, HTTP/2. `Recv*` actions are a message or frame of the server with the whole chain of
callbacks it sets off, `Callback` being the application's, which may free the request.
`c->pending` is a set: no code depends on the order of that list.
The history `answer` is what the server has sent for each request. The application of
the model keeps to what the code supports: over HTTP/1 one request at a time, and no
request is freed while its upload is unfinished; a request that `evhtp_h2_make_request`
could not submit is left alone.

**KvList** is `evhtp_kvs_t`: each text of a pair carries the storage it is in, so that
ownership (`k_heaped`, `v_heaped`) can be compared with it. **Reply** is
`htp__create_reply_` and the functions that send replies; the output is a sequence of
heads, chunk sizes, line ends and bytes, and lengths are formatted digit by digit as in
`numtoa.c`. **H2Headers** is which headers go out over HTTP/2. `MCHeaders` has the
reference definitions: a list of name-value pairs, the tokens of a field, and the way a
peer reads a reply by RFC 9112 (`Decoded`). A call that the code does not bring to a defined
end has no result: the set of lists after it is empty.

**RequestTarget** has the pure algorithms on the target of a request, loops as folds
over the characters and the recursive glob matcher as a recursive operator, which keeps
this module with TLC: `htp__path_new_`, `htp__glob_match_`, `htp__callback_find_`,
`htp__request_set_callbacks_`, `htp__uri_set_query_`, `evhtp_parse_query_wflags` and
`evhtp_unescape_string`. `MCRequestTarget` grows texts a character at a time and holds
the reference definitions: what a pattern denotes, where a query is cut, what an
escaped text stands for. `regexec` is external; a regular expression is a word here, and
`"group"` one whose subexpression takes no part in the match.

The state machines have a type invariant (`TypeOK`, `ThrTypeOK`) that says what their
variables hold, unless the comments at the variables do; wherever there are
proofs it is part of the inductive invariant, which is proved. Operators whose comment begins with "Mutant" are variants of the
definition that follows them; a property is only kept if it fails for one of them.

## Runs

| Run | Question | States (about) |
|---|---|---|
| `cmd_cache` | `Fifo` and `ExactVerdicts` of the ring in its use, `OneOwner` of every command | 210 000 |
| `evthr_worker` | `ImplementsFifo`, `NoWriteToPolledNode`, `EventuallyRun`, `StopReturns` | 85 000 |
| `pool_defer_all` | `SyncBarrier`, `SyncReturns`, `DanglingOnlyAfterFailure` | 349 000 |
| `server` | `Balance` of the backlogs; `ConnectionOnce` (one place, one close), `SharedIntact` (requests and callbacks under concurrent use), `AcceptSettles` (accepts and shutdown come to an end) | 443 000 |
| `conn_sequential` | for a client that waits for replies: `EveryRequestAnswered`, `ClosedIsFreed`, `PerRequestState` (virtual host, body limit, keep-alive limit) | 900 |
| `conn_pipelined` | for one that does not: `RepliesInOrder`, `BodyIntact`, `PauseHolds`, `HandoverExact` | 5 300 |
| `msg_parser` | `ReportsFollowGrammar`, `HooksObeyed` (pause and skip_body), `EventuallyRead` | 30 000 |
| `h2_streaming` | `NoDanglingRequest`, `ReplyIntact`, `FinishedReplyCompletes` | 231 000 |
| `h2_requests` | `BodyIntact`, `WindowReturned` (also with DATA on streams that are gone), `DispatchedOnce` | 411 000 |
| `client` | `ClientReferences` (the connection points to the requests that exist and to no other, streams to no freed one), `ResponseIntact`, `RequestSettles` | 131 000 |
| `algorithms` | `GlobMatches`, `CallbackChosen`, `QueryReadsArguments`, `HeadersKept`, `H2Forwarded`, `ReplyDecodes` | 33 000 |
| `cmd_cache_pool` | violates `OnlyWriter` | |

All passing runs hold. Deadlock is not checked: every model stops when its bounded
work is done or its connection is freed.

### Bounds

* `Cap = 3`, five enqueues: the indices wrap, both caches go stale, the ring is full
  and empty; four commands, so the ring (which holds two) overflows into `free`.
* Three senders and three commands in `Evthr`: two inserts can be unlinked above a
  linked one, and `MaxCount = 2` lets the eventfd fill up. `MaxSent = 3` bounds the
  inserts; `StopReturns` would be an effect of that bound, so it is claimed only for
  senders that come to rest (below).
* Two threads, two callers, three calls and one failing defer in `EvthrPool`: a
  failed call and a later one of the same caller overlap in the queues.
* `Server`: two workers, and `TicketMod` not a multiple of their number, so the wrap of
  the ticket shows; two connections with a request each and one registration, so that
  three threads want the lock and a request object changes threads; `MaxTail` caps the
  backlog counters. Both with a pool and without.
* `Client`: two requests, POST or HEAD, responses of up to two units: on HTTP/1 the second
  request meets what is left of the first response, on HTTP/2 two responses interleave.
* Three or four messages, bodies up to the limit, up to three tokens a read: a read
  can hold the end of a request and the beginning of the next, and a body comes in
  one to three pieces. Four messages against a keep-alive limit of three.
* The streams of `MCMsgParser` cover each framing (none, length, chunked, until
  close), conflicts between them, the limits (a line of two symbols, two headers,
  three empty lines), what follows a message, and every cut.
* Paths and queries of up to five characters, patterns of up to three, texts of up to
  four bytes: an escape, a separator, an equals sign and a character behind it fit in
  one query; the alphabets hold one character of each class the code tells apart.
* Header lists made by up to four calls, with `MaxResults = 2` for the code's 100, so that
  the limit of `evhtp_collapse_headers` is met; replies of up to six calls in pieces of
  five bytes, so that lengths have one digit or two.
* Two HTTP/2 streams, two units of body each way: streams share the scratch buffer,
  the host and the window; a unit can be sent while the next is buffered.

### Fairness

Weak fairness only, and of what the code and its event loop do by themselves: a
thread that can step does (`Evthr`, `EvthrPool`), libevent calls a callback whose
event is pending (`WriteCb`, `ResumeCb`, `FlushCb`, `ReadEof`), a parser run goes on. In
`Server` a thread inside an operation goes on, and nobody has to begin one.
A producer that has exchanged the head goes on to link and to wake: it is inside
`evthr_defer`. Where the property is about the application's or peer's side of the
bargain it is assumed: an application answers the request it deferred and resumes
what it paused (`AppFinish`, `AppResume`), data in the socket is read (`Recv`,
`Feed`), a peer that closed its window opens it (`RecvWindow`),
a server answers what it was asked and a connect succeeds or fails (`Client`). Nothing makes a peer
close, reset or fail, an application reset, or a worker stop.

## Proofs

`SpscQueueProofs` proves for every capacity of at least two, every set of data and
every bound, for one producer (`SingleProducer`):

* `Invariance`: `Spec => []Inv`;
* `TypeCorrect`, `FifoDelivery`, `RaceFreedom`, `VerdictsAreExact`: types, that what
  is received is a prefix of what was sent, that producer and consumer are never at
  the same slot, and that "full" and "empty" were true when the index was loaded.

The argument: none of these is inductive. `Fifo` speaks about histories and needs to
know which slots hold which pointers (`RingInv`: the slot at distance d from the tail
holds the d-th pointer not yet received). That a step keeps `RingInv` needs the side
that acts to have room or data, which it decided on an older copy of the other
index; `CacheInv` says such copies err on the safe side, by the distance `Dist`
around the ring, and `ProducerInv`/`ConsumerInv` carry the decision to the step that
uses it. `DistSucc`, `DistFull` and `DistEmpty` are what is needed of `Succ` and `Dist`. `Inv` and
`NoSlotRace` also hold when added to `CmdCache.cfg`. The assumptions are those of the module:
`Cap >= 2`, `NoData \notin Data`, and one producer; `cmd_cache_pool` shows that the
pool does not satisfy the last.

Under the same assumptions it proves of `CmdCache`, the ring in its use for spent commands:

* `CommandsConserved`: `CacheSpec => []OneOwner`;
* `CacheRingCorrect`: `Fifo` and `ExactVerdicts` of the ring hold in this use, because every
  step of sender and worker is a step of `SpscQueue` (`CacheUsesRing`).

`OneOwner` counts the places of a command; `OwnerInv` says instead that the three sets of
places (`QueuedAt`, `HeldBy`, `SlotsOf`) have one element altogether, and adds `Inv` of the
ring: that the slot a worker writes is outside the ring, and that the command the sender
has read is still the one at the tail when it moves the tail, are facts about the ring.
There is a lemma per action; each moves one command, and `OneMoves` covers the others.

`EvthrProofs` proves, for any number of producers and nodes and any bound:

* `QueueInvariance`: `Spec => []QueueInv`, the inductive invariant at the end of `MpscQueue`;
* `PolledNodesUnwritten`: `Spec => []NoWriteToPolledNode`;
* `QueueImplementsFifo`: `Spec => ImplementsFifo`, the refinement of `FifoQueue`;
* `WorkerQueueCorrect`: both of them for `ThrSpec`, the queue in its use by `evthr_defer` and
  the loop of a worker, whose steps are steps of `MpscQueue` or leave it alone
  (`WorkerUsesQueue`);
* `WakeupsKept`: `ThrSpec => []NoLostWakeup`: while the thread is in its event loop and a
  command is queued, the eventfd is readable or a sender is about to write it. This is the
  safety part of `EventuallyRun`.

The argument: the history `log` has the nodes in the order of the exchanges of the head, and
`lo` is where the tail is in it. `ListInv` says that the list from tail to head is that part of
the log, each `next` being the successor or null. `LinkInv` says that every null among them,
but the last, is one that a producer, or the poller inserting its stub, is about to write,
and which: so a poll that meets a null below the head is right to answer RETRY. `OwnerInv`
keeps the nodes of the list apart from those of their owners, so that the link of a late
producer never goes to a polled node: that node is linked already, or still in the list.
`PollInv` carries what `mpsc_queue_poll` has read to the step that uses it, and `RankInv` counts
the nodes that are not the stub, which is the abstract queue. The refinement is proved one step
at a time (`ItemDelivers`, `RetryIsRight`, `EmptyIsRight`, `FifoStep`). For the wakeups,
`WakeInv` follows a poll from its last look at `next` or `head`, after which a sender that adds
a command has its write of the eventfd still before it. The assumption is that `Stub` and `Null`
are not nodes (`NodesAssumption`). `QueueInv`, `NoLostWakeup` and `WakeInv` hold when added to `Evthr.cfg`.

`EvthrPoolProofs` proves, for any number of threads and callers and
any bound on calls and failures:

* `PoolInvariance`: `Spec => []PoolInv`, at the end of `EvthrPool`;
* `SyncIsBarrier`: `Spec => SyncBarrier`, a property of the step that ends the wait: every
  thread has run the callback, and for `_completed` each has queued its completion or lost
  it for want of memory;
* `NoDanglingContext`: `Spec => []DanglingOnlyAfterFailure`.

The argument: a call returns when `nthreads` is 0, so `CountInv` has to say what it counts: the
threads that have not been sent the command yet, have it in their queue, or run it
(`Outstanding`). That is right as long as each thread gets one command of the call, and has run
it when it is neither queued nor run (`StageInv`), and as long as only commands of this call
decrement it: without a failed defer, a command that points to a context of the caller belongs
to the call the caller is in (`PointerInv`). These need each other: a call that returned early
would leave such commands behind. The size_t wraps in the model (`CtxMod`); `DecrementFact` is
where the count being at least 1 matters. `PoolInv` holds when added to `EvthrPool.cfg`.

`ServerProofs` proves, for any number of threads of at least two, of connections,
requests per connection and callbacks:

* `InvHolds`: `Spec => []DefinedInv`: until a worker runs a connection that was freed after
  its wakeup failed, `Inv` holds, which is at the end of `Server`;
* `ConnectionOnceHolds`: up to there an accepted connection is at one place and closed once;
* `SharedIntactHolds`: up to there the list of used requests and the list of callbacks stay
  intact, and are freed only when no thread is at work.

The argument: neither property is inductive. A thread computes the new list from the one it
read when it took the lock, so that nothing is lost needs `LockInv`: whoever is between lock
and unlock holds the lock, alone, and what it read is still the list. That the request it
gives back is the connection's own, and that the connection is not freed meanwhile, is
`WorkInv`. That a connection is not in two queues when it is deferred is `DeferInv`. That
nobody is inside the lock when the lists are freed is `ShutdownInv`: with a pool, the threads
below `main.i` have been joined and the main thread serves nothing; without one, only the
main thread serves, and it frees when it serves nothing. There is a lemma per action
(in `ServerLemmas` for callbacks, shutdown, and the requests of a connection; in `ServerProofs`
for the lists under the lock and for accepting), and one per conjunct for the steps that leave
its variables alone. The assumptions
are `NAssumption` (two threads or more), `BoundsAssumption` and `CallersAssumption` (the names
of the threads differ). `DefinedInv` also holds when added to `Server.cfg`. That the lock is used
is part of the model: an application that does not call `evhtp_use_callback_locks` is not
covered, and `SharedIntact` fails for it (the variant `LockNone`).

`ClientProofs` proves, for any number of requests and any length of a response:

* `ClientInvariance`: `Spec => []ClientInv`, at the end of `Client`;
* `ClientPointersValid`: `Spec => []ClientReferences`;
* `ResponsesIntact`: `Spec => []ResponseIntact`.

The argument: a response is handed to the request that `c->request` points to (HTTP/1) or to
the one in the stream's user data (HTTP/2), so that it is the right one rests on what those
pointers are. `ProtocolInv` says that `c->request` and `c->pending` are never both in use, and
that a TLS connection has no request before ALPN has decided. `ReadingInv` says that over
HTTP/1 the server answers the request in `c->request`, and ties the units the parser waits for
to those of the answer that are still to come: otherwise the callback could run early.
`Linked` says that a request is on
its connection's list exactly while it exists, and that a stream points to it only while it
is there. `Delivered` says that the request has what was sent, but for the one unit whose hook
failed, with which the connection ended; this exception is why `ResponseIntact` speaks of a
prefix and is not inductive. The end of a connection (`FreeInv`) and a
callback that may free its request (`CallbackFields`) are treated once for all the actions they
end; there is a lemma per action. The assumption is `ClientAssumption` (the two bounds are natural numbers); what
hooks return and which methods there are is arbitrary. `ClientInv` holds when added to
`Client.cfg`, with `Nat` cut to the numbers up to 3 so that TLC can enumerate it. The restrictions of the model's application (above) are part of the theorems.

`ConnectionProofs` proves, for any sequence of messages with bodies of any length, any cut of
them into reads, any limits, and whatever hooks return and callbacks do (the constants
`HookResults` and `CbActions`):

* `Invariant`: `Spec => []ConnInv`, in `Connection`;
* `RepliesOrdered`: `Spec => []RepliesInOrder`;
* `BodiesIntact`: `Spec => []BodyIntact`;
* `HandedOver`: `Spec => []HandoverExact`;
* `PauseKept`: `Spec => PauseHolds`, if no callback calls `evhtp_connection_pause`, for which
  it does not hold (below);
* `RequestStateFresh`: `Spec => []PerRequestState`, if the client waits for each reply and no
  callback announces a length whose bytes it sends before it ends the reply.

The argument: a reply is in its place in the output if the parser does not begin a message
while the last one is unanswered, and that rests on how the connection was stopped: by the
pause flag, by waiting for a write, by the event that resumes it, or by the parser itself.
`PauseInv` says that these exclude each other, which of them lets the connection read, and what
the read callback can tell from the request when a run ends paused. `InputInv` says that the
input is the end of what has been sent, so that the number of units the parser has read
(`Parsed`) is determined; `ParserInv` ties it to the message (`NoRequestInv` between two,
`ParsingInv` inside one, `DispatchedInv` behind its callback) and says where the units of a
body are, which after a hook that paused is `buffer_in` followed by the scratch buffer.
`AnswerInv` says that the final replies sent or queued are those of the callbacks that have
run, but for the one whose application has not finished; with it a new final reply is the next
in order. There is a lemma per exit of each callback; records and sequences are treated in
lemmas of their own (`PartStep`, `BodyUnits`, `ReplyStep`), which say what a step of the parser
does to `Parsed` and to the body, and what a reply does to the order. `SequentialInv` adds, for a client that waits, that the
final reply of a request is the last thing in the output until the write callback drops the
request (`TurnInv`), so that the next message has not begun when the connection's fields are
reset (`FreshInv`). The assumptions are `ConnectionAssumption` (types of the constants) and
`StreamAssumption` (above). `ConnInv` holds when added to `ConnPipelined.cfg`, also with
`"conn_pause"` among `CbActions`; `ConnInv` and `SequentialInv` when added to
`ConnSequential.cfg`, also with `"conn_pause"` and `"own"` and a hook that returns ERROR.

`H2SessionProofs` proves, for any number of streams, any lengths of bodies and replies, and
whatever hooks return:

* `Invariant`: `Spec => []H2Inv`, at the end of `H2Session`;
* `RequestsPointedAtLive`: `Spec => []NoDanglingRequest`;
* `RepliesIntact`: `Spec => []ReplyIntact`;
* `BodiesIntact`: `Spec => []BodyIntact`, if no on_read hook pauses: a hook that does leaves
  units in the scratch buffer, which all streams share;
* `CallbackOnce`: `Spec => DispatchedOnce`, a property of the step that calls the callback.

The argument: the streams share little (`ConnInv`: where the session is, the
scratch buffer, nothing left to do once it is freed), so `H2Inv` is a statement `Sound` about
each stream by itself: who points to its request (`Pointed`), how far it is (`Phase`: a stream
that can still receive has its user data or runs its callback), what of the reply has been
framed, is buffered or was never begun (`Replying`), and what of the body is in `buffer_in`
(`Received`). `Replying` is what makes an end of stream safe: a data source is there as long as
data may be asked for, and only the streaming one may find the buffer empty before the reply
is finished. For each change of a stream and its request (`StreamClosed`, `Settle`, `Submit`...) a
lemma says that its result is sound; an action is such a change of one stream, and `StreamStep`
covers the others. The assumption is `H2Assumption` (the bounds are natural numbers).
`H2Inv` holds when added to `H2Requests.cfg` and to `H2Streaming.cfg`.

Only model-checked:

* `WindowReturned` of `H2Session`: the invariant that is proved does not carry the window.
* Liveness (`EventuallyRun`, `StopReturns`, `SyncReturns`, `AcceptSettles`,
  `EveryRequestAnswered`, `ClosedIsFreed`, `EventuallyRead`, `FinishedReplyCompletes`,
  `RequestSettles`), which is outside what the prover handles, as is `ENABLED`.
* What the recursive definitions of `MsgGrammar`, `RequestTarget` and `MCHeaders` compute, and
  with them the properties of `msg_parser` and `algorithms` that compare code with them: induction over data is out of
  the prover's reach, and modules that use recursive operators hold no theorems.
* `Balance`, which is a statement about its instance, a pool of two threads: in a larger pool
  whose size does not divide 2^32 the threads with low numbers get one more command each time
  the ticket wraps, and if the size is also even the choice does not even that out.
* `HooksObeyed` of the parser, which is within reach of the prover but has no proof yet. Its first
  part is about the hooks of a configuration: with a hook that pauses in the middle of a line,
  `on_hdr_key` for one, it does not hold (below).

## What the models say about the code

One disagreement between code and comments is kept as a run:

* `cmd_cache_pool`: each worker of a pool gives commands back to the sender's ring
  (`thread.c:127`), whose enqueue relies on being the only writer
  (`spsc_queue.h:60`).

Others appeared while modelling. Where a property is named, TLC finds it violated after
the change of configuration that is given, and the passing configuration leaves the case
out on purpose; the rest are in the definitions as the code has them:

* `evthr_stop` waits for a worker that leaves the loop over its queue only when a poll finds
  nothing (`thread.c:118`): while senders keep the queue filled it need not return, as the
  eventfd it writes is another event of the worker's loop (322). `StopReturns` says that it
  does once they are at rest.
* `evthr_pool_defer_all_completed` returns OK although a completion was not queued: the
  result of `evthr_defer` is ignored (`thread.c:641`).
* Per-request state of an HTTP/1 connection is reset in the write callback only
  (2760-2790), not when `parse_start` replaces a finished request (1541): with
  `Pipelined = TRUE` in `ConnSequential.cfg`, `PerRequestState` fails, in each of its
  conjuncts. So does `EveryRequestAnswered`: the resume at 2599 does
  nothing on a connection that is not paused (3598).
* `"stream_length"` in `CbActions`: a reply whose end comes after its output was
  flushed is only flagged (4507), no write callback follows; `EveryRequestAnswered`
  fails.
* `MCExpectSecond` (with three messages: `MCHost`, `MCBody`, `MCKeepAlive`) and a pausing
  hook in `ConnSequential.cfg`: the resume finds the 100 Continue in the
  output, waits for it (2997), and the write callback does not resume the parser
  (2725); `EveryRequestAnswered` fails.
* `"conn_pause"` in `CbActions`: a callback that pauses the connection and not the
  request makes `parse_fini` fail (2304) with a status that is not PAUSE (2585);
  `PauseHolds` fails.
* A body of exactly `max_body_size` is refused (`>=`, 2117 and 6107).
* A connection freed with output pending keeps a write callback and no event
  callback (7207): if the write fails, nothing releases the bufferevent.
* Parser: a line is measured with its CR while it is unfinished, so one at the limit
  that a read cuts before its LF is refused (`msgparser.c:190`); the empty-line limit
  fails at the limit (1020); a pause in `on_hdr_key` does not keep
  `on_hdr_val` from being called (667-726).
* Parser: `htparser_set_skip_body` is to be called "before on_hdrs_complete returns (or
  before the run that reads the head)" (`msgparser.c:1198`); before the run it is undone by the
  reset at the start of the message (1032). The passing run has the call in the
  headers hook, where `evhtp.c` makes it. `SkipBeforeRun` of `MsgParser` states what
  the comment says, and fails under `SkipSpec`, which adds the call before a run.
* HTTP/2: the DATA frame that ends an unanswered request clears the stream's user data
  (5988), so the close of the stream does not free the request, as the comment at 6504
  says it does; it stays, its request_fini hook uncalled, until the connection goes
  (`FreedWithStream` of `H2Session` fails when added to `H2Requests.cfg`).
* HTTP/2: `connection->htp` is not restored after a request (5872), so a second stream
  for another Host is served by the first one's, against the comment at 7374
  (`VhostPerRequest` of `H2Session` fails when added to `H2Requests.cfg`); a reset is
  refused on a stream whose user data was cleared (6628, 5988);
  `body_bytes_read` is shared by the streams (6107); over the keep-alive limit each
  write callback submits another GOAWAY (2668-2678); trailers run the headers hook
  again before FINISHED is looked at (5909).
* Query strings: `state >= s_query_val` (4415) is also true of the hex states of a key,
  which come later in the enumeration, so a key that ends in an unfinished escape
  (`a%`) gets an empty value, and is refused without `ALLOW_EMPTY_VALS`; a percent sign
  without hex digits is refused when the key or value so far is within two characters
  of the whole query, though the buffers have room (4302, 4369); an argument without
  a key is kept before a separator and dropped at the end. The reference of
  `QueryReadsArguments` says so in `Argument`.
* The second choice of callbacks, for a virtual host, copies `match_start` and `match_end`
  over those of the first without ending them (1829-1838): the listener's `/` on `/ab` and
  then the host's `b` leave `bab` as `match_start`. When the second match has no offsets
  (1827), those of the first stay. `CallbackChosen` asks for the exact texts of the listener's
  choice, and after the host's for texts that begin with the right ones, exact where the
  old text was no longer.
* A form body is taken as the query when the stream ends on HTTP/2 (5992, "As HTTP/1.x
  does"), while HTTP/1 does so only for a body with a Content-Length.
* Worker threads share `htp->requests` (1477, 1390), and the lock around it exists only if
  the application called `evhtp_use_callback_locks`, which `evhtp.h:641` describes as
  being for hooks and callbacks. `Server` models an application that did; without it two
  workers can take the same request: `SharedIntact` fails with `LockNone` for `Lock`.
* Accepting: when `evthr_defer` fails because the wakeup failed, the connection is freed
  (3368) though a worker will find it in its queue; out of memory, the accepted socket is
  not closed (3345); connections queued at or served by a worker that `evhtp_free` stops
  are abandoned with their requests.
* Replies: a chunked reply is sent to an HTTP/1.0 request too, with `Transfer-Encoding`,
  which such a peer does not read (RFC 9112, 6.1). The comment at 4593 makes it depend on
  "as long as the Content-Length header is set to 0", while the code removes that header;
  `ChunkedTenHasLength` of `MCHeaders` states the comment and fails when added to
  `Algorithms.cfg`. `Delimited` leaves these replies out of `ReplyDecodes`.
* Replies: the request's own Content-Type decides whether the body is measured, so the
  reply to a multipart HTTP/1.1 request says `Content-Length: 0` whatever its body; a
  persistent HTTP/1.0 reply without a body has no length; `send_reply_start` followed by
  `_body` says `Content-Length: 0` on HTTP/1.1 unless the application set one; a reply
  that has no body by its method or code is sent with whatever is in `buffer_out`.
  `Delimited` in `MCHeaders` leaves these to the application.
* Header lists: `evhtp_collapse_headers` allocates room for the separators only (3956, 3969)
  and copies the values there too (3981), so that joining is defined only for empty values:
  `Collapse` has no result otherwise, and `HeadersKept` says nothing of a list that such a
  call was made on. The copies of key and value that are handed over (3987) are copied
  again and not freed. `evhtp_kvs_add_kvs` does not end when a list is added to itself. With more
  than `MAX_RESULTS` lines the joined value comes behind the rest. Names are folded with
  `| 0x20`, which also equates some punctuation.
* Clients: a stream the server resets is told to nobody, the error hook being commented
  out under a comment that promises it (6160); nor is a request made after a GOAWAY. The callback
  is also called for an interim response. Freeing an HTTP/2 request before its response
  makes the next callback of its stream fail (6092), which frees the connection without
  an error hook for the other requests. The write callback of an HTTP/1 client that
  holds no request frees the connection. A request that replaces another in `c->request`
  leaves the first one pointing at the connection after it is gone, and an upload keeps
  its data source when its request is freed; the application of `Client` does neither.
  An error hook is also called for a completed request that is still held. A request that
  nghttp2 does not take (6849) has `r->conn` set and is in no list, and freeing it takes it
  out of `c->pending` all the same (1371).

## Not modelled, and why

* The wording of status lines, URIs and of header values nothing depends on. The models
  keep what the control flow, the framing and the lookups tell apart.
* nghttp2, libevent, pthreads and OpenSSL are external; the first two appear as what
  `evhtp.c` relies on. TLS setup and `sslutils.c` are calls into OpenSSL.
* Logging (`log.c`) and the registration of hooks, which assigns pointers; `parser.c`, `vspsc_queue.h`
  and `refcount.h` are not part of the build.
* A worker of a pool that calls `evthr_pool_defer_all_sync` on its own pool, allocation
  failure outside the queues, and weak-memory effects beyond the release/acquire
  order the queues establish.
* Of clients: pauses, `max_body_size`, and failures while a TLS connection is set up. Of
  virtual hosts: their registration and the choice by TLS server name.
* An application that calls into one `evhtp_t` from several threads without
  `evhtp_use_callback_locks`, and one that frees the server while its own threads use it.

## Plan

Done: the queues, the worker, the pool, the listener with its threads, both server
connections, the parser, the clients, lists, replies and the algorithms, and the proofs
of all but the parser and the algorithms. In this order next:

1. An abstract specification of a connection (requests answered in order, exactly
   once) that `Connection` and, per stream, `H2Session` implement.
2. Registration of virtual hosts and the TLS server name, on top of `RequestTarget`.
3. A proof of `HooksObeyed`, for hooks that are the last of their line to be called.

# Verification of the concurrency components of Unix_Notes

The repository `lliusshijjie/Unix_Notes` is a set of C++ components, each built
on the ones before it: a bounded blocking queue, a work-stealing thread pool, a
timer scheduler, an asynchronous logger, a reactor-style network library and an
RPC library on top of all of them. This directory holds TLA+ modules translated
from that code, TLC configurations that check them on small instances, and
proofs that TLAPS checks for every value of the constants.

Paths below are relative to `src/code/`.

## 1. Inventory

### BlockingQueue (`BlockingQueue/include/blocking_queue.hpp`)

* State: a ring `buffer_` with `head_`, `tail_`, `size_`, a `closed_` flag, one
  mutex, the condition variables `not_empty_` and `not_full_`.
* Operations: `push`/`emplace`, `try_push`, `push_for`/`push_until`,
  `push_batch`, their `pop` counterparts, `close`.
* Hard: notifications are sent after the mutex is released; a notified thread
  may find its deadline passed; a batch of items sends a single notification;
  close against threads that wait or are about to.
* Correct when: it is a bounded FIFO, `close` releases every call, and nobody
  sleeps beside an item (or a free slot) that nobody else is going to handle.

### ThreadPool (`ThreadPool/`)

* State: a global queue of bounded size (`BoundedRingQueue`), a deque with its
  own mutex per worker (`LocalTaskQueue`), `stopping_`, one condition variable
  for workers and one for blocked clients, a thread-local pointer from a worker
  to its deque.
* Operations: `WorkerLoop` (own deque, global queue, steal, wait, exit),
  `try_post`, `post` with three policies for a full queue, `post_wait`,
  `post_for`, `submit`, the destructor.
* Hard: the wait predicate and the exit test read the deques one after another
  while their owners push without the pool's mutex; tasks that post tasks while
  the pool is being destroyed; `caller_runs` runs a task in the submitting thread.
* Correct when: every accepted task runs once, none is held in two places, a
  global task always has somebody awake or notified for it, and the destructor
  returns with everything drained.

### TimerScheduler (`TimerScheduler/`)

* State: a heap of `(deadline, id)`, a table of timers with status, `in_flight`,
  the state Created/Running/Stopping/Stopped, a worker thread, an executor.
* Operations: `start`, `schedule_after`, `schedule_every`, `cancel`,
  `request_stop`, `stop`, `wait`, the worker loop, the callback wrapper.
* Interactions: a timer that expires is handed to `ThreadPool::try_post`; the
  wrapper runs on a pool thread and arms periodic timers again.
* Hard: cancel and stop against a callback that is queued or running; a hand-over
  that is refused or throws; stop from inside a callback; a sleep computed from
  a deadline that is out of date.
* Correct when: a timer follows its life cycle (pending, queued, running, back to
  pending or gone), a cancelled one does not start, `in_flight` is exact, the
  worker never sleeps past the earliest deadline, `stop` returns.

### AsyncLogger (`AsyncLogger/`)

* State: the lock-free `MpscRingBuffer` (cells with sequence numbers, an enqueue
  and a dequeue position); `state_`, the atomics `pending_count_`,
  `active_producers_`, `accepted_count_`, `written_count_`,
  `last_flushed_count_`, three condition variables with a mutex each.
* Operations: `log` with the policies Block and DropNewest, `flush`, `stop`, the
  worker loop, `fail_worker`.
* Hard: every decision is made from several atomics read one after another, and
  notifications are sent without the waiters' mutexes.
* Correct when: the counters the worker's exit rests on are exact, an accepted
  record is written before the worker leaves, `flush` covers what was accepted
  before it, a producer that waits for space is released, and all calls return.

### MiniReactor (`MiniReactor/`)

* `EventLoop`, `EventLoopThread`, `EventLoopThreadPool`: a poll loop with a
  functor queue under a mutex and an eventfd that wakes it; timers come from
  `TimerManager` (a singleton: one `TimerScheduler` with its own `ThreadPool`)
  and are queued into the loop. Hard: waking a loop that is about to poll, quit
  and destruction from other threads. Correct when no functor is forgotten.
* `Channel`, `EpollPoller`: registration of file descriptors and dispatch of the
  events of one poll. Hard: edge-triggered events must be exhausted, since they
  do not come again; a table by descriptor and plain pointers in epoll, while
  descriptors are reused. Correct when every registered channel is alive.
* `TcpConnection`, `TcpServer`, `Acceptor`: connection states on an I/O loop, the
  table of connections on the base loop. Hard: hand-over of one connection
  between two loops, partial writes and a shutdown that has to wait for them,
  destruction of the server with connections alive. Correct when bytes arrive as
  sent, every connection is accepted, and every one that ends gives its
  descriptor back.
* `Connector`, `TcpClient`: connection attempts, and the active connection
  published under a mutex. Hard: stop against an attempt under way.
* `Buffer`, `Socket`, `InetAddress`, `Logger`: storage, system calls, a front end.

### MiniRPC (`MiniRPC/`)

* `RpcClient`, `RpcFuture`: a table of pending calls, a deadline timer per call,
  connection state, reconnection with backoff, disconnect. It runs a
  `TcpClient` on an `EventLoopThread`; user threads, the loop and timers meet in it.
* `RpcServer`, `ServiceRegistry`: requests arrive on I/O loops and run on a
  business `ThreadPool`; a full pool rejects; responses go back to connections
  that may be gone. Correct when each request is answered at most once, on its own
  connection, always if that stays up, and the metrics, atomics that each thread
  changes one at a time, add up at every moment.
* codec: frames and metadata over a byte stream, a decoder with
  NeedMoreData/Complete/ProtocolError. Correct when a frame is recognised as soon
  as it is complete and as what it was.
* `RpcChannel`, `RpcController`, metrics: synchronous wrappers and counters.

The hazards found in this code, line by line, with the properties that cover
each, are the `hazards` of `PROJECT.json`.

## 2. Modules

| module | models | notes |
|---|---|---|
| `BoundedFifo` | – | abstract: what a closable bounded queue promises |
| `BlockingQueue` | `blocking_queue.hpp` | ring, mutex sections, condition variables |
| `BlockingQueueProofs` | – | type, ring and order invariants, wait sets, no lost wakeup, the queue implements `BoundedFifo` |
| `TaskExecutor` | – | abstract: what a pool promises about a task |
| `ThreadPool` | `ThreadPool.cpp/.h`, `LocalTaskQueue.h` | uses the global queue as a sequence |
| `ThreadPoolProofs` | – | exit, wakeups, places of tasks, the pool implements `TaskExecutor` |
| `TimerService` | – | abstract: the life of a timer |
| `TimerScheduler` | `TimerScheduler.cpp/.h` | with the executor's queue and threads |
| `TimerSchedulerProofs` | – | places of timers, quiet after stop, sleeping, implements `TimerService` |
| `MpscQueue` | – | abstract: claims, publications, removals |
| `MpscRing` | `mpsc_ring_buffer.h` | implements `MpscQueue`, one step per atomic access |
| `MpscRingProofs` | – | no overwrite, justified refusals, the ring implements `MpscQueue` |
| `AsyncLogger` | `async_logger.cpp` | uses the steps of `MpscQueue` for its queue |
| `AsyncLoggerProofs` | – | the counters are exact |
| `TcpClient` | `TcpClient.cpp`, `Connector.cpp`, parts of `TcpConnection.cpp`, `EventLoop.cpp` | the layer `RpcClient` extends; has no specification of its own |
| `RpcCalls` | – | abstract: what becomes of a call |
| `RpcClient` | `rpc_client.cpp` | user threads, the loop, timers; implements `RpcCalls` |
| `RpcClientProofs` | – | no call is stranded, the client implements `RpcCalls` |
| `Buffer` | `Buffer.cpp` | operators on a buffer; no state of its own |
| `Codec` | `codec.cpp` | operators that encode and decode frames; no state of its own |
| `MessageChannel` | – | abstract: messages arrive in order, none altered |
| `FrameStream` | `TcpConnection.cpp` as a carrier of bytes, the loop of `onMessage` | on `Buffer` and `Codec`; implements `MessageChannel` |
| `FrameStreamProofs` | – | the codec's round trip, buffers, nothing left behind, the stream implements `MessageChannel` |
| `EventLoop` | `EventLoop.cpp`, the poll of `EpollPoller.cpp` | loops, functors, eventfd |
| `TcpServer` | `TcpServer.cpp`, `Acceptor.cpp`, `EpollPoller.cpp`, `EventLoopThreadPool.cpp` | extends `EventLoop` |
| `RpcService` | – | abstract: what becomes of a request |
| `RpcServer` | `rpc_server.cpp`, `service_registry.cpp` | extends `TcpServer`; implements `RpcService` |
| `RpcServerProofs` | – | of all three layers: functors, channels, metrics; the server implements `RpcService` |

Each `*MC` module gives the constants of its component values for TLC;
`RpcClient` needs no definitions for that, its configurations give the values.

**BlockingQueue.** `ring` is `buffer_`, `head`, `tail`, `size`, `closed` are the
fields; `pc[t]` and `call[t]` say where thread `t` is in which call. A section
under the mutex is one step, because nobody sees its inside: `PushSection` and
`PopSection` are the predicate of the wait, the refusals, and the ring's change.
What happens without the mutex is a step of its own: the notification after a
push or pop, and the two `notify_all` of `close`. `notEmpty` and `notFull` are
the condition variables' wait sets; a thread leaves one by a notification, a
timeout or a spurious wakeup. An item is its place in the order of acceptance,
which lets `DeliveredInOrder` and the refinement speak of order.

**ThreadPool.** A worker's `pc` follows `WorkerLoop` (own deque, global queue,
steal from each victim, wait). The wait section holds `mutex` over several steps
because its predicate reads the other deques one after another
(`CheckStealable`) and then decides on exit (`CheckExit`, `CheckDrained`), each
deque under its own lock. Clients submit with the operations of the interface;
a running task may post children (`PushOwner` without the pool's mutex). The
ghost variable `status` follows a task from new to done. `NotifyWorkers` and
`NotifyNotFull` are the `notify_one` after the unlock; the destructor is
`SetStopping`, the two `notify_all` and `Join`.

**TimerScheduler.** A deadline is the time `left` until it; `Tick` lets time
pass for all of them and is not taken when none has any left. `states`
is the table of timers (`none` = not in it), `heap` the priority queue with its
lazily removed entries, `queue`/`pool` the executor: shots that were posted and
what each pool thread is doing. A batch is dispatched under the mutex and posted
without it, one `Post` per timer, which may be refused or throw. `api[t]` is a
thread inside `stop`, `wait` or before a notification; callbacks call the
interface too, through `MayCall`.

**MpscRing.** A producer loads its position, looks at the cell's sequence number,
claims with a compare-and-swap that may fail, writes, publishes; the consumer
checks, reads, releases, advances. `sequence` and `value` are the cells, `taken`
the ghost record of what the consumer got.

**AsyncLogger.** One step per atomic access or section under a mutex of `log`,
`flush`, `stop` and the worker loop. The queue's steps are those of `MpscQueue`,
so what `MpscRing` is shown to implement is what the logger is checked against.
`full()` is two loads (`LoadProduced`, `LoadConsumed`) as in the code. Notifying
without the waiter's mutex is modelled by leaving a state (`aboutToSleep`)
between the predicate and the wait. What the threads do in a run, the policy and
whether a write may fail come in a record `setup`, chosen in `Init` from the
constant `Setups`.

**TcpClient.** The loop thread handles one event or functor at a time;
`pc[Loop]` is `poll` between handlers. `pendingFunctors` is the loop's queue and
`batch` what `doPendingFunctors` swapped out of it. `connector` and `requested`
are the Connector's state and flag, `connection` the published connection,
`link[c]` the state of the c-th one. A connection lives by references
(`shared_ptr`): `Live(c)` says whether anybody still has one. `connect` and
`stop` from another thread store a flag in one step and queue a functor in the
next, as the code does. The callbacks into the user of the client are handlers of
the extending module, entered at `onUp`, `onDown` and `onError`. `inbox` is the
server: which request came in over which connection. A connect(2) that succeeds
at once is an attempt that succeeds.

**RpcClient.** No thread holds `stateMutex_` and `pendingMutex_` together, so a
step is one section under one of them, or one access of the TcpClient.
`pending[k]` is the state of the call in `pendingCalls_`, `deadline[k]` where its
timer is (armed, passed, queued into the loop, over), `timer[i]` the reconnection
timers, more than one because a timer that has expired can not be cancelled.
`sendPendingCalls` is `SendCheck`, `Snapshot` and one round of
`PickConnection` and `Send` per call, on whatever thread runs it. The mark "Sent"
and handing over the frame are one step: in between the code only encodes. The
codes a call fails with are lumped together as `Failed`, except
`RetryExhausted`, which says something about the past of the call. The options
of a call are chosen when it is issued. Callbacks are not modelled, a call is
answered when its future is completed.

**Buffer, Codec.** The unit is a field: an integer of any width is one unit, a
string its length and a unit per character, so that cutting a stream between any
two units cuts it inside and between fields. A buffer keeps its array with both
indices; `MakeSpace` grows it or moves what is there. A decoder's cursor is a set:
the position behind the field, or nothing when the field does not fit. Encoder and
decoder are translated separately, from the functions of the code.

**FrameStream.** One direction of a connection: the sender's loop, two sockets as
a pipe of `PipeSize` units, the receiver's loop. A step is one `send`, one `read`
or one frame decoded. `readEdge` and `writeEdge` are what the edge-triggered
epoll has still to report. A frame goes out at once (`sending`) or behind what
waits in `outBuffer`; `writing` is the channel's interest in the socket.

**EventLoop.** `stage[l]` says which half of a round loop `l` is in: the events
of `active` channels or the functors of `batch`. `queueInLoop` is two steps: the
functor is pending, and `waking` has still to write the eventfd. A handler of
several steps keeps its channel in `inside`.

**TcpServer.** `table` is `connections_`, `state`, `loopOf`, `fd`, `index` are a
connection's fields and its channel's, `epoll[l]` and `channels[l]` are the two
places where loop `l` keeps the channel. `Referenced(c)` says whether a
`shared_ptr` to the connection exists: in the table, in a functor (those of a
batch are dropped together at its end), in a worker. The descriptor of a
connection nobody refers to is free for the next accept.

**RpcServer.** `ReadEvent` reads what there is, then each message is decoded and
goes through the steps of `handleRequest`, one per counter that is changed:
`CountRequest`, then `Refuse`, or `Admit` followed by `PostAccepted` or by
`PostRejected` and `AnswerRejected`. A worker takes a task, ends the handler
(`HandlerEnds`, which lowers the size), encodes the answer, records it and locks
the weak pointer (`RecordAnswer`), and queues the answer into the connection's
loop. `total`, `size`, `rejected` and `recorded` are the metrics. `step[l]` and
`worker[w]` say between which of them a thread is: at "handle", "reject" and
"encoding" a request that was counted is neither in the size nor in the
responses, and a reader of `metrics()` may see that.

### How they compose

`TimerScheduler` hands shots to `ThreadPool::try_post`; its module keeps of the
pool what `TaskExecutor` promises (a bounded queue, each shot taken by one
thread, refusal when full). `AsyncLogger` uses `MpscQueue`, which `MpscRing`
implements. `ThreadPool` uses `BoundedRingQueue` under its own mutex, as a
bounded sequence. `RpcClient` EXTENDS `TcpClient`: its specification is the two
together, and of the timers of `TimerScheduler` it keeps that they may be
cancelled until they expire. `RpcServer` EXTENDS `TcpServer`, which EXTENDS
`EventLoop`: one specification of all three. Its business pool is what
`TaskExecutor` promises, and its peers send whole messages: that a stream of
bytes is as good as that, however it is cut, is what `FrameStream` shows
(`ImplementsChannel`, `EverythingArrives`).

## 3. Runs

| run | shows |
|---|---|
| `queue_wakeups` | single-item calls: no sleeper is forgotten, everybody asleep beside work is served |
| `queue_safety` | the whole interface with batches: ring indices, close, refinement of `BoundedFifo` |
| `pool` | tasks neither lost nor doubled, no lost wakeup for the global queue, exit only when drained, refinement of `TaskExecutor`, accepted tasks run, the destructor returns |
| `timers` | ownership of every timer, quiet after stop, sleeping on the right deadline, refinement of `TimerService`, timers fire, stop returns |
| `ring` | no overwrite, refusal only when full, every record taken, refinement of `MpscQueue` |
| `logger` | the counters the worker's exit rests on are exact; `log`, `flush`, `stop` return, `log` and `flush` while the worker has not failed and `flush` while nobody stops the logger |
| `rpc_client` | a call is answered and sent at most once (`RpcCalls`), none is left unsent on a connection that is up |
| `frame_stream` | frames arrive as sent, in order, completely, through any way of cutting the stream; what is buffered is waited for; every sample frame is recognised when complete and no sooner |
| `rpc_server` | no channel outlives its connection, no functor is forgotten, the metrics add up at every moment, with the requests threads have between two counters, each request is answered at most once and on its connection (`RpcService`), and in the end every connection and every request is settled |
| `queue_batch_wakeup`, `logger_stop`, `rpc_reconnect` | disagreements between code and documents, section 6 |

Bounds and why they are enough:

* **BlockingQueue**: two producers, two consumers, a closer, capacity 2, three
  items. Two of each kind is what a stolen or misdirected notification needs;
  three items in two slots make both indices wrap, and batches of two cross the
  end of the array.
* **ThreadPool**: two workers, two clients, one slot, two root tasks and one
  child. One slot makes the queue full with one task; two workers give an owner
  and a thief; a child of a running task exercises the local deque, also while
  the destructor runs. The policy is `caller_runs`, the only one with a path of
  its own; `abort` and `discard` refuse the task, as `try_post` does on a full queue.
* **TimerScheduler**: one calling thread and one pool thread, whose callbacks
  call the interface concurrently with it; two timers so that there is a top of
  the heap and another one, delays 0 and 1, one place in the executor so that
  it refuses.
* **MpscRing**: three producers on two cells and five records, more than two laps.
* **AsyncLogger**: two threads and a queue of two; one of them may stop the
  logger at any time. `MCSetups` has three cases, each with three calls of `log`
  and `flush` at most: Block with both threads, one of which may flush instead;
  Block with one thread that fills the queue and has to wait while the worker may
  fail; DropNewest with one thread whose third record may be dropped.
* **RpcClient**: one thread that calls and cancels, one that connects or
  disconnects once (`MaxOps`), one call, one retry, two connections. One call is
  enough to be taken into the lists of two threads (the loop and the caller) and
  to be completed by any pair of answer, deadline, cancel, lost connection and
  disconnect; two connections let one replace the other while somebody still
  holds it. `rpc_reconnect` needs one connection, and a call that may be retried.
* **FrameStream**: two frames with or without an extension, one of them possibly
  garbage, through a pipe of six units (less than one frame, so that both send
  and the drain are cut short), read by four (so that frames end inside a read),
  with buffers of four that have to move and to grow. The samples for the codec
  have every combination of empty and other fields, and messages at the limit.
* **RpcServer**: a base loop with or without an I/O loop, one worker and one
  place in its queue (a third request is rejected), two connections on two
  descriptors, and four things the peers do, connecting, sending or closing:
  enough for a connection to come, ask, go and be followed by another on the same
  descriptor while its answer is still under way. The third and fourth input may
  be garbage or a request nobody serves.

Deadlock is checked for the queue, the pool and the timers. The ring, the
logger, the RPC client, the stream of frames and the RPC server come to rest
when the bounded calls, messages or inputs are spent; their configurations say so.

A property that a call returns, or that everything is settled, is stated as
`[]<>` of the state in which nothing is left to do where the calls are bounded:
a thread that is stuck keeps that state from ever coming again, and so does one
that goes round and round inside its call, since every place of the call is left
out of that state (`FlushPCs`, `Producing`, `StopPCs`).

### Fairness

* `BlockingQueue`: a thread inside a call goes on when it can (the mutex is free
  between steps), notifications and timeouts happen. Nobody is obliged to start
  a call, so a consumer is served because of its own wakeup, never because
  somebody else happens to call.
* `ThreadPool`: workers and clients contend for a mutex that is let go again and
  again, so their steps are strongly fair; the destructor weakly.
* `TimerScheduler`: threads, worker and clock weakly fair. A timed wait ends when
  its absolute deadline has passed even if the thread is woken in vain in
  between, and pool threads contend for the mutex: strongly fair.
* `MpscRing`: whoever claimed a cell writes and publishes it, and the consumer
  polls. A compare-and-swap may fail for ever: no fairness on it, and no property
  that says a producer succeeds.
* `AsyncLogger`: threads in a call and the worker weakly fair; what needs
  `space_mutex_` strongly fair, since it is let go again and again; the periodic
  timeout strongly fair, since it is an absolute deadline.
* `RpcClient`: the loop, the timers and a user thread inside a call weakly fair.
  The network and the users are free: no property says that a server answers or
  that an attempt succeeds.
* `FrameStream`: both loops weakly fair. Nobody has to send or shut down, and the
  network may break, after which nothing has to arrive.
* `RpcServer`: each loop and each worker weakly fair, handlers return. The peers
  are free.

## 4. Proofs

The theorems hold for every value of the constants that the named assumptions
of the modules allow. Each safety argument is an inductive invariant, preserved
action by action.

**BlockingQueue**, for every capacity of at least one, every set of threads and
every set of calls (batches and bounds included):

* `TypeCorrect`, `RingCorrect`, `OrderCorrect`. The
  invariant that is inductive is `RingInv /\ ControlType`: `RingInv` joins the
  ring's types, `RingConsistent` (the tail is the head advanced by the size, the
  slots from head on are occupied and the others are empty) and the fact that
  what was delivered and what is stored are consecutive numbers. Without the last
  part one can not show that a pop hands out the next item; without the slots
  outside the window being empty one can not show that a push overwrites nothing.
  Lemmas `EmplaceRing` and `PopFrontRing` are the two changes of the ring;
  `AdvanceIsSlot` and `OffsetRange` are the modular arithmetic.
* `WaitSetsCorrect`: the condition variables' wait sets are the threads that sleep,
  each on the one for its kind of call.
* `NoWakeupIsLost`: assuming finitely many threads and single-item calls, one
  notification per item is enough. The argument counts: if a consumer sleeps,
  there are no more items than threads that are about to notify `not_empty_` or
  have been woken to look (`ItemSignals`), and the same for slots. Every step that adds an
  item adds a signal, every step that uses up a signal either takes an item away
  or hands the signal on. Batches break it, see `queue_batch_wakeup`.
* `QueueImplementsFifo`: with the same invariant,
  `Emplace` maps to `Put`, `PopFront` to `Take`, everything else to a stutter.

**MpscRing**, for every capacity of at least two, every set of producers and
every bound on the positions. `RingInv` describes the ring as a window of one lap
that begins at the first record not yet taken: within it every place has a cell
of its own (`LapCells`), whose sequence number is the place (free, or claimed by
exactly one producer) or the place and one (published, with its value). A
producer that loaded its position long ago may be a lap behind; the invariant
keeps that the cells of earlier places are ahead of them, and that a producer
about to claim does it inside the window, so a compare-and-swap that succeeds
claims a free cell. From it follow
`NothingIsOverwritten`, `RefusalIsJustified` (a sequence number behind the
position means a record of the lap before is still there) and
`RingImplementsQueue` (the compare-and-swap is `Claim`, the producer's store
publishes, the consumer's takes, the rest are stutters). With one cell the free
and the published number coincide; that is where the capacity is needed.

**ThreadPool**, for any number of workers, finitely many clients, any capacity,
policy and tree of tasks:

* `ControlInv` is what the proofs of control rest on: only its owner pushes to a
  local queue, and only from a task it runs, so from the time a worker found its
  queue empty until its next task it stays empty; what a worker saw under the
  mutex in its wait section stays true, because those who push there need the
  mutex and a pool that stops takes nothing; whoever holds a task is at a place
  where it runs one. `WorkersLeaveADrainedPool` is a consequence.
* `NoWakeupIsLost` counts signals as for `BlockingQueue`, for both condition
  variables, although workers are woken for local work too. A worker counts as a
  signal when it is going to look at the global queue before it can sleep, which
  it is from its last task on: its own queue stays empty from then.
* `TasksInv` for `NoTaskIsLostOrDoubled`: the queues hold exactly the accepted
  tasks, each at one place; the threads that run one hold exactly the running
  ones; what a running task has still to post is new, and nobody else posts it.
  The last part is needed because a push from a task is not under the mutex.
* `PoolImplementsExecutor` maps a push to acceptance, a pop or a steal to the
  start, the end of a task to its end, and the join to the end of the executor.

**TimerScheduler**, for any callers, any finite executor, any number of timers,
delays and capacity of the executor. `TimerInvariant` proves `TimerInv`, whose
parts need each other:

* Places (`PlacesInv`): the heap is in order and has no timer twice, neither have
  the ready list, the executor's queue and its busy threads; one of them has a
  timer at most (`OnePlace`), and the record says which (`Recorded`). The lemmas
  `Pushed`, `WithoutPrefix`, `EnterLoopEffect`, `CollectEffect` and `TickEffect`
  say what the operators of the heap do to it; that cancelled tops and expired
  entries are prefixes of the heap rests on its order. `TimerOwnedOnce` follows.
* Flight (`FlightInv`): `in_flight` is the number of wrappers in the queue and on
  the threads and the shot the worker still owns alone, and at most one wrapper
  shares its shot with the worker. So a counter of 0 with the worker gone means
  that nothing is queued or running, which is what `StopLeavesNothing` needs when
  `stop` erases the records.
* Control (`ControlInv`): the life of the scheduler, who may wait for what, and
  `SleepsOnTheRightDeadline` itself, which is inductive given the rest: every
  step that puts an earlier entry on the heap, cancels its top or stops the
  scheduler leaves a notification pending (`NotifyStays`), and every other one
  leaves the deadline the worker sleeps for at the front (`LatePush`).
* `SchedulerImplementsTimers` maps a begun wrapper to the firing, its end to the
  timer's rearming or end, an erased undispatched timer to a loss, and `stop`
  first to the pending timers and in the end to all that are left.

**AsyncLogger**: `CountersAreExact`, for any capacity and batch and finitely many
threads that log. `LoggerInv` counts threads by their places: `active_producers_`
are those inside `log`, `pending_count_` is what was claimed and not yet
dequeued plus the threads that have counted and not yet stored, or are about to
take their count back. The consumer's position follows one step behind what it
took. The lemmas `OneComes` and `OneGoes` are the counting.

**RpcServer** with `TcpServer` and `EventLoop`, for any loops, I/O threads,
workers, descriptors, messages and bounds, in `RpcServerProofs`. Every action
changes up to three things: the round of its loop, the connections, the requests.

* Rounds: every action is one of a few kinds of `RoundStep`, and those keep
  `LoopInv`: a loop at functors with more of them pending has its eventfd set or
  somebody about to set it. `NoFunctorIsForgotten` follows.
* Connections: `ConnInv` says that a connection is established by one functor
  only, that whatever refers to a connection is derived from a reference, so an
  accepted connection's descriptor is its own as long as anybody refers to it,
  that a functor to be called finds what it relies on (a connection to be
  established is still in the table; one to be destroyed is not and has gone
  down), and that a channel that is registered anywhere is registered on its own
  loop under its own descriptor, and held by the table or by the functor that
  will destroy it. Each action is quiet, or one of accept, establish, close,
  remove, destroy. The hard case is destruction: the channel leaves epoll and
  the table by descriptor in the same step, before the batch with the last
  reference is dropped. `ChannelsStayAlive` follows.
* Counters: `Counted` says that the size is the length of the pool's queue and
  the number of threads that are posting or handling a request, and that the
  total is the responses, the size and the number of threads that have a request
  between two of the counters (`InHand`). `CodesRecorded` says, for each code, that the answers
  written, the functors that send one and the workers about to send one are not
  more than the recorded ones; the functors of a loop are numbered through its
  batch and the pending ones, which a poll renumbers. `MetricsAreExact` follows.
* Requests: `RequestsInvariant`. A request is in one place at most
  (`InOnePlace`): unread in its connection, read and to be done by a loop, in the
  pool's queue, with a worker, in a functor that sends its answer, or answered;
  what is counted is the occurrences in the sequences, which an append adds to, a
  tail renumbers and a swap of functors moves. Each place is of the connection
  the request came on (`RequestsSound`), and requests are told apart because a
  peer's next one has a number nobody has used. `ServerImplementsService` follows:
  whoever writes an answer, the loop for an error and a functor for a worker,
  takes the request from a place that is not "answered", and writes on a
  connection that is up; a connection goes down in `handleClose` and never again.

**RpcClient** with `TcpClient`, for any user threads, calls, options, retries and
connections. `ClientInvariant` proves `ClientInv`, whose parts are:

* `FunctorInv`: a functor that is still to be called finds what it relies on
  (`Sound`): the frame it sends is of a call marked "Sent" or answered since, the
  thread that waits for a drain is waiting, and for one functor only.
* `CallInv`: a call in `pendingCalls_` is unanswered, it was sent once if it is
  marked "Sent" and not otherwise, and a request that reached the server is of a
  call that was marked. An answer of the server therefore ends a call that was
  sent, and a call that exhausts its retries was not.
* `UserInv`: between its issue and its insertion a call belongs to one thread,
  is not in the table and has no answer.
* `SendInv`: only a thread inside `sendPendingCalls` has a list of calls; the
  loop also while it runs what its own send brought about.
* `WaitingAttended`: while the state is Connected and a connection published,
  every call that waits is `Attended`: on the list of a thread, being sent, about
  to be looked for by the loop, or of a thread that has not looked at the state
  yet. This holds because `callAsync` inserts before it looks at the state and
  the loop sets the state before it looks at the table. `NoCallIsStranded` is
  what it says at rest.

Every step keeps the calls as they are, settles some, inserts one or sends one
(`CallsGoOn`); with `CallInv` these are the steps of `RpcCalls`, which is
`CallsAreImplemented`.

**FrameStream** with `Buffer` and `Codec`, for any messages, samples, garbage
frames, sizes of sockets and reads and of the first buffer:

* `CodecRoundTrip`: for every message and whatever follows its frame in the
  buffer, the decoder returns the message (an empty serializer being "raw"), or
  refuses it as the encoder does; it waits for every proper prefix; and the
  decoder of the other type refuses it. Nothing in it is recursive: the fields of
  a message are finitely many, and each is read from where the one before ended
  (`ReadUintOf`, `ReadStringOf`, then `RequestFields`, `ResponseFields`).
  `FramesAreSelfDelimiting` is its instance for the samples of the run.
* `AppendHolds`, `RetrieveHolds`: what can be read of a `Buffer` is what could be
  read, and what was appended behind it, or without what was retrieved, whether
  `makeSpace` grows the array, moves its content or does nothing.
* `StreamInvariant` proves `Inv`. Its part `StreamInv` says, while the receiver is
  connected: what its buffer holds, followed by what is in the sockets, in the
  hands of `sendInLoop` and in the output buffer, can be cut into the frames of
  the messages not yet delivered (`Framed`), with a garbage frame at the end if
  one was sent. After a break the part in flight is unknown, but some rest would
  complete what has arrived. That frames are written in order rests on
  `sendInLoop` writing directly only when the output buffer is empty
  (`SenderInv`).
* `NothingIsLeftBehind` is a part of `SenderInv` with the types.
  `StreamImplementsChannel`: when a frame is complete, the cut says whose it is,
  and the round trip that the decoder finds just that; garbage and incomplete
  frames deliver nothing.

Five modules have an assumption for the proofs: `ThreadPool`, that no task is
posted from two places (a task is a callable that can be moved and not copied)
and that clients are finitely many; `TimerScheduler`, `AsyncLogger` and
`RpcServer`, that threads they count are finitely many; `FrameStream`, that
messages are requests and responses and that no prefix of a garbage frame
decodes, which is what is meant by garbage.

Only model-checked: all liveness, which is out of the prover's reach:
`SleepingConsumerServed`, `AcceptedTaskRuns`, `EverythingIsSettled` and the like.

## 5. Assumptions and what is not modelled

* Atomics are sequentially consistent in `MpscRing` and `AsyncLogger`; the code's
  weaker orders are taken for sufficient.
* The ring has at least two cells. With one, the sequence number of a published
  record equals the number of the free cell of the next lap
  (`mpsc_ring_buffer.h:15-16` accepts any capacity above zero), so a producer
  would overwrite it.
* One pool. `tls_local` is shared by all pools of a process; a task of one pool
  that submits to another is not covered.
* Exceptions out of tasks and allocation failures are left out, except the
  throwing hand-over of a timer and the failure of the logger's worker.
* `MoveOnlyFunction`, `Socket`, `InetAddress`: storage and system calls without
  control the others depend on. `TimerManager`, `RpcChannel`, `RpcController`: thin
  wrappers. Formatting, examples, tests, notes: not modelled.
* Logger: `start` and the state Created; the rotation of files.
* RPC client: its destructor, callbacks that call the client, waiting on a
  future, metrics, the growth of the reconnection delay. `StopClose` reads the
  published connection and queues its closing in one step; the client's loop
  looks at its queue after every event (that a wakeup is not missed is
  `EventLoop`'s `NoForgottenFunctor`).
* Reactor: `quit`, the threads that own the loops, the destructors
  (`~TcpServer` destroys its connections before it joins the I/O threads),
  `forceCloseWithDelay`, failures of `accept(2)` (`Socket.cpp:61` throws out of the
  base loop) and of `epoll_ctl`.
* RPC server: `registerMethod`, which comes before `start`; the destructor;
  response times; an error answer that can not be encoded either. Answers carry
  no trace id in the model, see section 6.
* Codec: the bytes of an integer, and lengths beyond the limit of their type:
  integers are unbounded in the model, so that the code compares a length with
  the limit before it adds it (`codec.cpp:180` and after) is not checked.

## 6. Where code and documents disagree

* `queue_batch_wakeup`: `push_batch` stores several items and notifies one
  consumer; another one sleeps beside an item although the document says a
  consumer blocks only when the queue is empty.
* `logger_stop`: the worker reads `pending_count_` before `active_producers_`; a
  record stored between the two is accepted and never written.
* `rpc_reconnect`: `connect()` that gives up cancels the reconnection timer and
  stops the `TcpClient` after it released the state's mutex. What another
  thread's call started in between is undone with it, and the client stays
  Reconnecting with nothing to come.

No disagreement, but worth knowing: a pool worker may read a deque as empty, miss
the push and the notification that follow, and sleep beside work it could steal.
The work runs all the same, by its owner (`AcceptedTaskRuns`).

More disagreements can be read off the code; no run is about them:

* `callAsync` has moved the callback into the `PendingCall` (`rpc_client.cpp:229`)
  when it fails fast, and then tests and calls the empty argument (line 272): the
  future gets the error, the callback is never called, although
  `MiniRPC/docs/phase2.md` (1257 and 1259) has it called, once.
* `MiniRPC/docs/phase2.md:870` calls `currentQueueSize_` the length of the business
  queue; it counts the requests in their handlers too (`rpc_server.cpp:118` and
  147), and `MetricsExact` says so.
* `flush()` waits until as many records are flushed as were accepted, but a record
  is counted (`async_logger.cpp:168`) after it is stored (line 148): another
  thread's record, stored and not yet counted, may stand in for the caller's own,
  although the document promises that what was accepted before the call is
  written (`AsyncLogger/docs/phase1.md:604`).
* A request the full pool rejects was moved into the refused task
  (`rpc_server.cpp:121`); its error answer (line 173) has an empty trace id,
  although the answer should carry that of the request
  (`MiniRPC/docs/phase2.md:910`).

## 7. Plan

The order was: the queue, the pool, the timers, the ring and the logger, because
everything else stands on them; the RPC client with the TCP client under it; the
codec and the connection as a carrier of bytes; the event loop, the TCP server
and the RPC server. What remains:

1. The rest of `RpcClient`: the destructor; that a call which entered the table
   ends by its deadline (it does not when the timer, armed at
   `rpc_client.cpp:240`, expires before the insertion at line 280).
2. `quit`, `EventLoopThread` and the destructors of `TcpServer` and `RpcServer`.
3. Two pools that share `tls_local`.

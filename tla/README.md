# muradin: a TLA+ verification project

muradin is a small C++ network library: a reactor (`io_service` over epoll), channels that
dispatch events to handlers, TCP connections with a read and a write buffer, a server that spreads
connections over a pool of reactor threads, and a few helpers. The hard part of it is that three
kinds of thread meet in one connection: the acceptor's thread, the reactor thread of the
connection, and threads of the user. Nothing in the repository tests that. Beside the library the
repository holds examples: two echo servers, and a ping-pong client and server on boost::asio.

This directory holds TLA+ models of these parts, TLC runs that check them on small instances,
and proofs for TLAPS. Paths of files of the library below are relative to `src/muradin/`.

## Inventory

| component | state | operations | talks to | what makes it correct |
|---|---|---|---|---|
| `io_service` | `m_pending_tasks` under `m_mutex`, `m_quit`, `m_running_pending_tasks`, the eventfd | `run`, `run_task`, `quit`, channel calls | runs tasks and handlers; every thread queues tasks | no task lost, repeated, reordered; a task runs; `quit` ends `run` |
| `poller_epoll` | `m_channel_map`, epoll's own table | add, update, remove, wait | holds bare pointers to channels | an event goes to a living channel |
| `evt_channel` | `m_last_evt_status`, `m_progress_in_write`, the weak owner | `enable_read`, `enable_write`, `process_work` | updates the poller, calls the connection's handlers | interest is not lost; no handler after the close |
| `connection` | `m_conn_status`, the two buffers, the socket | `start`, `write`, `shutdown`, four handlers | user callbacks, `tcp_server` | bytes in order, once; the close is noticed, once |
| `bytebuffer` | a vector and two indices, a byte order | append, discard, resize, shrink, swap, integers, strings | used by `connection` | a queue of bytes; indices in order; space when it is asked for |
| `io_service_pool`, `service_thread` | threads, the addresses of their `io_service`s, the round robin | `run`, `next_service`, `quit` | starts reactors, hands them to `tcp_server` | the start-up handshake; addresses of living services; balance |
| `blocking_counter` | `m_val`, a mutex, a condition variable | `increment`, `decrement`, `wait_for` | used by the example | no lost wake-up |
| `tcp_server`, `acceptor` | `m_conn_map`, the listening channel and its flags | constructor, `ready`, `on_read` (accept), `on_new_conn`, `on_remove_conn`, `stop` | the main loop, the pool, every connection | a connection lives as long as something points to it; map, pollers and kernel agree although descriptors are used again; clients are accepted, ended connections closed |
| asio ping-pong (`example/asio/pingpong`) | two buffers and a count of unwritten answers per session, `op_count_`, handler storage | connect, read and write handlers, timer, `stop`, deletion | boost::asio, one strand per session | the two buffers never meet, no byte is lost, the session outlives its operations, the timer ends the run |
| echo examples | none | callbacks; who makes and readies the server | `tcp_server` | |
| sockets, addresses, endianness, time, log, errors, platform | little or none | system calls, formatting | | |

Hard behaviours: tasks pushed by several threads against the swap of the loop; the sleep of the loop
against a wake-up; `start()` on one thread while the loop already handles the connection's events;
partial and refused sends; a peer that closes or resets at any moment; a task that outlives its
connection; a descriptor that is closed on one thread and accepted again on another; a process out
of descriptors; a server readied while its loop already runs; wake-ups of condition variables;
completions of asynchronous operations in either order. `PROJECT.json` lists them, each at its line.

## Modules

- `TaskQueue`: the abstract specification of what `io_service` promises to other threads: a fresh
  task is accepted at the end of a queue, the oldest is executed.
- `IoService`: `run()` in the loop thread and `run_task()`/`quit()` in callers. `push_back` takes
  two steps, so that it is the modelled mutex that keeps pushes apart. Refines `TaskQueue` with
  `queue <- to_run \o m_pending_tasks`.
- `ByteQueue`, `ByteBuffer`, `MCByteBuffer`: a set of byte queues, the buffer with its vector and
  indices, and instances. Members of `bytebuffer` are operators from a buffer to a buffer; an
  action is one call, and every call may follow every other: `resize()` to any size, `append()` and
  `swap()` of a buffer with itself. `c` is the memory of the vector as far as it was in use and `size`
  its `size()`, since a smaller `resize()` leaves the memory and the indices as they are. `size_t`
  arithmetic wraps. A call in which an `assert()` fails stops the program and is no step; whether that
  can happen is `SpaceEnsured`. `append()` of the buffer itself copies from a pointer
  taken before the space was made: from the old place when bytes are moved, from anything when the
  vector grows. Refines `ByteQueue` with `content <- the bytes between rd_ptr() and wt_ptr()` and
  `cut <- the buffers whose write index is behind the vector`; while a queue is cut, its bytes may become zero.
- `Connection`: one connection with its channel, the poller's view of it, the socket, the peer,
  the callbacks and a user thread. The record `k` holds the members of `connection` and
  `evt_channel` and what epoll knows; `lpc` is the position of the loop thread inside
  `do_process_work()`, `handle_close()` and `run_pending_task()`, `apc` that of `start()`.
  The members are operators on `k`, and a handler is cut where another thread can be seen in
  between. `run_task()` from the loop thread calls the functor in place, so callbacks
  are part of the step that calls them. The flags are sets; `m_last_evt_status` is
  one variable (`k.evt`) for what is asked and what was returned, as in the code. `start()` is cut
  between reading the flags, writing them, pushing their update and the two steps after that, so that the loop
  can run several rounds in each gap. A task of `write()` or `shutdown()` whose connection is deleted
  (`DanglingTask`) is undefined behaviour: its bytes are gone, and what it does to memory that is
  nobody's is not followed.
- `BlockingCounter`, `MCBlockingCounter`: threads that count and threads that wait.
- `ServicePool`: the owner of the pool and its threads, from the construction to the last `join()`.
- `Server`: `tcp_server` with its acceptor on the main loop (`mpc`, `acc`, `mtasks`), the threads of
  the pool with their pollers, rounds and tasks (`lpc`, `batch`, `cur`, `chan`, `tasks`), `m_conn_map`,
  the kernel's backlog and descriptors, and the life of connections: `Owned(c)` lists everyone
  who holds a `connection_ptr`, and the step that drops the last one closes the descriptor (`Unref`).
  Setting up, `on_new_conn()`, `start()` and the removal of a connection are cut at every write another
  thread can see. Reactor, pool and connection are composed here: the queues of `IoService` by what
  `Connection.start()` puts in them, the choice of the service as in `ServicePool` (its start-up is
  over when `Listen` happens). An event of a connection is its end by the peer, or a refused send
  that takes EPOLLIN from its channel (`RefusedSend`), after which only a reset is reported; what else a
  connection does with bytes is `Connection`'s matter.
- `PingPong`: one session of `client.cpp` and one of `server.cpp` with the network between them. An
  operation of boost::asio (external) is started by a handler, ended by the kernel and then handled;
  a strand makes a handler one step. `Received` and `Sent` are what `handle_read()` and
  `handle_write()` of both sides share; the counters of the client and `op_count_` of the server are
  in the actions. `handler_allocator` is `allocate` and `deallocate`; the sizes boost::asio asks for
  (`read_size`, `write_size`) are constants, and an operation that does not fit into the storage goes to
  the heap.
- `IoServiceProofs`, `ByteBufferProofs`, `ConnectionProofs`, `BlockingCounterProofs`,
  `ServicePoolProofs`, `PingPongProofs`, `PingPongRingProofs`, `ServerProofs`: theorems.

A definition named `X_Something` above a definition `X` is a mutant of it: a plausible mistake
in that code. Each property of a passing run is violated by the mutant `PROJECT.json` names for it.

`Connection` models the build without `assert()`. Two of its assertions can fail, that of
`final_destory()` and that of `discard()` in `handle_write()`; the default build (Debug, `CMakeLists.txt:6`)
stops there. They are a property with a run of its own (`AssertsHold`), and the other runs and the proofs
say what holds of the build that goes on. The bytes a connection reads are counted, not kept.

## Runs that pass

| run | bounds | shows |
|---|---|---|
| `ioservice_main` | 2 callers, 2 tasks each | `PerCallerOrder`, `NoTaskLost`, the refinement of `TaskQueue`, `PushedTaskRuns`, `QuitEndsRun` |
| `bytebuffer_main` | 2 buffers, at most 10 bytes of storage (8 are reserved), 2 byte values, byte strings up to 2; every call, also `resize()` to any size and a buffer appended to itself | `SpaceEnsured`, `IntegerRoundTrip`, `OnlyResizeCuts`, the refinement of `ByteQueue` |
| `connection_main` | messages of 1 byte, 2 bytes written by callbacks and 1 by the user's thread, 2 bytes from the peer; sends may be refused; the user's thread may also `shutdown()` and drop its `connection_ptr`, the peer may close or reset at any point of `start()` | `TypeOK`, `NoHandlerAfterClose`, `BacklogArmed`, `WatchedAlive`, `StreamIntact`, `BacklogDrains`, `PeerCloseSeen` |
| `counter_wait` | 1 waiter, 2 counting threads, 2 calls each | `NoLostWakeup`, `WaitersReturn` |
| `pool_main` | 3 threads, 5 calls of `next_service()` | `ServicesUsable`, `Balanced`, `OwnerWoken`, `PoolComesUp`, `QuitJoinsAll` |
| `server_main` | 2 clients, 2 threads of the pool, 1 descriptor, one connection the user may keep; made and readied by the loop's thread, `stop()` at any time from another | `PointersAlive`, `PollerAgrees`, `ErasedByOwner`, `EndedIsClosed`, `ClientAccepted`, `StopTakesEffect` |
| `pingpong_main` | a block of 2 bytes, pipes that hold 2, 2 endpoints, operations of 1023 bytes (the largest that fit) | `BuffersApart`, `StorageSuffices`, `SessionOutlivesOps`, `RingIntact`, `TotalsClose`, `TimeoutEndsRun`, `SessionFreed`, `Circulates` |

The type invariants of `IoService`, `ByteBuffer`, `ServicePool`, `Server` and `PingPong` are proved and not run.

Why the bounds are enough: two pushers and a loop make every interleaving of two critical sections
and a swap; two tasks of one caller make an order. Storage of 10 leaves two bytes beyond
the reserve, so that strings of up to two bytes meet the case that moves, the case that grows and
their boundary (the proofs cover every size). Two messages of the callbacks make one that waits and one that could
overtake it, a third from the user's thread passes through a task. Two bytes from the peer make two reads in a
row: one whose answer is refused and one whose wait overwrites the flags (`overwrote`). Partial sends are in
`connection_partial`; with them, `shutdown()` by callbacks, messages of two bytes and a user's thread that uses its buffer
again, the four invariants of `connection_main` other than `StreamIntact` were checked once (597 thousand states) and
the proofs cover them. Three threads and five calls wrap the round robin with
a remainder. One descriptor for two clients makes it run out and be used again at once, by a connection
of the other thread, while the old one is still being taken down; the safety of `Server` is proved
for any number of clients, threads and descriptors. A block of two bytes makes partial reads and writes, and
pipes of two let a whole block be under way; a second endpoint makes a retry. The byte values
are model values except the zero byte, which strings depend on.

Deadlock is checked except for the counter, the pool, the server and the ping-pong, which end: a
counter and a pool when their threads are done, the server when its clients have come and gone
(a loop whose wait times out with nothing to do is no step), the ping-pong when both sides are done.

## Fairness

- The loop thread runs on; `epoll_wait` returns after at most `poll_timout_ms`
  (`io_service.cpp:63`). No event and no call by the user or the peer is assumed.
- A caller inside `queue_task()`, `increment()` or `decrement()` finishes.
- `Connection`: `start()` runs on; a socket that becomes writable again and again is reported, and
  a peer that reads lets the whole backlog through some time (strong fairness of these two). Only
  `BacklogDrains` needs the latter.
- `ServicePool`: a service told to quit leaves `run()`, which is `QuitEndsRun` of `IoService`.
- `Server`: the main loop and every thread of the pool run on, again because the wait has a timeout; the
  thread that readies the server finishes, and a `stop()` that has begun. Clients, the user's release
  of a connection, the sends that are refused and the call of `stop()` are free. `EndedIsClosed` therefore
  leaves out a connection the user holds (and one that no longer watches EPOLLIN, see `connection_lostread`), and `ClientAccepted` assumes that a descriptor is free again and again.
- `PingPong`: the threads of `run()` bring every completed operation to its strand, which is first in,
  first out; the network delivers, or gives up and ends the operations. The timer, the loss of the
  connection and a failing accept are free.

## Runs that show a disagreement

Each checks one property that a comment, a declaration or an assertion of the repository states.

- `ioservice_wakeup`: `wake_me_up()` writes zero, which wakes nobody; tasks and `quit()` wait for
  the timeout (up to a second), which is why the liveness of `ioservice_main` still holds.
- `connection_partial`: after a partial `send()` the wrong end of the message is kept.
- `connection_lostread`: re-arming EPOLLOUT drops EPOLLIN; the peer's close is never noticed.
  (`connection_main` shows that it is noticed where no send has been refused, and `server_main` that the
  descriptor is closed then.)
- `connection_asserts`: `handle_write()` discards what it has sent twice (`connection.cpp:166` and `171`). After
  a whole send the second call fails the assertion of `discard()`; the default build is Debug and stops. (After a
  partial send bytes are lost.) That is the shortest trace. A longer one violates the other half: `shutdown()` from
  another thread, or `start()` where the peer ends the connection inside it, writes the state between
  `handle_close()` and `final_destory()`, whose assertion then fails.
- `server_ready`: where another thread than the loop's makes and readies the server, as `echo_mt.cpp`
  does, the loop sees the hang-up of the socket that does not listen yet and stores it over the flags
  `start()` has just set; the queued update then asks for EPOLLHUP only and no client is ever accepted.

Read in the code and not given a run of their own:

- `start()` writes the flags and queues their update later (`evt_channel.cpp:66` and `70`). In between the loop can
  refuse a send, which asks for EPOLLOUT, and a further wait can store EPOLLIN alone over the flags; the late
  update tells epoll so, and `enable_write(true)` returns early from then on. What waits is stuck. `BacklogArmed` and
  `BacklogDrains` except exactly this (`overwrote`), and the proof shows that it is the only way to lose EPOLLOUT.
- Where the peer ends the connection inside `start()`, the stale flags can bring a handler after the
  close: the exception (`early`) of `NoHandlerAfterClose`.
- The task of a `write()` from another thread holds a bare pointer and can outlive the connection (`DanglingTask`).
- `resize()` below the write index leaves that index behind the end of the vector, against the picture of
  `bytebuffer.h:38`; the space `make_space()` computes then wraps around and none is made. No component of
  the library calls `resize()`. `OnlyResizeCuts` and the refinement of `ByteQueue` say what holds around it.
- A buffer appended to itself copies from the place its bytes had before the space was made (`AppendSelf`).
- A timeout during the client's connect is forgotten when endpoints are left: `handle_connect()` takes the aborted
  connect for a failed one and opens the socket again (`client.cpp:117-123` of the ping-pong). `TimeoutEndsRun` is for the other cases.
- At the end of the stream `conn_cb` is called twice, the first time with `connected()` still true
  (`HandleReadEof`, `CloseConnCallback`).
- A queued `write()` holds the address of the caller's bytes (the act `"reuse"`); nothing says how long the
  caller has to keep them.
- `as_string()` reads up to a zero byte, perhaps behind the write index (`bytebuffer.cpp:258`).
- A failed accept ends accepting (`server.cpp:177-180` of the ping-pong, `HandleAcceptError`).
- `increment()` and `decrement()` of `blocking_counter` are declared `int` and return nothing.

## Proofs

All are for every value of the constants that satisfies the named assumptions (`ThreadsAssumption`,
`BufferAssumption`, `ConnectionAssumption`, `CounterAssumption`, `PoolAssumption`, `ServerAssumption`, `PingPongAssumption`).

- `IoServiceProofs`. `NoTaskLost` and `PerCallerOrder` are not inductive: a caller between the two
  halves of `push_back` holds an old copy of the vector. `IInv` adds that it holds the mutex and that
  the copy is current (`PushExclusive`, `HolderPushes`), that `to_run` is empty when the swap happens,
  and that task numbers are below the caller's next one. From it: `TypeCorrect`,
  `OrderPerCaller`, `TasksAreKept`, `RefinesTaskQueue`.
- `ByteBufferProofs`. `Inv` says of every buffer that the indices are in order and that they and the vector are
  within the memory the vector has had; it does not say that the write index is within the vector,
  which `resize()` can break. One lemma per member says what it does to the readable bytes: they are kept, or
  some are zero where the write index was behind the vector (`KeepsOf`). From it: `BufferTypes`;
  `RegionsStayInOrder`, no call but `resize()` breaks the picture of the header; `AppendFindsSpace`, since
  nothing wraps while the write index is within the vector (`NoWrap`); and `RefinesByteQueue`.
  `IntegersSurvive` needs no induction over
  the bytes: turning a sequence of bytes round twice gives it back, the byte order of the memory and
  the conversion are each the turn or nothing, so writing and reading undo each other; and what is
  left when the older bytes are discarded is what was appended.
- `ConnectionProofs`. Everything the loop's thread does in a callback or a write is one relation
  between the record before and after (`Wrote`): no flag is taken away, what comes to wait is asked for,
  and where nothing can be sent any more nothing comes to wait. `BacklogArmed` is not inductive, since
  `start()` writes the same flags from another thread and queues an update of the poller later. `IInv`
  adds: before `enable_read()` has set the flags nothing waits and the only events are those of a
  connection that cannot send (`Early`); from then until the update has run, which may be many rounds of
  the loop, the flags it will copy ask for what waits, unless a wait has overwritten them (`UpdateSafe`); before
  the add task has run nothing has happened (`BeforeAdd`); a registered connection is in the map
  (`Registered`); and only the peer's end leads to the close, after which the flags are empty (`EndsCause`, `Clean`). From
  it, without any condition on the constants: `TypeCorrect`, `WatchedIsOwned`, `BacklogIsArmed` and `NoLateHandler`, each with the
  exception its property names. The assertions that can fail have no theorem.
  `IInv` was checked with TLC before.

  `StreamStaysIntact` has an invariant of its own, `SInv`. A sequence *carries* for each thread the bytes
  after one number up to another, in order (`Carries`); sequences that carry ranges which follow each
  other carry the range together when they are joined (`CarriesJoin`). `SInv` says that the wire carries
  the range from nothing to what is sent, `m_write_cache` the next one (`Flow`), and the write tasks
  the rest of the user's, in order and without a gap (`Waits`), until `shutdown()` or a reset
  cuts the sending or the connection is deleted; what was sent by then stays. A write of the loop goes to the wire only when nothing
  waits (`Streamed`), so the bytes of the user's tasks are passed by those of the loop but never by
  their own. The theorem assumes that `send()` takes all or nothing and that a caller does not use
  its buffer again before the task has run. Without the first the run
  `connection_partial` violates `StreamIntact`; the second is the caller's duty, which no comment of
  the code states. `SInv` was checked with TLC first, with messages of two bytes.
- `BlockingCounterProofs`. `LoneWaiterIsWoken` assumes one waiter; with two, TLC violates
  `NoLostWakeup`.
- `ServicePoolProofs`. `IInv` relates the owner's position to the threads that have started,
  published and left, and states the round robin exactly: the services up to the index
  have one connection more. From it: `HandedServicesExist`, `RoundRobinIsBalanced`, `OwnerIsWoken`.
- `ServerProofs`. None of `PointersAlive`, `PollerAgrees` and `ErasedByOwner` is inductive: each
  depends on who owns a connection at that moment. `IInv` says it for every point of its life. A
  descriptor is open exactly while someone owns its connection (`Ownership`), belongs to one
  connection (`FdUnique`), and `m_conn_map` files under it (`MapFiled`); clients in the backlog have
  none (`Waiting`); what `on_new_conn()` has not done yet has not happened (`NewConn`). A queued task
  with a bare pointer is followed, in the queue of the same thread, by the `conn_cb` task that owns the
  connection, unless `start()` is still to queue it (`Queued`); this is what keeps the pointer
  valid, and it is why the order of the three calls in `start()` matters. A channel known to epoll is
  in `m_channel_map` (`Watching`, `Filed`), and its connection in the map until the thread that closes
  it has taken it out (`Batches`, `Current`). From it: `TypeCorrect`, `NoPointerDangles`,
  `PollersAgree` and the action property `EntriesStay`. `IInv` was checked with TLC before it was
  proved, for either value of `InLoop`.
- `PingPongProofs`. `IInv` says for each value of the count of unwritten answers which operations
  are outstanding and on which buffers; `op_count_` follows. From it: `TypeCorrect`, `BuffersStayApart`,
  `OneBlockIsEnough`, `NoOpOutlivesSession`, for every size of block, pipe and operation.
- `PingPongRingProofs`, on top of it. `TotalsStayClose`: the totals alone are not inductive, since a
  write is counted when its handler runs and a read may be handled before. `TInv` adds the
  operations that have ended and are not handled, and what the client still holds: together with the
  count they are at most a block. They also cover everything outside the client (the server's buffers
  and both pipes), until a write of the client fails; then nothing more is read. `RingStaysIntact`: the
  ring of `RingIntact` is followed through every step (`RInv`). Only the write of the server turns it,
  by the bytes it puts in the pipe, and a rotation of a rotation is one (`TurnFurther`); every
  other step moves bytes between neighbours and leaves the ring. Before the connection is made
  the client's buffer is the block and all else is empty. While both sockets stand no operation has failed,
  which is what lets the proof leave out the failures. Both invariants were checked with TLC first.

Every invariant and action property that a passing run checks is stated by a theorem, and so are the two
refinements. Only model-checked: the liveness properties (`PushedTaskRuns`, `QuitEndsRun`, `BacklogDrains`,
`PeerCloseSeen`, `WaitersReturn`, `PoolComesUp`, `QuitJoinsAll`, `EndedIsClosed`, `ClientAccepted`,
`StopTakesEffect`, `TimeoutEndsRun`, `SessionFreed`, `Circulates`): they rest on fairness, which is out of the
prover's reach.

## Not modelled

`run_task_at`, `run_task_after` and `run_task_every` have empty bodies. Socket options, addresses,
time, the log, error values and the platform tests are single system calls, formatting or
preprocessor text; nothing else depends on their state. In `Connection` a callback writes at most twice, and a
`conn_cb` leaves a closed connection alone, as the example's callbacks do. In `Server` a call of
`std::map` is one step: calls of two threads that overlap in time, which nothing in the code excludes, are
undefined behaviour and are not followed. Destruction of a server whose pool still runs, and
`stop()` by the loop's own thread, are not modelled. In `PingPong` the resolver, the command line,
the printing and the number of sessions are left out; the sessions of one client share
only the totals, which `TotalsClose` bounds for one session. `m_quit` of `io_service` and the members that
threads share without a lock are read and written in single steps; what a compiler may do beyond that is not followed. `uint16_hton()` and its relatives are not called by the library.

## Plan

Done: the reactor, the buffer, the connection, the counter, the pool, the server and the ping-pong, in that
order. What a next step would add:

1. An abstract connection (a stream of bytes with an end) and `Connection` shown to implement it
   where sends are not partial.
2. `Connection` on top of `IoService`, with several connections that write to each other in one round.
3. Wasted rounds: EPOLLOUT watched with an empty backlog. It needs a stated bound to be compared with.

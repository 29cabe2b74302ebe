------------------------------- MODULE Connection ------------------------------
(***************************************************************************)
(* One muradin::net::connection of a tcp_server, with its evt_channel, the *)
(* poller's view of it, the socket and the peer.                           *)
(*                                                                         *)
(* Three threads touch it: the acceptor's thread in start(), the loop      *)
(* thread of the connection's io_service, and a thread of the user that    *)
(* calls write() and shutdown().  Handlers called by the loop are cut into *)
(* steps where another thread can be seen in between; run_task() from the  *)
(* loop thread calls the functor in place, so a user callback, and the     *)
(* write() or shutdown() it makes, is part of the step that calls it.      *)
(*                                                                         *)
(* The flags of epoll are sets.  m_last_evt_status (evt) holds both what   *)
(* the channel asks for and what the last wait returned for it; interest   *)
(* is what epoll was last told.  A byte of the user is <<caller, number>>, *)
(* numbered per calling thread in the order of its write() calls.          *)
(*                                                                         *)
(* The model is the build without asserts (NDEBUG): where an assert of the *)
(* code fails, the default build stops and this one goes on.  The two that *)
(* can fail are a property here (AssertsHold).                             *)
(***************************************************************************)
EXTENDS Integers, Sequences

CONSTANTS
  SendOutcomes,  \* besides sending everything, send() may do "part" or "again"
  UserActs,      \* what a callback does: "write", "shutdown"
  RemoteActs,    \* what the user's thread does: "write", "shutdown", "release"
                 \* its connection_ptr, "reuse" the buffer it wrote from
  MsgLen,        \* bytes of one write()
  MaxAsked,      \* bound: bytes written by each thread
  MaxRemote,     \* bound: bytes written by the user's thread
  MaxIn          \* bound: bytes sent by the peer

ASSUME ConnectionAssumption ==
  /\ SendOutcomes \subseteq {"part", "again"}
  /\ UserActs \subseteq {"write", "shutdown"}
  /\ RemoteActs \subseteq {"write", "shutdown", "release", "reuse"}
  /\ MsgLen \in Nat \ {0} /\ MaxAsked \in Nat /\ MaxRemote \in Nat /\ MaxIn \in Nat

VARIABLES
  k,         \* the connection and its channel, a record (see Init)
  net,       \* the socket as the kernel sees the peer
  tasks,     \* the io_service's pending tasks for this connection
  ntask,     \* tasks left of those run_pending_task() swapped out
  lpc, ret,  \* where the loop thread is, and where handle_close() returns to
  apc, snap, \* where start() is, and the flags it read
  inmap,     \* m_conn_map holds the connection
  ref,       \* the user's thread holds a connection_ptr
  closed,    \* history: how often close_cb ran
  late,      \* history: a handler was called after close_cb
  overwrote, \* history: a wait overwrote EPOLLOUT in the flags, before the
             \* update of start() copied them
  early      \* history: the peer ended the connection before start() returned

vars == <<k, net, tasks, ntask, lpc, ret, apc, snap, inmap, ref, closed, late, overwrote,
          early>>

Flags == {"IN", "OUT", "HUP", "ERR"}
ReadFlags == {"IN", "HUP"}           \* and EPOLLPRI, which no peer here causes
Callers == {"loop", "user"}
Task(op) == [op |-> op, data |-> <<>>]

Init ==
  /\ k = [status   |-> "kDisconnect",   \* m_conn_status
          evt      |-> {},              \* m_last_evt_status
          progress |-> FALSE,           \* m_progress_in_write
          wcache   |-> <<>>,            \* m_write_cache
          reg      |-> FALSE,           \* known to epoll and to m_channel_map
          interest |-> {},              \* the events epoll watches
          shut     |-> FALSE,           \* the sending side is shut down
          err      |-> FALSE,           \* SO_ERROR is set
          asked    |-> [t \in Callers |-> 0],  \* history: bytes written
          wire     |-> <<>>,            \* history: bytes handed to the kernel
          refused  |-> FALSE]           \* history: a send() was refused, EAGAIN
  /\ net = [inq |-> 0, sent |-> 0, fin |-> FALSE, rst |-> FALSE]
  /\ tasks = <<>> /\ ntask = 0
  /\ lpc = "poll" /\ ret = "poll"
  /\ apc = "join" /\ snap = {}
  /\ inmap = TRUE /\ ref = FALSE
  /\ closed = 0 /\ late = FALSE /\ overwrote = FALSE /\ early = FALSE

connected(c) == c.status = "kConnected"

\* Something waits for the socket to be writable, or did when it was last asked for.
Pending(c) == c.progress \/ c.wcache # <<>>

\* enable_read() of start() has written the flags, and its update has not run.
UpdateDue == apc = "update" \/ \E i \in DOMAIN tasks : tasks[i].op = "update"

\* Someone owns the object: the map, the user, start(), a handler, a task.
Alive == inmap \/ ref \/ apc # "done" \/ lpc \notin {"poll", "tasks"}
               \/ \E i \in DOMAIN tasks : tasks[i].op = "conn"
-------------------------------------------------------------------------------
(* evt_channel and poller_epoll.                                           *)

update_evt_code(c) == IF c.reg THEN [c EXCEPT !.interest = c.evt] ELSE c

\* Mutant: the complement that the code leaves out.
enable_read_Complement(c, enable) ==
  update_evt_code([c EXCEPT !.evt = IF enable THEN @ \cup ReadFlags ELSE @ \ ReadFlags])

enable_read(c, enable) ==
  update_evt_code([c EXCEPT !.evt = IF enable THEN @ \cup ReadFlags ELSE @ \cap ReadFlags])

enable_write(c, enable) ==
  IF enable /\ c.progress THEN c
  ELSE [update_evt_code(
          [c EXCEPT !.evt = IF enable THEN @ \cup {"OUT"} ELSE @ \cap {"OUT"}])
        EXCEPT !.progress = enable]
-------------------------------------------------------------------------------
(* socket::send().                                                         *)

EAGAIN == -1
ERROR == -2       \* EPIPE, ECONNRESET

SendResults(c, n) ==
  IF c.shut \/ net.rst THEN {ERROR}
  ELSE {n} \cup (IF "part" \in SendOutcomes THEN 1 .. n - 1 ELSE {})
           \cup (IF "again" \in SendOutcomes /\ n > 0 THEN {EAGAIN} ELSE {})

Take(s, n) == SubSeq(s, 1, n)
Drop(s, n) == SubSeq(s, n + 1, Len(s))
-------------------------------------------------------------------------------
(* connection.                                                             *)

\* Mutant: the backlog is kept without asking for EPOLLOUT.
write_in_loop_NotArmed(c, data, r) ==
  IF c.wcache # <<>> \/ r = EAGAIN
    THEN [c EXCEPT !.wcache = @ \o data]
  ELSE IF r = ERROR THEN [c EXCEPT !.err = FALSE]
  ELSE LET sent == [c EXCEPT !.wire = @ \o Take(data, r)]
       IN  IF r < Len(data)
             THEN enable_write([sent EXCEPT !.wcache = @ \o Take(data, Len(data) - r)], TRUE)
             ELSE sent

\* Mutant: a write does not look at the backlog.
write_in_loop_Overtakes(c, data, r) ==
  IF r = EAGAIN THEN enable_write([c EXCEPT !.wcache = @ \o data], TRUE)
  ELSE IF r = ERROR THEN [c EXCEPT !.err = FALSE]
  ELSE [c EXCEPT !.wire = @ \o Take(data, r)]

write_in_loop(c, data, r) ==
  IF c.wcache # <<>> \/ r = EAGAIN
    THEN enable_write([c EXCEPT !.wcache = @ \o data, !.refused = TRUE], TRUE)
  ELSE IF r = ERROR THEN [c EXCEPT !.err = FALSE]
  ELSE LET sent == [c EXCEPT !.wire = @ \o Take(data, r)]
       IN  IF r < Len(data)
             THEN enable_write([sent EXCEPT !.wcache = @ \o Take(data, Len(data) - r)], TRUE)
             ELSE sent

NextData(c, t) == [i \in 1 .. MsgLen |-> <<t, c.asked[t] + i>>]
CanAsk(c, t) == c.asked[t] + MsgLen <= MaxAsked
Asked(c, t) == [c EXCEPT !.asked[t] = @ + MsgLen]

\* write() by the loop thread: write_in_loop() at once.
Written(c) ==
  IF CanAsk(c, "loop")
    THEN {write_in_loop(Asked(c, "loop"), NextData(c, "loop"), r) : r \in SendResults(c, MsgLen)}
    ELSE {}

\* shutdown() by the loop thread.
ShutDown(c) == [c EXCEPT !.status = "kInDisconnect", !.shut = TRUE]

\* A user callback.  write() ends with write_cb, so what that callback writes is
\* one more write of this one; two writes at most, then perhaps shutdown().
AfterCallback(c) ==
  LET once == IF "write" \in UserActs THEN Written(c) ELSE {}
      all  == {c} \cup once \cup UNION {Written(d) : d \in once}
  IN  all \cup (IF "shutdown" \in UserActs THEN {ShutDown(d) : d \in all} ELSE {})

\* conn_cb: the user asks connected() and leaves a closed connection alone.
AfterConnCallback(c) ==
  IF connected(c) THEN AfterCallback(c) ELSE {c}

\* What is sent is discarded, twice; the assert of the second discard() is in
\* AssertsHold.
handle_write(c, r) ==
  IF r = EAGAIN THEN enable_write([c EXCEPT !.refused = TRUE], TRUE)
  ELSE IF r = ERROR THEN [c EXCEPT !.err = FALSE]
  ELSE LET sent  == [c EXCEPT !.wire = @ \o Take(c.wcache, r), !.wcache = Drop(@, r)]
           armed == IF sent.wcache # <<>> THEN enable_write(sent, TRUE) ELSE sent
       IN  [armed EXCEPT !.wcache = Drop(@, r)]

\* handle_close() up to its callbacks.
handle_close(c) ==
  enable_write(enable_read([c EXCEPT !.status = "kDisconnect"], FALSE), FALSE)
-------------------------------------------------------------------------------
(* start(), called by the acceptor's thread.                               *)

StartKeeps == UNCHANGED <<net, ntask, lpc, ret, inmap, ref, closed, late, overwrote,
                         early>>

JoinToService ==
  /\ apc = "join" /\ apc' = "read_flags"
  /\ tasks' = Append(tasks, Task("add"))
  /\ UNCHANGED <<k, snap>> /\ StartKeeps

\* enable_read(true): the flags are read, then written, then the poller is told.
EnableReadFlags ==
  /\ apc = "read_flags" /\ apc' = "enable"
  /\ snap' = k.evt
  /\ UNCHANGED <<k, tasks>> /\ StartKeeps

EnableRead ==
  /\ apc = "enable" /\ apc' = "update"
  /\ k' = [k EXCEPT !.evt = snap \cup ReadFlags]
  /\ UNCHANGED <<tasks, snap>> /\ StartKeeps

\* Mutant: the poller is not told of the new flags.
UpdateChannel_Forgotten ==
  /\ apc = "update" /\ apc' = "status"
  /\ UNCHANGED <<k, tasks, snap>> /\ StartKeeps

\* update_channel() from outside the loop queues a task, which will copy the flags
\* it finds then.
UpdateChannel ==
  /\ apc = "update" /\ apc' = "status"
  /\ tasks' = Append(tasks, Task("update"))
  /\ UNCHANGED <<k, snap>> /\ StartKeeps

SetConnected ==
  /\ apc = "status" /\ apc' = "conn"
  /\ k' = [k EXCEPT !.status = "kConnected"]
  /\ UNCHANGED <<tasks, snap>> /\ StartKeeps

QueueConnCallback ==
  /\ apc = "conn" /\ apc' = "done"
  /\ tasks' = Append(tasks, Task("conn"))
  /\ UNCHANGED <<k, snap>> /\ StartKeeps

StartNext == JoinToService \/ EnableReadFlags \/ EnableRead \/ UpdateChannel
             \/ SetConnected \/ QueueConnCallback
-------------------------------------------------------------------------------
(* The user's thread: write() and shutdown() from outside the loop.        *)

RemoteKeeps == UNCHANGED <<net, ntask, lpc, ret, apc, snap, inmap, closed, late, overwrote,
                          early>>

\* A task holds the address of the caller's bytes: where the caller writes from
\* one buffer, all its tasks read what is there last.
RemoteWrite ==
  /\ ref /\ "write" \in RemoteActs /\ CanAsk(k, "user")
  /\ k.asked["user"] + MsgLen <= MaxRemote
  /\ LET data   == NextData(k, "user")
         queued == IF "reuse" \in RemoteActs
                     THEN [i \in DOMAIN tasks |-> IF tasks[i].op = "write"
                                                    THEN [tasks[i] EXCEPT !.data = data]
                                                    ELSE tasks[i]]
                     ELSE tasks
     IN  tasks' = Append(queued, [op |-> "write", data |-> data])
  /\ k' = Asked(k, "user")
  /\ UNCHANGED ref /\ RemoteKeeps

\* At most one shutdown() task at a time.
RemoteShutdown ==
  /\ ref /\ "shutdown" \in RemoteActs /\ ~k.shut
  /\ \A i \in DOMAIN tasks : tasks[i].op # "shut"
  /\ k' = [k EXCEPT !.status = "kInDisconnect"]
  /\ tasks' = Append(tasks, Task("shut"))
  /\ UNCHANGED ref /\ RemoteKeeps

\* The user drops its connection_ptr.
Release ==
  /\ ref /\ "release" \in RemoteActs
  /\ ref' = FALSE
  /\ UNCHANGED <<k, tasks>> /\ RemoteKeeps

RemoteNext == RemoteWrite \/ RemoteShutdown \/ Release
-------------------------------------------------------------------------------
(* The peer.                                                               *)

PeerKeeps == UNCHANGED <<tasks, ntask, lpc, ret, apc, snap, inmap, ref, closed,
                         late, overwrote>>

PeerSends ==
  /\ ~net.fin /\ ~net.rst /\ net.sent < MaxIn
  /\ net' = [net EXCEPT !.inq = @ + 1, !.sent = @ + 1]
  /\ UNCHANGED <<k, early>> /\ PeerKeeps

PeerCloses ==
  /\ ~net.fin /\ ~net.rst
  /\ early' = (early \/ apc # "done")
  /\ net' = [net EXCEPT !.fin = TRUE]
  /\ UNCHANGED k /\ PeerKeeps

PeerResets ==
  /\ ~net.rst
  /\ early' = (early \/ apc # "done")
  /\ net' = [net EXCEPT !.rst = TRUE]
  /\ k' = [k EXCEPT !.err = TRUE]
  /\ PeerKeeps

PeerNext == PeerSends \/ PeerCloses \/ PeerResets
-------------------------------------------------------------------------------
(* The loop thread: epoll_wait and do_process_work().                      *)

\* What epoll_wait must report, level-triggered; EPOLLERR and EPOLLHUP are
\* reported unasked.  EPOLLOUT of an open socket is up to the peer.
Ready ==
  {f \in Flags :
     \/ f = "IN" /\ "IN" \in k.interest /\ (net.inq > 0 \/ net.fin \/ net.rst)
     \/ f = "OUT" /\ "OUT" \in k.interest /\ (k.shut \/ net.rst)
     \/ f = "HUP" /\ (net.rst \/ (net.fin /\ k.shut))
     \/ f = "ERR" /\ k.err}

LoopKeeps == UNCHANGED <<apc, snap, overwrote, early>>

\* epoll_wait returns this channel; w: the socket is writable.
Poll(w) ==
  LET events == IF w THEN Ready \cup {"OUT"} ELSE Ready
  IN  /\ lpc = "poll" /\ k.reg
      /\ w => "OUT" \in k.interest
      /\ events # {}
      /\ k' = [k EXCEPT !.evt = events]
      /\ overwrote' = (overwrote \/ (UpdateDue /\ Pending(k) /\ "OUT" \notin events))
      /\ lpc' = "hup"
      /\ UNCHANGED <<net, tasks, ntask, ret, apc, snap, inmap, ref, closed, late, early>>

\* epoll_wait returns without this channel.
PollNothing ==
  /\ lpc = "poll"
  /\ k.reg => Ready = {}
  /\ lpc' = "tasks"
  /\ ntask' = Len(tasks)
  /\ UNCHANGED <<k, net, tasks, ret, inmap, ref, closed, late>>
  /\ LoopKeeps

\* Hung up and not readable: the close callback.
CheckHup ==
  /\ lpc = "hup"
  /\ IF "HUP" \in k.evt /\ "IN" \notin k.evt
       THEN lpc' = "close" /\ ret' = "err" /\ late' = (late \/ closed > 0)
       ELSE lpc' = "err" /\ UNCHANGED <<ret, late>>
  /\ UNCHANGED <<k, net, tasks, ntask, inmap, ref, closed>>
  /\ LoopKeeps

\* handle_error() clears SO_ERROR and calls err_cb.
CheckErr ==
  /\ lpc = "err" /\ lpc' = "in"
  /\ IF "ERR" \in k.evt
       THEN k' \in AfterCallback([k EXCEPT !.err = FALSE]) /\ late' = (late \/ closed > 0)
       ELSE UNCHANGED <<k, late>>
  /\ UNCHANGED <<net, tasks, ntask, ret, inmap, ref, closed>>
  /\ LoopKeeps

NotReadable ==
  /\ lpc = "in" /\ "IN" \notin k.evt
  /\ lpc' = "out"
  /\ UNCHANGED <<k, net, tasks, ntask, ret, inmap, ref, closed, late>>
  /\ LoopKeeps

\* handle_read(): data for read_cb.
HandleRead ==
  /\ lpc = "in" /\ "IN" \in k.evt
  /\ lpc' = "out"
  /\ \E n \in 1 .. net.inq : net' = [net EXCEPT !.inq = @ - n]
  /\ k' \in AfterCallback(k)
  /\ late' = (late \/ closed > 0)
  /\ UNCHANGED <<tasks, ntask, ret, inmap, ref, closed>>
  /\ LoopKeeps

EndOfStream == net.inq = 0 /\ ~k.err /\ (net.fin \/ net.rst)

\* handle_read(): an error for read_cb, ECONNRESET or EAGAIN.
HandleReadError ==
  /\ lpc = "in" /\ "IN" \in k.evt
  /\ net.inq = 0 /\ ~EndOfStream
  /\ lpc' = "out"
  /\ k' \in AfterCallback([k EXCEPT !.err = FALSE])
  /\ late' = (late \/ closed > 0)
  /\ UNCHANGED <<net, tasks, ntask, ret, inmap, ref, closed>>
  /\ LoopKeeps

\* handle_read(): end of the stream, conn_cb and then handle_close().
HandleReadEof ==
  /\ lpc = "in" /\ "IN" \in k.evt
  /\ EndOfStream
  /\ lpc' = "close" /\ ret' = "out"
  /\ k' \in AfterConnCallback(k)
  /\ late' = (late \/ closed > 0)
  /\ UNCHANGED <<net, tasks, ntask, inmap, ref, closed>>
  /\ LoopKeeps

\* handle_close(): the state and the flags, the conn callback, the close callback.
Close ==
  /\ lpc = "close" /\ lpc' = "close_conn"
  /\ k' = handle_close(k)
  /\ UNCHANGED <<net, tasks, ntask, ret, inmap, ref, closed, late>>
  /\ LoopKeeps

CloseConnCallback ==
  /\ lpc = "close_conn" /\ lpc' = "close_cb"
  /\ k' \in AfterConnCallback(k)
  /\ UNCHANGED <<net, tasks, ntask, ret, inmap, ref, closed, late>>
  /\ LoopKeeps

\* Mutant: final_destory() leaves the channel in the poller.
RemoveConn_StaysWatched ==
  /\ lpc = "close_cb" /\ lpc' = ret
  /\ inmap' = FALSE
  /\ closed' = closed + 1
  /\ UNCHANGED <<k, net, tasks, ntask, ret, ref, late>>
  /\ LoopKeeps

\* tcp_server::on_remove_conn(): out of the map, final_destory().
RemoveConn ==
  /\ lpc = "close_cb" /\ lpc' = ret
  /\ inmap' = FALSE
  /\ closed' = closed + 1
  /\ k' = [k EXCEPT !.reg = FALSE, !.interest = {}]
  /\ UNCHANGED <<net, tasks, ntask, ret, ref, late>>
  /\ LoopKeeps

NotWritable ==
  /\ lpc = "out" /\ "OUT" \notin k.evt
  /\ lpc' = "tasks"
  /\ ntask' = Len(tasks)
  /\ UNCHANGED <<k, net, tasks, ret, inmap, ref, closed, late>>
  /\ LoopKeeps

HandleWrite(r) ==
  /\ lpc = "out" /\ "OUT" \in k.evt
  /\ r \in SendResults(k, Len(k.wcache))
  /\ lpc' = "tasks"
  /\ ntask' = Len(tasks)
  /\ LET sent == handle_write([k EXCEPT !.progress = FALSE], r)
     IN  k' \in IF r > 0 \/ r = ERROR THEN AfterCallback(sent) ELSE {sent}
  /\ late' = (late \/ closed > 0)
  /\ UNCHANGED <<net, tasks, ret, inmap, ref, closed>>
  /\ LoopKeeps
-------------------------------------------------------------------------------
(* The loop thread: run_pending_task().                                    *)

TaskKeeps == UNCHANGED <<net, lpc, ret, inmap, closed, late>> /\ LoopKeeps

\* Mutant: the task that ran is not counted.
NextTask_Uncounted ==
  /\ lpc = "tasks" /\ ntask > 0
  /\ ntask' = ntask
  /\ tasks' = Tail(tasks)

NextTask ==
  /\ lpc = "tasks" /\ ntask > 0
  /\ ntask' = ntask - 1
  /\ tasks' = Tail(tasks)

AddTask ==
  /\ NextTask /\ Head(tasks).op = "add"
  /\ k' = [k EXCEPT !.reg = TRUE, !.interest = k.evt]
  /\ UNCHANGED ref /\ TaskKeeps

UpdateTask ==
  /\ NextTask /\ Head(tasks).op = "update"
  /\ k' = update_evt_code(k)
  /\ UNCHANGED ref /\ TaskKeeps

\* conn_cb for the new connection; the user may keep a connection_ptr.
ConnTask ==
  /\ NextTask /\ Head(tasks).op = "conn"
  /\ k' \in AfterConnCallback(k)
  /\ ref' = (connected(k) /\ RemoteActs # {})
  /\ TaskKeeps

\* write_in_loop(), and write_cb where it was sent or failed.
WriteTask ==
  /\ NextTask /\ Head(tasks).op = "write" /\ Alive
  /\ \E r \in SendResults(k, MsgLen) :
       LET c == write_in_loop(k, Head(tasks).data, r)
       IN  k' \in IF k.wcache = <<>> /\ r # EAGAIN THEN AfterCallback(c) ELSE {c}
  /\ UNCHANGED ref /\ TaskKeeps

ShutTask ==
  /\ NextTask /\ Head(tasks).op = "shut" /\ Alive
  /\ k' = [k EXCEPT !.shut = TRUE]
  /\ UNCHANGED ref /\ TaskKeeps

\* The task of write() or shutdown() holds a bare pointer, and the connection has
\* been deleted: undefined.  Its bytes are lost, and the memory that it uses is
\* nobody's, so nothing here changes.
DanglingTask ==
  /\ NextTask /\ Head(tasks).op \in {"write", "shut"} /\ ~Alive
  /\ UNCHANGED <<k, ref>> /\ TaskKeeps

TasksDone ==
  /\ lpc = "tasks" /\ ntask = 0
  /\ lpc' = "poll"
  /\ UNCHANGED <<k, net, tasks, ntask, ret, inmap, ref, closed, late>>
  /\ LoopKeeps
-------------------------------------------------------------------------------
LoopNext ==
  \/ \E w \in BOOLEAN : Poll(w)
  \/ PollNothing \/ CheckHup \/ CheckErr \/ NotReadable \/ HandleRead
  \/ HandleReadError \/ HandleReadEof
  \/ Close \/ CloseConnCallback \/ RemoveConn \/ NotWritable
  \/ \E r \in {EAGAIN, ERROR} \cup 0 .. Len(k.wcache) : HandleWrite(r)
  \/ AddTask \/ UpdateTask \/ ConnTask \/ WriteTask \/ ShutTask
  \/ DanglingTask \/ TasksDone

Next == LoopNext \/ StartNext \/ RemoteNext \/ PeerNext

Spec == Init /\ [][Next]_vars

(* The loop and start() keep running; a socket with room is reported and   *)
(* a peer that reads lets send() through, again and again.  Nothing is     *)
(* asked of the peer's or the user's requests.                             *)
FairSpec ==
  /\ Spec
  /\ WF_vars(LoopNext)
  /\ WF_vars(StartNext)
  /\ SF_vars(Poll(TRUE))
  /\ SF_vars(HandleWrite(Len(k.wcache)))
-------------------------------------------------------------------------------
(* Properties.                                                             *)

\* The ranges of the variables.
TypeOK ==
  /\ k.status \in {"kDisconnect", "kConnected", "kInDisconnect"}
  /\ k.evt \subseteq Flags /\ k.interest \subseteq Flags
  /\ \A t \in Callers : k.asked[t] \in 0 .. MaxAsked
  /\ k.wcache \o k.wire \in Seq(Callers \X (1 .. MaxAsked))
  /\ net.inq \in 0 .. MaxIn
  /\ ntask \in 0 .. Len(tasks)
  /\ lpc \in {"poll", "hup", "err", "in", "out", "close", "close_conn", "close_cb", "tasks"}
  /\ ret \in {"poll", "err", "out"}

\* A channel that epoll reports has a living owner, although the poller keeps a
\* bare pointer to it.
WatchedAlive == k.reg => Alive

\* The asserts of the code hold: final_destory() finds the connection disconnected,
\* and discard() finds as many bytes as it is told to, also when handle_write()
\* discards what it has sent for the second time.
AssertsHold ==
  [][/\ RemoveConn => k.status = "kDisconnect"
     /\ \A r \in 1 .. Len(k.wcache) : HandleWrite(r) => r <= Len(Drop(k.wcache, r))]_vars

\* Once close_cb has run, do_process_work() calls no handler of the connection
\* any more, neither in the same round nor in a later one.  The one exception is a
\* peer that ended the connection inside start(), which may write the flags late.
NoHandlerAfterClose == ~late \/ early

\* Bytes that wait in m_write_cache are not forgotten: whenever the loop waits and
\* the channel is registered, epoll has been asked for EPOLLOUT.  The one exception
\* is a wait that overwrote the flags while the update of start() was still due: the
\* update then takes EPOLLOUT away, and enable_write(true) never asks again.
BacklogArmed ==
  lpc = "poll" /\ k.reg /\ k.wcache # <<>> => "OUT" \in k.interest \/ overwrote

\* What is sent, what waits in m_write_cache and what is in tasks, part by part.
Stream == [p \in 1 .. Len(tasks) + 2 |->
             CASE p = 1 -> k.wire [] p = 2 -> k.wcache [] OTHER -> tasks[p - 2].data]

\* Where the bytes of t are: the part, and the place in it.
Places(parts, t) ==
  UNION {{<<p, i>> : i \in {n \in DOMAIN parts[p] : parts[p][n][1] = t}} : p \in DOMAIN parts}

\* The bytes of t in the parts are its first n, in this order.
FirstOf(parts, t, n) ==
  LET Number(a) == parts[a[1]][a[2]][2]
  IN  /\ {Number(a) : a \in Places(parts, t)} = 1 .. n
      /\ \A a, b \in Places(parts, t) :
           a[1] < b[1] \/ (a[1] = b[1] /\ a[2] < b[2]) => Number(a) < Number(b)

\* Of each thread the bytes reach the kernel in the order of its write() calls,
\* none lost and none twice: those sent, those that wait in m_write_cache and
\* those in tasks are the ones it wrote.  Where sending is shut down or fails, or
\* the connection is deleted, the rest is dropped, and what was sent is still a
\* beginning of what was written.
StreamIntact ==
  \A t \in Callers :
    /\ \E n \in 0 .. k.asked[t] : FirstOf(<<k.wire>>, t, n)
    /\ k.shut \/ net.rst \/ ~Alive \/ FirstOf(Stream, t, k.asked[t])

\* The peer's close or reset is noticed: the connection is removed.
PeerCloseHandled == (net.fin \/ net.rst) ~> closed > 0

\* Unless a send() is ever refused, the peer's close or reset is noticed, whenever
\* it falls into start() and whatever the user's thread does.
PeerCloseSeen == (net.fin \/ net.rst) ~> closed > 0 \/ k.refused

\* What waits in m_write_cache is sent, unless the connection ends, or a wait
\* overwrote EPOLLOUT while the update of start() was due.  (The bytes are sent and
\* discarded before the second discard(), at which the default build stops.)
BacklogDrains ==
  k.wcache # <<>> ~> k.wcache = <<>> \/ closed > 0 \/ k.shut \/ overwrote
================================================================================

--------------------------------- MODULE Server --------------------------------
(***************************************************************************)
(* muradin::net::tcp_server: the acceptor on its io_service (the main      *)
(* loop), the pool's threads with their pollers and tasks, the map         *)
(* m_conn_map from descriptors to connections, and the life of the         *)
(* connection objects, which close their descriptor when the last          *)
(* connection_ptr goes.                                                    *)
(*                                                                         *)
(* Each client becomes one connection object and names it.  What a         *)
(* connection does with bytes is in module Connection; here an event of a  *)
(* connection is its end by the peer, which ends in handle_close(), or a   *)
(* refused send() that takes EPOLLIN from its channel, after which the end *)
(* of the stream is not reported any more.                                 *)
(* One call of std::map is one step: overlapping calls, which the code     *)
(* does not exclude, are undefined and are not followed.                   *)
(***************************************************************************)
EXTENDS Integers, Sequences, FiniteSets

CONSTANTS
  Clients,    \* the clients, each of which connects once
  m_size,     \* threads of the pool
  Fds,        \* descriptors the process may open for connections
  InLoop,     \* the server is made and readied by the loop's own thread
              \* (echo.cpp), or by another thread (echo_mt.cpp)
  Kept,       \* the connections of which the user may keep a connection_ptr
  None        \* no client, no descriptor

ASSUME ServerAssumption ==
  /\ m_size \in Nat \ {0}
  /\ Fds \subseteq Nat /\ IsFiniteSet(Fds)
  /\ InLoop \in BOOLEAN /\ Kept \subseteq Clients
  /\ None \notin Clients \cup Fds

VARIABLES
  spc, snap,   \* the thread that makes, readies and stops the server
  acc,         \* the acceptor and its channel, a record (see Init)
  mtasks, mleft, \* the main loop's pending tasks, those left of this round
  mpc, events, \* where the main loop is, what epoll_wait returned to it
  newc,        \* the connection on_new_conn() is working on
  index,       \* m_service_index
  backlog,     \* clients the kernel has connected and nobody has accepted
  peer,        \* the client: idle, up, or how it ended the connection
  fd,          \* the descriptor of a connection, None before and after its life
  service,     \* the pool thread of a connection
  m_conn_map,
  tasks, ntask,\* pending tasks of each pool thread; those left of this round
  held,        \* connections held by the tasks of this round that have run
  lpc, batch, cur, \* where a pool thread is, active_channels, the locked owner
  chan,        \* m_channel_map of each poller
  flag,        \* the connection's channel asks for EPOLLIN
  watch,       \* epoll's view of it: not registered, registered, for EPOLLIN
  user,        \* connections of which the user holds a connection_ptr
  refused      \* history: connections that lost EPOLLIN to a refused send()

mainvars == <<acc, mtasks, mleft, mpc, events, newc, index, backlog>>
poolvars == <<tasks, ntask, held, lpc, batch, cur, chan, watch>>
vars == <<spc, snap, mainvars, peer, fd, service, m_conn_map, poolvars, flag, user,
          refused>>

Service == 0 .. m_size - 1
ReadFlags == {"IN", "HUP"}

Init ==
  /\ spc = "ctor" /\ snap = {}
  /\ acc = [evt      |-> {},       \* m_last_evt_status
            reg      |-> FALSE,    \* known to epoll
            interest |-> {},       \* the events epoll watches
            listens  |-> FALSE]
  /\ mtasks = <<>> /\ mleft = 0 /\ mpc = "wait" /\ events = {}
  /\ newc = None /\ index = 0
  /\ backlog = <<>> /\ peer = [c \in Clients |-> "idle"]
  /\ fd = [c \in Clients |-> None]
  /\ service = [c \in Clients |-> 0]
  /\ m_conn_map = [f \in Fds |-> None]
  /\ tasks = [t \in Service |-> <<>>] /\ ntask = [t \in Service |-> 0]
  /\ held = [t \in Service |-> {}]
  /\ lpc = [t \in Service |-> "wait"]
  /\ batch = [t \in Service |-> {}] /\ cur = [t \in Service |-> None]
  /\ chan = [t \in Service |-> [f \in Fds |-> None]]
  /\ flag = [c \in Clients |-> FALSE]
  /\ watch = [c \in Clients |-> "no"]
  /\ user = {} /\ refused = {}
-------------------------------------------------------------------------------
(* The acceptor's channel.                                                 *)

\* add_channel(), update_evt_code() and del_channel() of the main loop's poller.
Applied(op) ==
  CASE op = "add"    -> [acc EXCEPT !.reg = TRUE, !.interest = acc.evt]
    [] op = "update" -> IF acc.reg THEN [acc EXCEPT !.interest = acc.evt] ELSE acc
    [] op = "del"    -> [acc EXCEPT !.reg = FALSE, !.interest = {}]

SetupKeeps == UNCHANGED <<mleft, mpc, events, newc, index, backlog, peer, fd, service,
                          m_conn_map, poolvars, flag, user, refused>>

\* acceptor's constructor: join_to_service().
Construct ==
  /\ spc = "ctor" /\ spc' = "listen"
  /\ IF InLoop THEN acc' = Applied("add") /\ UNCHANGED mtasks
               ELSE mtasks' = Append(mtasks, "add") /\ UNCHANGED acc
  /\ UNCHANGED snap /\ SetupKeeps

\* ready(): the pool comes up (module ServicePool), then start() listens.
Listen ==
  /\ spc = "listen" /\ spc' = "read_flags"
  /\ acc' = [acc EXCEPT !.listens = TRUE]
  /\ UNCHANGED <<snap, mtasks>> /\ SetupKeeps

\* enable_read(true): the flags are read, then written, then told to the poller.
EnableReadFlags ==
  /\ spc = "read_flags" /\ spc' = "enable"
  /\ snap' = acc.evt
  /\ UNCHANGED <<acc, mtasks>> /\ SetupKeeps

EnableRead ==
  /\ spc = "enable" /\ spc' = "update"
  /\ acc' = [acc EXCEPT !.evt = snap \cup ReadFlags]
  /\ UNCHANGED <<snap, mtasks>> /\ SetupKeeps

UpdateChannel ==
  /\ spc = "update" /\ spc' = "up"
  /\ IF InLoop THEN acc' = Applied("update") /\ UNCHANGED mtasks
               ELSE mtasks' = Append(mtasks, "update") /\ UNCHANGED acc
  /\ UNCHANGED snap /\ SetupKeeps

\* stop() by another thread than the loop's.  enable_read(false) masks the flags
\* with those it means to clear, which changes nothing; then the channel goes.
StopRead ==
  /\ spc = "up" /\ spc' = "remove"
  /\ acc' = [acc EXCEPT !.evt = @ \cap ReadFlags]
  /\ mtasks' = Append(mtasks, "update")
  /\ UNCHANGED snap /\ SetupKeeps

\* Mutant: the channel is not removed, only its flags are changed.
StopRemove_Keeps ==
  /\ spc = "remove" /\ spc' = "stopped"
  /\ mtasks' = Append(mtasks, "update")
  /\ UNCHANGED <<snap, acc>> /\ SetupKeeps

StopRemove ==
  /\ spc = "remove" /\ spc' = "stopped"
  /\ mtasks' = Append(mtasks, "del")
  /\ UNCHANGED <<snap, acc>> /\ SetupKeeps

StopNext == StopRead \/ StopRemove
SetupNext == Construct \/ Listen \/ EnableReadFlags \/ EnableRead \/ UpdateChannel
-------------------------------------------------------------------------------
(* Who owns a connection, and its end.                                     *)

Tasks(t) == {tasks[t][i] : i \in DOMAIN tasks[t]}

\* Someone holds a connection_ptr: the map, on_new_conn(), process_work() or a
\* handler, a conn callback that is queued or was run in this round, the user.
Owned(c) ==
  \/ \E f \in Fds : m_conn_map[f] = c
  \/ newc = c
  \/ \E t \in Service : cur[t] = c \/ c \in held[t] \/ [op |-> "conn", c |-> c] \in Tasks(t)
  \/ c \in user

\* A connection_ptr is dropped: with the last one ~socket() closes the
\* descriptor, which also takes it out of every epoll.
Unref == fd' = [c \in Clients |-> IF Owned(c)' THEN fd[c] ELSE None]

Free == Fds \ {fd[c] : c \in Clients}
Lowest(f) == f \in Free /\ \A g \in Free : f <= g
-------------------------------------------------------------------------------
(* The main loop.  It runs once ready() is done where one thread does both.*)

MainRuns == InLoop => spc \in {"up", "remove", "stopped"}

\* A socket that does not listen is reported as hung up, asked for or not.
AcceptorEvents ==
  IF ~acc.reg THEN {}
  ELSE IF ~acc.listens THEN {"HUP"}
  ELSE IF "IN" \in acc.interest /\ backlog # <<>> THEN {"IN"}
  ELSE {}

MainKeeps == UNCHANGED <<spc, snap, peer, poolvars, user, refused>>

MainPoll ==
  /\ MainRuns /\ mpc = "wait" /\ AcceptorEvents # {}
  /\ events' = AcceptorEvents /\ mpc' = "save"
  /\ UNCHANGED <<acc, mtasks, mleft, newc, index, backlog, fd, service, m_conn_map, flag>>
  /\ MainKeeps

SaveEvtStatus ==
  /\ mpc = "save" /\ mpc' = "work"
  /\ acc' = [acc EXCEPT !.evt = events]
  /\ UNCHANGED <<mtasks, mleft, events, newc, index, backlog, fd, service, m_conn_map, flag>>
  /\ MainKeeps

\* Mutant: a client is taken from the kernel although no descriptor is left.
Accept_DropsOnEmfile ==
  /\ mpc = "work"
  /\ IF "IN" \in acc.evt /\ backlog # <<>>
       THEN /\ backlog' = Tail(backlog)
            /\ IF Free # {}
                 THEN /\ mpc' = "insert" /\ newc' = Head(backlog)
                      /\ \E f \in Fds : Lowest(f) /\ fd' = [fd EXCEPT ![Head(backlog)] = f]
                 ELSE mpc' = "swap" /\ UNCHANGED <<newc, fd>>
       ELSE mpc' = "swap" /\ UNCHANGED <<newc, backlog, fd>>
  /\ UNCHANGED <<acc, mtasks, mleft, events, index, service, m_conn_map, flag>>
  /\ MainKeeps

\* do_process_work() and on_read(): accept4() takes the lowest free descriptor,
\* or fails with EAGAIN or EMFILE, which leaves the client where it is.
Accept ==
  /\ mpc = "work"
  /\ IF "IN" \in acc.evt /\ backlog # <<>> /\ Free # {}
       THEN /\ mpc' = "insert"
            /\ newc' = Head(backlog) /\ backlog' = Tail(backlog)
            /\ \E f \in Fds : Lowest(f) /\ fd' = [fd EXCEPT ![Head(backlog)] = f]
       ELSE mpc' = "swap" /\ UNCHANGED <<newc, backlog, fd>>
  /\ UNCHANGED <<acc, mtasks, mleft, events, index, service, m_conn_map, flag>>
  /\ MainKeeps

\* on_new_conn(): next_service(), the connection, the map.
OnNewConn ==
  /\ mpc = "insert" /\ mpc' = "join"
  /\ LET i == IF index >= m_size THEN 0 ELSE index
     IN  service' = [service EXCEPT ![newc] = i] /\ index' = i + 1
  /\ m_conn_map' = [m_conn_map EXCEPT ![fd[newc]] = newc]
  /\ UNCHANGED <<acc, mtasks, mleft, events, newc, backlog, fd, flag>>
  /\ MainKeeps

\* start(): the three tasks for the connection's thread.
Queue(op) == tasks' = [tasks EXCEPT ![service[newc]] = Append(@, [op |-> op, c |-> newc])]

StartKeeps == UNCHANGED <<spc, snap, acc, mtasks, mleft, events, newc, index, backlog,
                          peer, fd, service, m_conn_map, ntask, held, lpc, batch, cur,
                          chan, watch, user, refused>>

JoinToService ==
  /\ mpc = "join" /\ mpc' = "read"
  /\ Queue("add")
  /\ UNCHANGED flag /\ StartKeeps

\* enable_read(true): the flags, then the update.
StartRead ==
  /\ mpc = "read" /\ mpc' = "update"
  /\ flag' = [flag EXCEPT ![newc] = TRUE]
  /\ UNCHANGED tasks /\ StartKeeps

StartUpdate ==
  /\ mpc = "update" /\ mpc' = "conn"
  /\ Queue("update")
  /\ UNCHANGED flag /\ StartKeeps

\* Mutant: the connected callback is not queued.
QueueConnCallback_Skipped ==
  /\ mpc = "conn" /\ mpc' = "return"
  /\ UNCHANGED <<tasks, flag>> /\ StartKeeps

QueueConnCallback ==
  /\ mpc = "conn" /\ mpc' = "return"
  /\ Queue("conn")
  /\ UNCHANGED flag /\ StartKeeps

\* on_new_conn() returns and drops new_conn.
NewConnReturns ==
  /\ mpc = "return" /\ mpc' = "swap"
  /\ newc' = None
  /\ UNCHANGED <<acc, mtasks, mleft, events, index, backlog, service, m_conn_map, flag>>
  /\ MainKeeps
  /\ Unref

\* run_pending_task() after the events, or after a wait without any: the swap,
\* then the tasks.
MainSwap ==
  /\ MainRuns
  /\ mpc = "swap" \/ (mpc = "wait" /\ AcceptorEvents = {} /\ mtasks # <<>>)
  /\ mleft' = Len(mtasks)
  /\ mpc' = IF mtasks = <<>> THEN "wait" ELSE "tasks"
  /\ UNCHANGED <<acc, mtasks, events, newc, index, backlog, fd, service, m_conn_map, flag>>
  /\ MainKeeps

MainTask ==
  /\ mpc = "tasks"
  /\ acc' = Applied(Head(mtasks)) /\ mtasks' = Tail(mtasks)
  /\ mleft' = mleft - 1
  /\ mpc' = IF mleft = 1 THEN "wait" ELSE mpc
  /\ UNCHANGED <<events, newc, index, backlog, fd, service, m_conn_map, flag>>
  /\ MainKeeps

MainNext == MainPoll \/ SaveEvtStatus \/ Accept \/ OnNewConn \/ JoinToService
            \/ StartRead \/ StartUpdate \/ QueueConnCallback \/ NewConnReturns
            \/ MainSwap \/ MainTask
-------------------------------------------------------------------------------
(* A thread of the pool: events.  A round in which epoll_wait times out and *)
(* no task waits changes nothing and is no step.                           *)

PoolKeeps == UNCHANGED <<spc, snap, mainvars, peer, service, flag, refused>>

\* The end of the stream is an EPOLLIN, where that is asked for; a reset is
\* reported unasked.
Ready(t) ==
  {c \in Clients : /\ service[c] = t /\ fd[c] # None
                   /\ \/ watch[c] = "in" /\ peer[c] \in {"fin", "reset"}
                      \/ watch[c] = "yes" /\ peer[c] = "reset"}

Poll(t) ==
  /\ lpc[t] = "wait" /\ Ready(t) # {}
  /\ lpc' = [lpc EXCEPT ![t] = "work"]
  /\ batch' = [batch EXCEPT ![t] = Ready(t)]
  /\ UNCHANGED <<fd, m_conn_map, tasks, ntask, held, cur, chan, watch, user>> /\ PoolKeeps

\* What the user holds after a callback was given the connection.
Keeping(c) == {user, user \cup ({c} \cap Kept)}

\* Mutant: the socket is closed before the connection is removed.
ProcessWork_Closes(t, c) ==
  /\ lpc[t] = "work" /\ c \in batch[t]
  /\ batch' = [batch EXCEPT ![t] = @ \ {c}]
  /\ cur' = [cur EXCEPT ![t] = c] /\ lpc' = [lpc EXCEPT ![t] = "erase"]
  /\ fd' = [fd EXCEPT ![c] = None]
  /\ UNCHANGED <<m_conn_map, tasks, ntask, held, chan, watch, user>> /\ PoolKeeps

\* process_work() locks the owner; a connection that is gone is skipped.
\* handle_close() calls conn_cb, which may keep the connection_ptr.
ProcessWork(t, c) ==
  /\ lpc[t] = "work" /\ c \in batch[t]
  /\ batch' = [batch EXCEPT ![t] = @ \ {c}]
  /\ IF Owned(c)
       THEN /\ cur' = [cur EXCEPT ![t] = c] /\ lpc' = [lpc EXCEPT ![t] = "erase"]
            /\ user' \in Keeping(c)
       ELSE UNCHANGED <<cur, lpc, user>>
  /\ UNCHANGED <<fd, m_conn_map, tasks, ntask, held, chan, watch>> /\ PoolKeeps

\* Mutant: the entry stays in the map.
OnRemoveConn_Keeps(t) ==
  /\ lpc[t] = "erase" /\ lpc' = [lpc EXCEPT ![t] = "del"]
  /\ UNCHANGED <<fd, m_conn_map, tasks, ntask, held, batch, cur, chan, watch, user>> /\ PoolKeeps

\* on_remove_conn(): out of the map, by descriptor.
OnRemoveConn(t) ==
  /\ lpc[t] = "erase" /\ lpc' = [lpc EXCEPT ![t] = "del"]
  /\ m_conn_map' = [m_conn_map EXCEPT ![fd[cur[t]]] = None]
  /\ UNCHANGED <<fd, tasks, ntask, held, batch, cur, chan, watch, user>> /\ PoolKeeps

\* final_destory(): out of epoll and m_channel_map.
FinalDestory(t) ==
  /\ lpc[t] = "del" /\ lpc' = [lpc EXCEPT ![t] = "drop"]
  /\ IF watch[cur[t]] # "no"
       THEN /\ chan' = [chan EXCEPT ![t][fd[cur[t]]] = None]
            /\ watch' = [watch EXCEPT ![cur[t]] = "no"]
       ELSE UNCHANGED <<chan, watch>>
  /\ UNCHANGED <<fd, m_conn_map, tasks, ntask, held, batch, cur, user>> /\ PoolKeeps

\* process_work() returns and drops the owner it locked.
WorkReturns(t) ==
  /\ lpc[t] = "drop" /\ lpc' = [lpc EXCEPT ![t] = "work"]
  /\ cur' = [cur EXCEPT ![t] = None]
  /\ UNCHANGED <<m_conn_map, tasks, ntask, held, batch, chan, watch, user>> /\ PoolKeeps
  /\ Unref

\* A round for EPOLLOUT alone, whose send() the kernel refuses: the flags hold what
\* was reported, and enable_write() gives them to epoll.
RefusedSend(t, c) ==
  /\ lpc[t] = "wait" /\ service[c] = t /\ fd[c] # None
  /\ watch[c] = "in" /\ peer[c] = "up"
  /\ flag' = [flag EXCEPT ![c] = FALSE]
  /\ watch' = [watch EXCEPT ![c] = "yes"]
  /\ refused' = refused \cup {c}
  /\ UNCHANGED <<spc, snap, mainvars, peer, service, fd, m_conn_map, tasks, ntask, held, lpc,
                 batch, cur, chan, user>>

SwapPending(t) ==
  /\ \/ lpc[t] = "work" /\ batch[t] = {}
     \/ lpc[t] = "wait" /\ Ready(t) = {} /\ tasks[t] # <<>>
  /\ lpc' = [lpc EXCEPT ![t] = IF tasks[t] = <<>> THEN "wait" ELSE "tasks"]
  /\ ntask' = [ntask EXCEPT ![t] = Len(tasks[t])]
  /\ UNCHANGED <<fd, m_conn_map, tasks, held, batch, cur, chan, watch, user>> /\ PoolKeeps
-------------------------------------------------------------------------------
(* A thread of the pool: tasks.                                            *)

\* The task that is next, of the connection c; the functors of the round, and
\* what they hold, go with its last task.
NextTask(t, op, c) ==
  /\ lpc[t] = "tasks" /\ Head(tasks[t]) = [op |-> op, c |-> c]
  /\ tasks' = [tasks EXCEPT ![t] = Tail(@)]
  /\ ntask' = [ntask EXCEPT ![t] = @ - 1]
  /\ held' = [held EXCEPT ![t] = IF ntask[t] = 1 THEN {}
                                 ELSE IF op = "conn" THEN @ \cup {c} ELSE @]
  /\ lpc' = [lpc EXCEPT ![t] = IF ntask[t] = 1 THEN "wait" ELSE @]
  /\ UNCHANGED <<m_conn_map, batch, cur>> /\ PoolKeeps

Asked(c) == IF flag[c] THEN "in" ELSE "yes"

\* Mutant: the poller does not note the channel.
AddTask_Unmapped(t, c) ==
  /\ NextTask(t, "add", c)
  /\ watch' = [watch EXCEPT ![c] = Asked(c)]
  /\ UNCHANGED <<chan, user>> /\ Unref

\* EPOLL_CTL_ADD, and m_channel_map.
AddTask(t, c) ==
  /\ NextTask(t, "add", c)
  /\ watch' = [watch EXCEPT ![c] = Asked(c)]
  /\ chan' = [chan EXCEPT ![t][fd[c]] = c]
  /\ UNCHANGED user /\ Unref

\* EPOLL_CTL_MOD; a connection that was removed meanwhile is only logged.
UpdateTask(t, c) ==
  /\ NextTask(t, "update", c)
  /\ watch' = [watch EXCEPT ![c] = IF @ = "no" THEN @ ELSE Asked(c)]
  /\ UNCHANGED <<chan, user>> /\ Unref

\* conn_cb: the user may keep the connection_ptr.
ConnTask(t, c) ==
  /\ NextTask(t, "conn", c)
  /\ user' \in Keeping(c)
  /\ UNCHANGED <<chan, watch>> /\ Unref

PoolNext(t) ==
  \/ Poll(t) \/ OnRemoveConn(t) \/ FinalDestory(t) \/ WorkReturns(t) \/ SwapPending(t)
  \/ \E c \in Clients : ProcessWork(t, c) \/ AddTask(t, c) \/ UpdateTask(t, c)
                        \/ ConnTask(t, c)
-------------------------------------------------------------------------------
(* The clients, and the user's thread.                                     *)

ClientKeeps == UNCHANGED <<spc, snap, acc, mtasks, mleft, mpc, events, newc, index,
                           service, m_conn_map, poolvars, flag, refused>>

ClientConnects(c) ==
  /\ acc.listens /\ peer[c] = "idle"
  /\ peer' = [peer EXCEPT ![c] = "up"]
  /\ backlog' = Append(backlog, c)
  /\ UNCHANGED <<fd, user>> /\ ClientKeeps

ClientEnds(c, how) ==
  /\ peer[c] = "up"
  /\ peer' = [peer EXCEPT ![c] = how]
  /\ UNCHANGED <<backlog, fd, user>> /\ ClientKeeps

UserReleases(c) ==
  /\ c \in user /\ user' = user \ {c}
  /\ UNCHANGED <<backlog, peer>> /\ ClientKeeps
  /\ Unref

\* A connection in use: its sends may be refused, by a peer that does not read.
OutsideNext ==
  \E c \in Clients : \/ ClientConnects(c)
                     \/ \E how \in {"fin", "reset"} : ClientEnds(c, how)
                     \/ UserReleases(c)
                     \/ \E t \in Service : RefusedSend(t, c)
-------------------------------------------------------------------------------
Next == SetupNext \/ StopNext \/ MainNext \/ (\E t \in Service : PoolNext(t))
        \/ OutsideNext

Spec == Init /\ [][Next]_vars

(* Every loop keeps running, since epoll_wait has a timeout, and so does   *)
(* the thread that readies the server.  Clients, what their sends meet,    *)
(* the user and stop() are free.                                           *)
FairSpec ==
  /\ Spec
  /\ WF_vars(SetupNext) /\ WF_vars(StopRemove)
  /\ WF_vars(MainNext)
  /\ \A t \in Service : WF_vars(PoolNext(t))
-------------------------------------------------------------------------------
(* Properties.                                                             *)

\* The ranges of the variables.
TypeOK ==
  /\ spc \in {"ctor", "listen", "read_flags", "enable", "update", "up", "remove", "stopped"}
  /\ snap \subseteq ReadFlags /\ events \subseteq ReadFlags
  /\ acc \in [evt : SUBSET ReadFlags, reg : BOOLEAN, interest : SUBSET ReadFlags,
              listens : BOOLEAN]
  /\ mtasks \in Seq({"add", "update", "del"}) /\ mleft \in 0 .. Len(mtasks)
  /\ mpc \in {"wait", "save", "work", "insert", "join", "read", "update", "conn", "return",
             "swap", "tasks"}
  /\ newc \in Clients \cup {None} /\ index \in 0 .. m_size
  /\ backlog \in Seq(Clients)
  /\ peer \in [Clients -> {"idle", "up", "fin", "reset"}]
  /\ fd \in [Clients -> Fds \cup {None}] /\ service \in [Clients -> Service]
  /\ m_conn_map \in [Fds -> Clients \cup {None}]
  /\ tasks \in [Service -> Seq([op : {"add", "update", "conn"}, c : Clients])]
  /\ ntask \in [Service -> Nat] /\ \A t \in Service : ntask[t] <= Len(tasks[t])
  /\ held \in [Service -> SUBSET Clients]
  /\ lpc \in [Service -> {"wait", "work", "erase", "del", "drop", "tasks"}]
  /\ batch \in [Service -> SUBSET Clients] /\ cur \in [Service -> Clients \cup {None}]
  /\ chan \in [Service -> [Fds -> Clients \cup {None}]]
  /\ flag \in [Clients -> BOOLEAN] /\ watch \in [Clients -> {"no", "yes", "in"}]
  /\ user \subseteq Clients /\ refused \subseteq Clients

\* No pointer dangles: the pollers' maps, the channels a round has still to
\* serve and the queued add and update tasks hold bare pointers, and each of
\* them is to a connection that lives, under the descriptor it is filed by.
PointersAlive ==
  \A t \in Service :
    /\ \A f \in Fds : chan[t][f] # None => fd[chan[t][f]] = f
    /\ \A c \in batch[t] : fd[c] # None
    /\ \A k \in Tasks(t) : fd[k.c] # None

\* m_channel_map and epoll agree, so that assert_channel() finds no channel
\* that another connection left under a descriptor used again.
PollerAgrees ==
  \A c \in Clients : fd[c] # None =>
    \A t \in Service : chan[t][fd[c]] = c <=> watch[c] # "no" /\ service[c] = t

\* Descriptors are used again, but never early: an entry of m_conn_map stays
\* until the thread that closes this very connection takes it out; no new
\* connection overwrites it and no other one's removal erases it.
ErasedByOwner ==
  [][\A f \in Fds : m_conn_map[f] # None /\ m_conn_map'[f] # m_conn_map[f] =>
       /\ m_conn_map'[f] = None
       /\ \E t \in Service : cur[t] = m_conn_map[f] /\ lpc[t] = "erase"]_vars

\* The descriptor of a connection that its peer has reset is closed, and so is that
\* of one whose peer has closed its side, if no refused send() has taken EPOLLIN
\* from it; unless the user holds on to the connection.
EndedIsClosed ==
  \A c \in Clients :
    /\ fd[c] # None
    /\ peer[c] = "reset" \/ (peer[c] = "fin" /\ c \notin refused)
    ~> fd[c] = None \/ c \in user

\* A client in the backlog is accepted, also when descriptors ran out for a
\* while, unless the server is stopped.
ClientAccepted ==
  \A c \in Clients :
    []<>(Free # {}) =>
      ((\E i \in DOMAIN backlog : backlog[i] = c) ~>
         fd[c] # None \/ spc \in {"remove", "stopped"})

\* stop() takes effect: the acceptor leaves the poller, so that clients stay in
\* the backlog.
StopTakesEffect == spc = "stopped" ~> [](~acc.reg)
================================================================================

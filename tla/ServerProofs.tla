------------------------------ MODULE ServerProofs -----------------------------
(***************************************************************************)
(* Safety of tcp_server for any number of clients, threads and             *)
(* descriptors, with descriptors used again as soon as they are closed.    *)
(*                                                                         *)
(* The argument is about who may hold a connection at each point of its    *)
(* life.  A descriptor is open exactly as long as someone owns its         *)
(* connection (Ownership), no two connections share one (FdUnique), and a  *)
(* channel is known to epoll only from its add task to final_destory(),    *)
(* within which the map or the thread that removes it owns it (Watching).  *)
(* The tasks that carry a bare pointer are followed in their queue by the  *)
(* conn callback of the same connection, which owns it (Queued).           *)
(***************************************************************************)
EXTENDS Server, SequenceTheorems, TLAPS

\* Where on_new_conn() is at work on newc; c is in m_conn_map; its conn callback.
NewPcs == {"insert", "join", "read", "update", "conn", "return"}
InMap(c) == fd[c] # None /\ m_conn_map[fd[c]] = c
ConnOf(c) == [op |-> "conn", c |-> c]

\* A round of tasks has a task left.
Rounds ==
  /\ mpc = "tasks" => mleft > 0
  /\ \A t \in Service : lpc[t] = "tasks" => ntask[t] > 0

\* A descriptor is open as long as someone owns its connection, belongs to one
\* connection, and m_conn_map files connections under their own.
Ownership == \A c \in Clients : Owned(c) <=> fd[c] # None
FdUnique == \A c, d \in Clients : fd[c] # None /\ fd[c] = fd[d] => c = d
MapFiled == \A f \in Fds : m_conn_map[f] # None => fd[m_conn_map[f]] = f

\* Clients in the backlog wait there once and have no descriptor yet.
Waiting ==
  /\ \A i, j \in DOMAIN backlog : backlog[i] = backlog[j] => i = j
  /\ \A i \in DOMAIN backlog : fd[backlog[i]] = None /\ peer[backlog[i]] # "idle"
  /\ \A c \in Clients : peer[c] = "idle" => fd[c] = None

\* What on_new_conn() has and has not done with the new connection.
NewConn ==
  /\ newc # None <=> mpc \in NewPcs
  /\ mpc \in {"insert", "join"} =>
       /\ watch[newc] = "no"
       /\ \A t \in Service : cur[t] # newc /\ \A k \in Tasks(t) : k.c # newc
  /\ mpc = "insert" => \A f \in Fds : m_conn_map[f] # newc
  /\ mpc = "join" => InMap(newc)

\* A task is with the thread of its connection; one with a bare pointer has the
\* owning conn callback behind it, or start() is still to queue that.
Queued ==
  \A t \in Service : \A i \in DOMAIN tasks[t] :
    LET k == tasks[t][i]
    IN  /\ service[k.c] = t
        /\ k.op # "conn" =>
             \/ newc = k.c /\ mpc # "return"
             \/ \E j \in DOMAIN tasks[t] : j > i /\ tasks[t][j] = ConnOf(k.c)
        /\ k.op = "add" =>
             /\ watch[k.c] = "no" /\ InMap(k.c)
             /\ \A j \in DOMAIN tasks[t] : tasks[t][j] = k => j = i

\* A channel known to epoll is in m_channel_map, and its connection is in the
\* map or with the thread that removes it.
Watching ==
  \A c \in Clients : watch[c] # "no" =>
    /\ fd[c] # None /\ chan[service[c]][fd[c]] = c
    /\ InMap(c) \/ (cur[service[c]] = c /\ lpc[service[c]] = "del")

\* m_channel_map holds channels that epoll knows, of the same thread.
Filed ==
  \A t \in Service, f \in Fds :
    LET c == chan[t][f] IN c # None => fd[c] = f /\ watch[c] # "no" /\ service[c] = t

\* The channels of a round that still wait are of connections in the map.
Batches ==
  \A t \in Service :
    /\ \A c \in batch[t] : service[c] = t /\ watch[c] # "no" /\ InMap(c) /\ cur[t] # c
    /\ batch[t] # {} => lpc[t] \in {"work", "erase", "del", "drop"}

\* How far the thread is with the connection it closes.
Current ==
  \A t \in Service :
    /\ cur[t] # None <=> lpc[t] \in {"erase", "del", "drop"}
    /\ cur[t] # None => service[cur[t]] = t
    /\ lpc[t] = "erase" => InMap(cur[t])
    /\ lpc[t] \in {"erase", "del"} => watch[cur[t]] # "no"
    /\ lpc[t] \in {"del", "drop"} => \A f \in Fds : m_conn_map[f] # cur[t]
    /\ lpc[t] = "drop" => watch[cur[t]] = "no"

\* The inductive invariant.
Safe == /\ Ownership /\ FdUnique /\ MapFiled /\ Waiting /\ NewConn /\ Queued
        /\ Watching /\ Filed /\ Batches /\ Current
IInv == TypeOK /\ Rounds /\ Safe

-------------------------------------------------------------------------------
(* Types and rounds.                                                       *)

\* The range of the acceptor's record after each of the poller's calls.
LEMMA AppliedType ==
  ASSUME TypeOK, NEW op \in {"add", "update", "del"}
  PROVE  Applied(op) \in [evt : SUBSET ReadFlags, reg : BOOLEAN, interest : SUBSET ReadFlags,
                          listens : BOOLEAN]
BY DEF TypeOK, Applied

\* A step of the thread that readies or stops the server keeps them.
LEMMA TypeSetup == TypeOK /\ Rounds /\ (SetupNext \/ StopNext) => TypeOK' /\ Rounds'
<1> SUFFICES ASSUME TypeOK, Rounds, SetupNext \/ StopNext PROVE TypeOK' /\ Rounds'
  OBVIOUS
<1>a. UNCHANGED <<mleft, mpc, events, newc, index, backlog, peer, fd, service, m_conn_map,
                  tasks, ntask, held, lpc, batch, cur, chan, watch, flag, user, refused>>
  BY DEF SetupNext, StopNext, Construct, Listen, EnableReadFlags, EnableRead, UpdateChannel,
         StopRead, StopRemove, SetupKeeps, poolvars
<1>b. /\ spc' \in {"ctor", "listen", "read_flags", "enable", "update", "up", "remove", "stopped"}
      /\ snap' \subseteq ReadFlags
  BY DEF SetupNext, StopNext, Construct, Listen, EnableReadFlags, EnableRead, UpdateChannel,
         StopRead, StopRemove, TypeOK
<1>c. acc' \in [evt : SUBSET ReadFlags, reg : BOOLEAN, interest : SUBSET ReadFlags,
                listens : BOOLEAN]
  <2>1. \/ acc' = acc
        \/ \E op \in {"add", "update"} : acc' = Applied(op)
        \/ acc' = [acc EXCEPT !.listens = TRUE]
        \/ acc' = [acc EXCEPT !.evt = snap \cup ReadFlags]
        \/ acc' = [acc EXCEPT !.evt = @ \cap ReadFlags]
    BY DEF SetupNext, StopNext, Construct, Listen, EnableReadFlags, EnableRead,
           UpdateChannel, StopRead, StopRemove
  <2>2. snap \cup ReadFlags \in SUBSET ReadFlags /\ acc.evt \cap ReadFlags \in SUBSET ReadFlags
    BY DEF TypeOK
  <2>3. acc \in [evt : SUBSET ReadFlags, reg : BOOLEAN, interest : SUBSET ReadFlags,
                 listens : BOOLEAN]
    BY DEF TypeOK
  <2> QED BY <2>1, <2>2, <2>3, AppliedType
<1>d. /\ mtasks' \in Seq({"add", "update", "del"})
      /\ Len(mtasks) \in Nat /\ Len(mtasks') \in Nat /\ Len(mtasks) <= Len(mtasks')
  <2>1. mtasks' = mtasks \/ \E o \in {"add", "update", "del"} : mtasks' = Append(mtasks, o)
    BY DEF SetupNext, StopNext, Construct, Listen, EnableReadFlags, EnableRead, UpdateChannel,
           StopRead, StopRemove
  <2>2. mtasks \in Seq({"add", "update", "del"})
    BY DEF TypeOK
  <2> QED BY <2>1, <2>2, AppendProperties, LenProperties
<1>e. mleft' \in 0 .. Len(mtasks')
  BY <1>a, <1>d DEF TypeOK
<1> QED BY <1>a, <1>b, <1>c, <1>d, <1>e DEF TypeOK, Rounds

\* A step of the main loop keeps them.
LEMMA TypeMain == TypeOK /\ Rounds /\ NewConn /\ Ownership /\ MainNext => TypeOK' /\ Rounds'
<1> SUFFICES ASSUME TypeOK, Rounds, NewConn, Ownership, MainNext PROVE TypeOK' /\ Rounds'
  OBVIOUS
<1>a. newc # None => newc \in Clients
  BY DEF TypeOK
<1>1. CASE MainPoll
  <2>1. events' \subseteq ReadFlags
    BY <1>1 DEF MainPoll, AcceptorEvents, ReadFlags
  <2> QED BY <1>1, <2>1 DEF MainPoll, MainKeeps, poolvars, TypeOK, Rounds
<1>2. CASE SaveEvtStatus
  <2>1. acc' \in [evt : SUBSET ReadFlags, reg : BOOLEAN, interest : SUBSET ReadFlags,
                  listens : BOOLEAN]
    BY <1>2 DEF SaveEvtStatus, TypeOK
  <2> QED BY <1>2, <2>1 DEF SaveEvtStatus, MainKeeps, poolvars, TypeOK, Rounds
<1>3. CASE Accept
  <2>1. /\ backlog' \in Seq(Clients) /\ newc' \in Clients \cup {None}
        /\ fd' \in [Clients -> Fds \cup {None}] /\ mpc' \in {"insert", "swap"}
    <3>1. CASE "IN" \in acc.evt /\ backlog # <<>> /\ Free # {}
      <4>1. Head(backlog) \in Clients /\ Tail(backlog) \in Seq(Clients)
        BY <3>1 DEF TypeOK
      <4>2. PICK f \in Fds : fd' = [fd EXCEPT ![Head(backlog)] = f]
        BY <1>3, <3>1 DEF Accept
      <4>3. fd' \in [Clients -> Fds \cup {None}]
        BY <4>1, <4>2 DEF TypeOK
      <4> QED BY <1>3, <3>1, <4>1, <4>3 DEF Accept
    <3>2. CASE ~("IN" \in acc.evt /\ backlog # <<>> /\ Free # {})
      BY <1>3, <3>2 DEF Accept, TypeOK
    <3> QED BY <3>1, <3>2
  <2> QED BY <1>3, <2>1 DEF Accept, MainKeeps, poolvars, TypeOK, Rounds
<1>4. CASE OnNewConn
  <2>1. newc \in Clients /\ fd[newc] \in Fds
    <3>1. newc \in Clients
      BY <1>a, <1>4 DEF OnNewConn, NewConn, NewPcs
    <3>2. fd[newc] # None
      BY <3>1 DEF Ownership, Owned
    <3> QED BY <3>1, <3>2 DEF TypeOK
  <2>2. m_conn_map' \in [Fds -> Clients \cup {None}]
    BY <1>4, <2>1 DEF OnNewConn, TypeOK
  <2>3. service' \in [Clients -> Service] /\ index' \in 0 .. m_size
    BY <1>4, <2>1, ServerAssumption DEF OnNewConn, TypeOK, Service
  <2> QED BY <1>4, <2>2, <2>3 DEF OnNewConn, MainKeeps, poolvars, TypeOK, Rounds
<1>5. CASE JoinToService \/ StartUpdate \/ QueueConnCallback
  <2>1. PICK op \in {"add", "update", "conn"} : Queue(op)
    BY <1>5 DEF JoinToService, StartUpdate, QueueConnCallback
  <2>2. newc \in Clients /\ service[newc] \in Service
    BY <1>a, <1>5 DEF JoinToService, StartUpdate, QueueConnCallback, NewConn, NewPcs, TypeOK
  <2>3. [op |-> op, c |-> newc] \in [op : {"add", "update", "conn"}, c : Clients]
    BY <2>2
  <2>4. /\ tasks' \in [Service -> Seq([op : {"add", "update", "conn"}, c : Clients])]
        /\ \A t \in Service : ntask[t] <= Len(tasks'[t])
    <3> DEFINE K == [op : {"add", "update", "conn"}, c : Clients]
               k == [op |-> op, c |-> newc]
    <3>1. k \in K /\ tasks \in [Service -> Seq(K)] /\ tasks' = [tasks EXCEPT ![service[newc]] = Append(@, k)]
          /\ ntask \in [Service -> Nat] /\ \A t \in Service : ntask[t] <= Len(tasks[t])
      BY <2>1, <2>3 DEF Queue, TypeOK
    <3> HIDE DEF K, k
    <3>2. \A t \in Service : /\ Append(tasks[t], k) \in Seq(K) /\ Len(tasks[t]) \in Nat
                            /\ Len(Append(tasks[t], k)) = Len(tasks[t]) + 1
      BY <3>1, AppendProperties, LenProperties
    <3>3. tasks' \in [Service -> Seq(K)]
      BY <2>2, <3>1, <3>2
    <3>4. ASSUME NEW t \in Service PROVE ntask[t] <= Len(tasks'[t])
      <4>1. CASE t = service[newc]
        <5>1. tasks'[t] = Append(tasks[t], k)
          BY <3>1, <4>1
        <5> QED BY <3>1, <3>2, <5>1
      <4>2. CASE t # service[newc]
        <5>1. tasks'[t] = tasks[t]
          BY <3>1, <4>2
        <5> QED BY <3>1, <5>1
      <4> QED BY <4>1, <4>2
    <3> QED BY <3>3, <3>4 DEF K
  <2>5. flag' \in [Clients -> BOOLEAN]
    BY <1>5 DEF JoinToService, StartUpdate, QueueConnCallback, TypeOK
  <2>6. mpc' \in {"read", "conn", "return"}
    BY <1>5 DEF JoinToService, StartUpdate, QueueConnCallback
  <2>7. StartKeeps
    BY <1>5 DEF JoinToService, StartUpdate, QueueConnCallback
  <2> QED BY <2>4, <2>5, <2>6, <2>7 DEF StartKeeps, TypeOK, Rounds
<1>9. CASE StartRead
  <2>1. /\ flag' \in [Clients -> BOOLEAN] /\ mpc' = "update" /\ tasks' = tasks
        /\ UNCHANGED <<spc, snap, acc, mtasks, mleft, events, newc, index, backlog, peer, fd,
                       service, m_conn_map, ntask, held, lpc, batch, cur, chan, watch, user,
                       refused>>
    BY <1>9 DEF StartRead, StartKeeps, TypeOK
  <2> QED BY <2>1 DEF TypeOK, Rounds
<1>6. CASE NewConnReturns
  <2>1. fd' \in [Clients -> Fds \cup {None}]
    BY <1>6 DEF NewConnReturns, Unref, TypeOK
  <2> QED BY <1>6, <2>1 DEF NewConnReturns, MainKeeps, poolvars, TypeOK, Rounds
<1>7. CASE MainSwap
  <2>1. Len(mtasks) \in Nat /\ (mtasks # <<>> => Len(mtasks) > 0)
    BY DEF TypeOK
  <2>2. /\ mleft' = Len(mtasks) /\ mtasks' = mtasks /\ mpc' \in {"wait", "tasks"}
        /\ mpc' = "tasks" => mtasks # <<>>
        /\ UNCHANGED <<acc, events, newc, index, backlog, fd, service, m_conn_map, flag,
                       spc, snap, peer, tasks, ntask, held, lpc, batch, cur, chan, watch, user,
                       refused>>
    BY <1>7 DEF MainSwap, MainKeeps, poolvars
  <2>3. mleft' \in 0 .. Len(mtasks') /\ (mpc' = "tasks" => mleft' > 0)
    BY <2>1, <2>2
  <2> QED BY <2>2, <2>3 DEF TypeOK, Rounds
<1>8. CASE MainTask
  <2>1. mleft \in Nat /\ mleft > 0 /\ Len(mtasks) \in Nat /\ mleft <= Len(mtasks)
    BY <1>8 DEF MainTask, Rounds, TypeOK
  <2>2. /\ Head(mtasks) \in {"add", "update", "del"} /\ Tail(mtasks) \in Seq({"add", "update", "del"})
        /\ Len(Tail(mtasks)) = Len(mtasks) - 1
    BY <2>1 DEF TypeOK
  <2>3. acc' \in [evt : SUBSET ReadFlags, reg : BOOLEAN, interest : SUBSET ReadFlags,
                  listens : BOOLEAN]
    BY <1>8, <2>2, AppliedType DEF MainTask
  <2>4. mleft' \in 0 .. Len(mtasks') /\ mpc' \in {"wait", "tasks"} /\ (mpc' = "tasks" => mleft' > 0)
    BY <1>8, <2>1, <2>2 DEF MainTask
  <2> QED BY <1>8, <2>2, <2>3, <2>4 DEF MainTask, MainKeeps, poolvars, TypeOK, Rounds
<1> QED BY <1>1, <1>2, <1>3, <1>4, <1>5, <1>6, <1>7, <1>8, <1>9 DEF MainNext

\* What running the next task leaves of the queues and the rounds.
LEMMA NextTaskType ==
  ASSUME TypeOK, Rounds, NEW t \in Service, NEW c \in Clients,
         NEW op \in {"add", "update", "conn"}, NextTask(t, op, c)
  PROVE  /\ tasks' \in [Service -> Seq([op : {"add", "update", "conn"}, c : Clients])]
         /\ ntask' \in [Service -> Nat] /\ \A u \in Service : ntask'[u] <= Len(tasks'[u])
         /\ held' \in [Service -> SUBSET Clients]
         /\ lpc' \in [Service -> {"wait", "work", "erase", "del", "drop", "tasks"}]
         /\ \A u \in Service : lpc'[u] = "tasks" => ntask'[u] > 0
<1> DEFINE K == [op : {"add", "update", "conn"}, c : Clients]
<1>1. /\ tasks \in [Service -> Seq(K)] /\ ntask \in [Service -> Nat]
      /\ \A u \in Service : ntask[u] <= Len(tasks[u])
      /\ held \in [Service -> SUBSET Clients]
      /\ lpc \in [Service -> {"wait", "work", "erase", "del", "drop", "tasks"}]
      /\ \A u \in Service : lpc[u] = "tasks" => ntask[u] > 0
  BY DEF TypeOK, Rounds
<1>2. /\ lpc[t] = "tasks" /\ tasks' = [tasks EXCEPT ![t] = Tail(@)]
      /\ ntask' = [ntask EXCEPT ![t] = @ - 1]
      /\ lpc' = [lpc EXCEPT ![t] = IF ntask[t] = 1 THEN "wait" ELSE @]
      /\ held' \in [Service -> SUBSET Clients]
  BY <1>1 DEF NextTask
<1> HIDE DEF K
<1>3. Len(tasks[t]) \in Nat /\ ntask[t] \in Nat /\ ntask[t] > 0 /\ ntask[t] <= Len(tasks[t])
  BY <1>1, <1>2, LenProperties
<1>4. tasks[t] # <<>>
  BY <1>3, EmptySeq
<1>5. Tail(tasks[t]) \in Seq(K) /\ Len(Tail(tasks[t])) = Len(tasks[t]) - 1
  BY <1>1, <1>4, HeadTailProperties
<1>6. tasks' \in [Service -> Seq(K)] /\ ntask' \in [Service -> Nat]
  BY <1>1, <1>2, <1>3, <1>5
<1>7. ASSUME NEW u \in Service
      PROVE  ntask'[u] <= Len(tasks'[u]) /\ (lpc'[u] = "tasks" => ntask'[u] > 0)
  <2>1. CASE u = t
    <3>1. /\ ntask'[u] = ntask[t] - 1 /\ tasks'[u] = Tail(tasks[t])
          /\ lpc'[u] = IF ntask[t] = 1 THEN "wait" ELSE "tasks"
      BY <1>1, <1>2, <2>1
    <3> QED BY <1>3, <1>5, <3>1
  <2>2. CASE u # t
    <3>1. ntask'[u] = ntask[u] /\ tasks'[u] = tasks[u] /\ lpc'[u] = lpc[u]
      BY <1>1, <1>2, <2>2
    <3> QED BY <1>1, <3>1
  <2> QED BY <2>1, <2>2
<1> QED BY <1>1, <1>2, <1>6, <1>7 DEF K

\* The main loop's part of the types and rounds depends on its variables only.
TypeLoop ==
  /\ spc \in {"ctor", "listen", "read_flags", "enable", "update", "up", "remove", "stopped"}
  /\ snap \subseteq ReadFlags /\ events \subseteq ReadFlags
  /\ acc \in [evt : SUBSET ReadFlags, reg : BOOLEAN, interest : SUBSET ReadFlags,
              listens : BOOLEAN]
  /\ mtasks \in Seq({"add", "update", "del"}) /\ mleft \in 0 .. Len(mtasks)
  /\ mpc \in {"wait", "save", "work", "insert", "join", "read", "update", "conn", "return",
             "swap", "tasks"}
  /\ newc \in Clients \cup {None} /\ index \in 0 .. m_size
  /\ mpc = "tasks" => mleft > 0

\* What steps outside the main loop have to show of the ranges and the rounds.
LEMMA TypeRest ==
  ASSUME TypeOK, Rounds,
         UNCHANGED <<spc, snap, acc, mtasks, mleft, mpc, events, newc, index, service>>,
         flag' \in [Clients -> BOOLEAN], refused' \subseteq Clients,
         backlog' \in Seq(Clients), peer' \in [Clients -> {"idle", "up", "fin", "reset"}],
         fd' \in [Clients -> Fds \cup {None}], m_conn_map' \in [Fds -> Clients \cup {None}],
         tasks' \in [Service -> Seq([op : {"add", "update", "conn"}, c : Clients])],
         ntask' \in [Service -> Nat], held' \in [Service -> SUBSET Clients],
         lpc' \in [Service -> {"wait", "work", "erase", "del", "drop", "tasks"}],
         \A u \in Service : ntask'[u] <= Len(tasks'[u]) /\ (lpc'[u] = "tasks" => ntask'[u] > 0),
         batch' \in [Service -> SUBSET Clients], cur' \in [Service -> Clients \cup {None}],
         chan' \in [Service -> [Fds -> Clients \cup {None}]],
         watch' \in [Clients -> {"no", "yes", "in"}], user' \subseteq Clients
  PROVE  TypeOK' /\ Rounds'
<1>1. TypeLoop
  BY DEF TypeLoop, TypeOK, Rounds
<1>2. TypeLoop'
  BY <1>1, Zenon DEF TypeLoop
<1>3. service' \in [Clients -> Service]
  BY DEF TypeOK
<1>4. Rounds'
  BY <1>2 DEF Rounds, TypeLoop
<1>5. TypeOK'
  BY <1>2, <1>3, Zenon DEF TypeOK, TypeLoop
<1> QED BY <1>4, <1>5

\* What a step of a pool thread that runs no task leaves alone: the main loop,
\* and the rounds of tasks.
LEMMA TypePoolRest ==
  ASSUME TypeOK, Rounds, NEW t \in Service, NEW pc \in {"wait", "work", "erase", "del", "drop"},
         lpc' = [lpc EXCEPT ![t] = pc], PoolKeeps, UNCHANGED <<tasks, ntask, held>>,
         fd' \in [Clients -> Fds \cup {None}], m_conn_map' \in [Fds -> Clients \cup {None}],
         batch' \in [Service -> SUBSET Clients], cur' \in [Service -> Clients \cup {None}],
         chan' \in [Service -> [Fds -> Clients \cup {None}]],
         watch' \in [Clients -> {"no", "yes", "in"}], user' \subseteq Clients
  PROVE  TypeOK' /\ Rounds'
<1>1. /\ lpc' \in [Service -> {"wait", "work", "erase", "del", "drop", "tasks"}]
      /\ \A u \in Service : lpc'[u] = "tasks" => lpc[u] = "tasks"
  BY DEF TypeOK
<1>2. /\ UNCHANGED <<spc, snap, acc, mtasks, mleft, mpc, events, newc, index, backlog, peer,
                     service>>
      /\ flag' = flag /\ refused' = refused
  BY DEF PoolKeeps, mainvars
<1>3. /\ backlog' \in Seq(Clients) /\ peer' \in [Clients -> {"idle", "up", "fin", "reset"}]
      /\ tasks' \in [Service -> Seq([op : {"add", "update", "conn"}, c : Clients])]
      /\ ntask' \in [Service -> Nat] /\ held' \in [Service -> SUBSET Clients]
      /\ \A u \in Service : ntask'[u] <= Len(tasks'[u])
      /\ flag' \in [Clients -> BOOLEAN] /\ refused' \subseteq Clients
  BY <1>2 DEF TypeOK
<1>4. \A u \in Service : lpc'[u] = "tasks" => ntask'[u] > 0
  BY <1>1 DEF Rounds
<1> QED BY <1>1, <1>2, <1>3, <1>4, TypeRest

\* The range of m_channel_map after an entry of one poller was written.
LEMMA ChanType ==
  ASSUME TypeOK, NEW t \in Service, NEW f \in Fds, NEW c \in Clients \cup {None},
         chan' = [chan EXCEPT ![t][f] = c]
  PROVE  chan' \in [Service -> [Fds -> Clients \cup {None}]]
<1>1. chan \in [Service -> [Fds -> Clients \cup {None}]] /\ chan[t] \in [Fds -> Clients \cup {None}]
  BY DEF TypeOK
<1>2. [chan[t] EXCEPT ![f] = c] \in [Fds -> Clients \cup {None}]
  BY <1>1
<1> QED BY <1>1, <1>2

\* A connection that someone holds has a descriptor.
LEMMA OwnedHasFd ==
  ASSUME TypeOK, Ownership, NEW c \in Clients, Owned(c) PROVE fd[c] \in Fds /\ fd[c] # None
<1>1. fd[c] # None
  BY DEF Ownership
<1> QED BY <1>1 DEF TypeOK

\* The connection of a task is owned.
LEMMA TaskOwned ==
  ASSUME TypeOK, Queued, NEW t \in Service, NEW i \in DOMAIN tasks[t]
  PROVE  tasks[t][i].c \in Clients /\ Owned(tasks[t][i].c) /\ service[tasks[t][i].c] = t
<1> DEFINE k == tasks[t][i]
<1>1. k \in [op : {"add", "update", "conn"}, c : Clients]
  <2> DEFINE K == [op : {"add", "update", "conn"}, c : Clients]
  <2>1. tasks[t] \in Seq(K)
    BY DEF TypeOK
  <2> HIDE DEF K
  <2>2. tasks[t][i] \in K
    BY <2>1, ElementOfSeq, LenProperties
  <2> QED BY <2>2 DEF K
<1>2. service[k.c] = t /\ (k.op # "conn" =>
             newc = k.c \/ \E j \in DOMAIN tasks[t] : j > i /\ tasks[t][j] = ConnOf(k.c))
  BY DEF Queued
<1>3. CASE k.op = "conn"
  <2>1. k = ConnOf(k.c)
    BY <1>1, <1>3 DEF ConnOf
  <2> QED BY <1>1, <1>2, <2>1 DEF Owned, Tasks, ConnOf
<1>4. CASE k.op # "conn"
  <2>1. newc = k.c \/ \E j \in DOMAIN tasks[t] : tasks[t][j] = ConnOf(k.c)
    BY <1>2, <1>4
  <2> QED BY <1>1, <1>2, <2>1 DEF Owned, Tasks, ConnOf
<1> QED BY <1>3, <1>4

\* The next task of a round is the first of the queue.
LEMMA HeadTask ==
  ASSUME TypeOK, Rounds, NEW t \in Service, NEW op, NEW c, NextTask(t, op, c)
  PROVE  /\ Len(tasks[t]) \in Nat /\ Len(tasks[t]) >= 1 /\ tasks[t] # <<>>
         /\ DOMAIN tasks[t] = 1 .. Len(tasks[t])
         /\ tasks[t][1] = [op |-> op, c |-> c]
<1> DEFINE K == [op : {"add", "update", "conn"}, c : Clients]
<1>1. tasks[t] \in Seq(K) /\ ntask[t] \in Nat /\ ntask[t] <= Len(tasks[t])
  BY DEF TypeOK
<1>2. ntask[t] > 0 /\ Head(tasks[t]) = [op |-> op, c |-> c]
  BY DEF NextTask, Rounds
<1> HIDE DEF K
<1>3. Len(tasks[t]) \in Nat /\ DOMAIN tasks[t] = 1 .. Len(tasks[t])
  BY <1>1, LenProperties
<1>4. Len(tasks[t]) >= 1
  BY <1>1, <1>2, <1>3
<1> QED BY <1>1, <1>2, <1>3, <1>4, EmptySeq, HeadTailProperties

\* A step of a pool thread keeps the ranges and the rounds.
LEMMA TypePool ==
  TypeOK /\ Rounds /\ Ownership /\ Queued /\ Current /\ (\E t \in Service : PoolNext(t))
    => TypeOK' /\ Rounds'
<1> SUFFICES ASSUME TypeOK, Rounds, Ownership, Queued, Current, NEW t \in Service, PoolNext(t)
             PROVE  TypeOK' /\ Rounds'
  OBVIOUS
<1>a. lpc[t] \in {"erase", "del", "drop"} => cur[t] \in Clients /\ fd[cur[t]] \in Fds
  <2> SUFFICES ASSUME lpc[t] \in {"erase", "del", "drop"} PROVE cur[t] \in Clients /\ fd[cur[t]] \in Fds
    OBVIOUS
  <2>1. cur[t] \in Clients
    BY DEF Current, TypeOK
  <2>2. fd[cur[t]] # None
    BY <2>1 DEF Ownership, Owned
  <2> QED BY <2>1, <2>2 DEF TypeOK
<1>b. /\ fd \in [Clients -> Fds \cup {None}] /\ m_conn_map \in [Fds -> Clients \cup {None}]
      /\ batch \in [Service -> SUBSET Clients] /\ cur \in [Service -> Clients \cup {None}]
      /\ chan \in [Service -> [Fds -> Clients \cup {None}]]
      /\ watch \in [Clients -> {"no", "yes", "in"}] /\ user \subseteq Clients
      /\ lpc \in [Service -> {"wait", "work", "erase", "del", "drop", "tasks"}]
  BY DEF TypeOK
<1>1. CASE Poll(t)
  <2>1. batch' \in [Service -> SUBSET Clients]
    BY <1>1 DEF Poll, Ready, TypeOK
  <2> QED BY <1>1, <1>b, <2>1, TypePoolRest DEF Poll
<1>2. CASE OnRemoveConn(t)
  <2>1. m_conn_map' \in [Fds -> Clients \cup {None}]
    BY <1>a, <1>2 DEF OnRemoveConn, TypeOK
  <2> QED BY <1>2, <1>b, <2>1, TypePoolRest DEF OnRemoveConn
<1>3. CASE FinalDestory(t)
  <2>1. chan' \in [Service -> [Fds -> Clients \cup {None}]]
    BY <1>a, <1>b, <1>3, ChanType DEF FinalDestory
  <2>2. watch' \in [Clients -> {"no", "yes", "in"}]
    BY <1>a, <1>3 DEF FinalDestory, TypeOK
  <2> QED BY <1>3, <1>b, <2>1, <2>2, TypePoolRest DEF FinalDestory
<1>4. CASE WorkReturns(t)
  <2>1. fd' \in [Clients -> Fds \cup {None}]
    BY <1>4 DEF WorkReturns, Unref, TypeOK
  <2>2. cur' \in [Service -> Clients \cup {None}]
    BY <1>4 DEF WorkReturns, TypeOK
  <2> QED BY <1>4, <1>b, <2>1, <2>2, TypePoolRest DEF WorkReturns
<1>5. CASE SwapPending(t)
  <2>1. tasks[t] \in Seq([op : {"add", "update", "conn"}, c : Clients])
    BY DEF TypeOK
  <2>2. Len(tasks[t]) \in Nat /\ (tasks[t] # <<>> => Len(tasks[t]) > 0)
    BY <2>1
  <2>3. /\ ntask' = [ntask EXCEPT ![t] = Len(tasks[t])]
        /\ lpc' = [lpc EXCEPT ![t] = IF tasks[t] = <<>> THEN "wait" ELSE "tasks"]
        /\ tasks' = tasks
    BY <1>5 DEF SwapPending
  <2>4. /\ ntask' \in [Service -> Nat]
        /\ lpc' \in [Service -> {"wait", "work", "erase", "del", "drop", "tasks"}]
    BY <2>2, <2>3 DEF TypeOK
  <2>5. ASSUME NEW u \in Service
        PROVE  ntask'[u] <= Len(tasks'[u]) /\ (lpc'[u] = "tasks" => ntask'[u] > 0)
    <3>1. CASE u = t
      <4>1. /\ ntask'[u] = Len(tasks[t]) /\ tasks'[u] = tasks[t]
            /\ lpc'[u] = "tasks" => tasks[t] # <<>>
        BY <2>3, <3>1 DEF TypeOK
      <4> QED BY <2>2, <4>1
    <3>2. CASE u # t
      <4>1. ntask'[u] = ntask[u] /\ tasks'[u] = tasks[u] /\ lpc'[u] = lpc[u]
        BY <2>3, <3>2 DEF TypeOK
      <4> QED BY <4>1 DEF TypeOK, Rounds
    <3> QED BY <3>1, <3>2
  <2>6. UNCHANGED <<fd, m_conn_map, tasks, held, batch, cur, chan, watch, user, spc, snap,
                    acc, mtasks, mleft, mpc, events, newc, index, backlog, peer, service, flag,
                    refused>>
    BY <1>5 DEF SwapPending, PoolKeeps, mainvars
  <2>7. /\ backlog' \in Seq(Clients) /\ peer' \in [Clients -> {"idle", "up", "fin", "reset"}]
        /\ tasks' \in [Service -> Seq([op : {"add", "update", "conn"}, c : Clients])]
        /\ held' \in [Service -> SUBSET Clients]
        /\ flag' \in [Clients -> BOOLEAN] /\ refused' \subseteq Clients
    BY <2>6 DEF TypeOK
  <2> QED BY <1>b, <2>4, <2>5, <2>6, <2>7, TypeRest
<1>6. ASSUME NEW c \in Clients, ProcessWork(t, c) PROVE TypeOK' /\ Rounds'
  <2>1. batch' \in [Service -> SUBSET Clients] /\ cur' \in [Service -> Clients \cup {None}]
    BY <1>6 DEF ProcessWork, TypeOK
  <2>2. \E pc \in {"work", "erase"} : lpc' = [lpc EXCEPT ![t] = pc]
    BY <1>b, <1>6 DEF ProcessWork
  <2>3. user' \subseteq Clients
    BY <1>6 DEF ProcessWork, Keeping, TypeOK
  <2> QED BY <1>6, <1>b, <2>1, <2>2, <2>3, TypePoolRest DEF ProcessWork
<1>7. ASSUME NEW c \in Clients, NEW op \in {"add", "update", "conn"}, NextTask(t, op, c),
             AddTask(t, c) \/ UpdateTask(t, c) \/ ConnTask(t, c)
      PROVE  TypeOK' /\ Rounds'
  <2>1. fd' \in [Clients -> Fds \cup {None}]
    BY <1>7 DEF AddTask, UpdateTask, ConnTask, Unref, TypeOK
  <2>2. watch' \in [Clients -> {"no", "yes", "in"}]
    BY <1>7 DEF AddTask, UpdateTask, ConnTask, Asked, TypeOK
  <2>3. chan' \in [Service -> [Fds -> Clients \cup {None}]]
    <3>1. chan' = chan \/ chan' = [chan EXCEPT ![t][fd[c]] = c]
      BY <1>7 DEF AddTask, UpdateTask, ConnTask
    <3>2. 1 \in DOMAIN tasks[t] /\ tasks[t][1].c = c
      <4>1. /\ Len(tasks[t]) \in Nat /\ Len(tasks[t]) >= 1
            /\ DOMAIN tasks[t] = 1 .. Len(tasks[t]) /\ tasks[t][1] = [op |-> op, c |-> c]
        BY <1>7, HeadTask
      <4> QED BY <4>1
    <3>3. fd[c] \in Fds
      BY <3>2, TaskOwned, OwnedHasFd
    <3> QED BY <1>b, <3>1, <3>3, ChanType
  <2>4. user' \subseteq Clients
    BY <1>7 DEF AddTask, UpdateTask, ConnTask, Keeping, TypeOK
  <2>5. UNCHANGED <<m_conn_map, batch, cur, spc, snap, acc, mtasks, mleft, mpc, events, newc,
                    index, backlog, peer, service, flag, refused>>
    BY <1>7 DEF NextTask, PoolKeeps, mainvars
  <2>6. /\ tasks' \in [Service -> Seq([op : {"add", "update", "conn"}, c : Clients])]
        /\ ntask' \in [Service -> Nat] /\ \A u \in Service : ntask'[u] <= Len(tasks'[u])
        /\ held' \in [Service -> SUBSET Clients]
        /\ lpc' \in [Service -> {"wait", "work", "erase", "del", "drop", "tasks"}]
        /\ \A u \in Service : lpc'[u] = "tasks" => ntask'[u] > 0
    BY <1>7, NextTaskType
  <2>7. /\ backlog' \in Seq(Clients) /\ peer' \in [Clients -> {"idle", "up", "fin", "reset"}]
        /\ flag' \in [Clients -> BOOLEAN] /\ refused' \subseteq Clients
    BY <2>5 DEF TypeOK
  <2> QED BY <1>b, <2>1, <2>2, <2>3, <2>4, <2>5, <2>6, <2>7, TypeRest
<1> QED BY <1>1, <1>2, <1>3, <1>4, <1>5, <1>6, <1>7 DEF PoolNext, AddTask, UpdateTask, ConnTask

\* A step of a client or of the user's thread keeps the ranges and the rounds.
LEMMA TypeOutside == TypeOK /\ Rounds /\ OutsideNext => TypeOK' /\ Rounds'
<1> SUFFICES ASSUME TypeOK, Rounds, NEW c \in Clients,
                    \/ ClientConnects(c) \/ UserReleases(c)
                    \/ \E how \in {"fin", "reset"} : ClientEnds(c, how)
                    \/ \E t \in Service : RefusedSend(t, c)
             PROVE  TypeOK' /\ Rounds'
  BY DEF OutsideNext
<1>1. backlog' \in Seq(Clients)
  <2>1. backlog' = backlog \/ backlog' = Append(backlog, c)
    BY DEF ClientConnects, UserReleases, ClientEnds, RefusedSend, mainvars
  <2>2. backlog \in Seq(Clients)
    BY DEF TypeOK
  <2> QED BY <2>1, <2>2, AppendProperties
<1>2. user' \subseteq Clients
  BY DEF ClientConnects, UserReleases, ClientEnds, RefusedSend, TypeOK
<1>5. peer' \in [Clients -> {"idle", "up", "fin", "reset"}]
  <2>1. peer' = peer \/ \E how \in {"up", "fin", "reset"} : peer' = [peer EXCEPT ![c] = how]
    BY DEF ClientConnects, UserReleases, ClientEnds, RefusedSend
  <2> QED BY <2>1 DEF TypeOK
<1>3. fd' \in [Clients -> Fds \cup {None}]
  BY DEF ClientConnects, UserReleases, ClientEnds, RefusedSend, Unref, TypeOK
<1>4. UNCHANGED <<spc, snap, acc, mtasks, mleft, mpc, events, newc, index, service, m_conn_map,
                  tasks, ntask, held, lpc, batch, cur, chan>>
  BY DEF ClientConnects, UserReleases, ClientEnds, RefusedSend, ClientKeeps, poolvars, mainvars
<1>6. /\ m_conn_map' \in [Fds -> Clients \cup {None}]
      /\ tasks' \in [Service -> Seq([op : {"add", "update", "conn"}, c : Clients])]
      /\ ntask' \in [Service -> Nat] /\ held' \in [Service -> SUBSET Clients]
      /\ lpc' \in [Service -> {"wait", "work", "erase", "del", "drop", "tasks"}]
      /\ batch' \in [Service -> SUBSET Clients] /\ cur' \in [Service -> Clients \cup {None}]
      /\ chan' \in [Service -> [Fds -> Clients \cup {None}]]
  BY <1>4 DEF TypeOK
<1>7. \A u \in Service : ntask'[u] <= Len(tasks'[u]) /\ (lpc'[u] = "tasks" => ntask'[u] > 0)
  BY <1>4 DEF TypeOK, Rounds
<1>8. /\ watch' \in [Clients -> {"no", "yes", "in"}] /\ flag' \in [Clients -> BOOLEAN]
      /\ refused' \subseteq Clients
  <2>1. \/ UNCHANGED <<watch, flag, refused>>
        \/ /\ watch' = [watch EXCEPT ![c] = "yes"] /\ flag' = [flag EXCEPT ![c] = FALSE]
           /\ refused' = refused \cup {c}
    BY DEF ClientConnects, UserReleases, ClientEnds, RefusedSend, ClientKeeps, poolvars
  <2>2. /\ watch \in [Clients -> {"no", "yes", "in"}] /\ flag \in [Clients -> BOOLEAN]
        /\ refused \subseteq Clients
    BY DEF TypeOK
  <2>3. flag' \in [Clients -> BOOLEAN]
    BY <2>1, <2>2, Zenon
  <2> QED BY <2>1, <2>2, <2>3
<1> QED BY <1>1, <1>2, <1>3, <1>4, <1>5, <1>6, <1>7, <1>8, TypeRest
-------------------------------------------------------------------------------
(* Who owns what.                                                          *)

\* None is no client and no descriptor.
LEMMA NoneApart == None \notin Clients /\ None \notin Fds
BY ServerAssumption

\* The ranges that the arguments below need.
LEMMA Ranges ==
  ASSUME TypeOK
  PROVE  /\ fd \in [Clients -> Fds \cup {None}] /\ service \in [Clients -> Service]
         /\ cur \in [Service -> Clients \cup {None}] /\ batch \in [Service -> SUBSET Clients]
         /\ lpc \in [Service -> {"wait", "work", "erase", "del", "drop", "tasks"}]
         /\ watch \in [Clients -> {"no", "yes", "in"}]
         /\ chan \in [Service -> [Fds -> Clients \cup {None}]]
         /\ \A i \in DOMAIN backlog : backlog[i] \in Clients
<1>1. backlog \in Seq(Clients)
  BY DEF TypeOK
<1>2. \A i \in DOMAIN backlog : backlog[i] \in Clients
  BY <1>1, ElementOfSeq, LenProperties
<1> QED BY <1>2 DEF TypeOK

\* Before the server is made nothing is owned, filed, queued or watched.
LEMMA InitSafe == Init => IInv
<1> SUFFICES ASSUME Init PROVE IInv
  OBVIOUS
<1> USE DEF Init
<1>1. m_size \in Nat /\ m_size # 0 /\ 0 \in Service
  BY ServerAssumption DEF Service
<1>2. \A t \in Service : tasks[t] = <<>> /\ DOMAIN tasks[t] = {} /\ Tasks(t) = {}
  BY DEF Tasks
<1>3. TypeOK
  <2>1. /\ mtasks \in Seq({"add", "update", "del"}) /\ mleft \in 0 .. Len(mtasks)
        /\ backlog \in Seq(Clients)
        /\ tasks \in [Service -> Seq([op : {"add", "update", "conn"}, c : Clients])]
        /\ ntask \in [Service -> Nat] /\ \A t \in Service : ntask[t] <= Len(tasks[t])
    BY EmptySeq
  <2>2. /\ acc \in [evt : SUBSET ReadFlags, reg : BOOLEAN, interest : SUBSET ReadFlags,
                    listens : BOOLEAN]
        /\ service \in [Clients -> Service] /\ index \in 0 .. m_size
    BY <1>1
  <2>3. /\ held \in [Service -> SUBSET Clients] /\ batch \in [Service -> SUBSET Clients]
        /\ chan \in [Service -> [Fds -> Clients \cup {None}]]
        /\ flag \in [Clients -> BOOLEAN]
    OBVIOUS
  <2> QED BY <2>1, <2>2, <2>3 DEF TypeOK
<1>4. Rounds
  BY DEF Rounds
<1>5. Ownership
  BY <1>2, NoneApart DEF Ownership, Owned
<1>6. FdUnique /\ MapFiled /\ Waiting
  BY DEF FdUnique, MapFiled, Waiting
<1>7. NewConn /\ Queued
  BY <1>2 DEF NewConn, NewPcs, Queued
<1>8. Watching /\ Filed /\ Batches /\ Current
  BY DEF Watching, Filed, Batches, Current
<1> QED BY <1>3, <1>4, <1>5, <1>6, <1>7, <1>8 DEF IInv, Safe

\* Steps that touch no connection: of the main loop between connections, of the
\* thread that readies the server, and of a client that ends its connection.
LEMMA QuietStep ==
  ASSUME TypeOK, Safe, mpc \notin NewPcs, mpc' \notin NewPcs \/ mpc' = mpc,
         \A c \in Clients : peer[c] = "idle" <=> peer'[c] = "idle",
         UNCHANGED <<newc, backlog, fd, service, m_conn_map, tasks, held, lpc, batch, cur,
                     chan, watch, user>>
  PROVE  Safe'
<1> USE DEF Safe
<1>0. mpc' \notin NewPcs
  OBVIOUS
<1>1. Ownership' /\ FdUnique' /\ MapFiled'
  BY DEF Ownership, Owned, Tasks, FdUnique, MapFiled
<1>2. Waiting'
  <2>1. \A i \in DOMAIN backlog : backlog[i] \in Clients
    BY DEF TypeOK
  <2> QED BY <2>1 DEF Waiting
<1>3. NewConn'
  BY <1>0 DEF NewConn, NewPcs
<1>4. Queued'
  <2>1. mpc' # "return" /\ newc = newc' /\ \A c : InMap(c) <=> InMap(c)'
    BY <1>0 DEF NewPcs, InMap
  <2>2. \A t \in Service : \A i \in DOMAIN tasks[t] :
          tasks[t][i].op # "conn" => \E j \in DOMAIN tasks[t] : j > i /\ tasks[t][j] = ConnOf(tasks[t][i].c)
    <3> SUFFICES ASSUME NEW t \in Service, NEW i \in DOMAIN tasks[t], tasks[t][i].op # "conn"
                 PROVE  \E j \in DOMAIN tasks[t] : j > i /\ tasks[t][j] = ConnOf(tasks[t][i].c)
      OBVIOUS
    <3>1. tasks[t][i].c \in Clients
      BY TaskOwned
    <3>2. newc = None
      BY DEF NewConn
    <3> QED BY <3>1, <3>2, NoneApart DEF Queued
  <2> QED BY <2>1, <2>2 DEF Queued, ConnOf
<1>5. Watching' /\ Filed'
  BY DEF Watching, Filed, InMap
<1>6. Batches' /\ Current'
  BY DEF Batches, Current, InMap
<1> QED BY <1>1, <1>2, <1>3, <1>4, <1>5, <1>6

\* What dropping a connection_ptr does: descriptors that are still owned stay,
\* the others are closed, and the map is as it was.
LEMMA UnrefStep ==
  ASSUME TypeOK, TypeOK', Ownership, FdUnique, MapFiled, Unref, m_conn_map' = m_conn_map,
         \A c \in Clients : Owned(c)' => Owned(c)
  PROVE  /\ \A c \in Clients : Owned(c)' => fd'[c] = fd[c]
         /\ \A c \in Clients : fd'[c] # None => fd'[c] = fd[c]
         /\ \A c \in Clients : InMap(c) <=> InMap(c)'
         /\ Ownership' /\ FdUnique' /\ MapFiled'
<1>1. \A c \in Clients : fd'[c] = IF Owned(c)' THEN fd[c] ELSE None
  BY DEF Unref
<1>2. \A c \in Clients : Owned(c)' => fd[c] # None /\ fd'[c] = fd[c]
  BY <1>1 DEF Ownership
<1>3. \A c \in Clients : fd'[c] # None => fd'[c] = fd[c]
  BY <1>1
<1>4. \A f \in Fds : m_conn_map[f] # None => m_conn_map[f] \in Clients /\ Owned(m_conn_map[f])'
  BY DEF Owned, TypeOK
<1>5. ASSUME NEW c \in Clients PROVE InMap(c) <=> InMap(c)'
  <2>1. ASSUME InMap(c) PROVE InMap(c)'
    <3>1. fd[c] \in Fds /\ m_conn_map[fd[c]] = c /\ c # None /\ fd[c] # None
      BY <2>1, NoneApart DEF InMap, TypeOK
    <3>2. fd'[c] = fd[c]
      BY <1>2, <1>4, <3>1
    <3> QED BY <3>1, <3>2 DEF InMap
  <2>2. ASSUME InMap(c)' PROVE InMap(c)
    BY <1>3, <2>2 DEF InMap
  <2> QED BY <2>1, <2>2
<1>6. Ownership'
  BY <1>1, <1>2 DEF Ownership
<1>7. FdUnique'
  BY <1>3 DEF FdUnique
<1>8. MapFiled'
  BY <1>2, <1>4 DEF MapFiled
<1> QED BY <1>2, <1>3, <1>5, <1>6, <1>7, <1>8

-------------------------------------------------------------------------------
(* The main loop.                                                          *)

\* accept(): the client comes from the backlog, where it has no descriptor, so
\* nothing points to it, and it gets one that is free.
LEMMA AcceptStep ==
  ASSUME TypeOK, TypeOK', Safe, Accept PROVE Safe'
<1>1. CASE ~("IN" \in acc.evt /\ backlog # <<>> /\ Free # {})
  <2>1. mpc = "work" /\ mpc' = "swap"
    BY <1>1 DEF Accept
  <2>2. UNCHANGED <<newc, backlog, fd, service, m_conn_map, tasks, held, lpc, batch, cur,
                    chan, watch, user, peer>>
    BY <1>1 DEF Accept, MainKeeps, poolvars
  <2> QED BY <2>1, <2>2, QuietStep DEF NewPcs
<1>2. CASE "IN" \in acc.evt /\ backlog # <<>> /\ Free # {}
  <2> DEFINE c == Head(backlog)
  <2>1. PICK f \in Fds : f \in Free /\ fd' = [fd EXCEPT ![c] = f]
    BY <1>2 DEF Accept, Lowest
  <2>2. /\ mpc = "work" /\ mpc' = "insert" /\ newc' = c /\ backlog' = Tail(backlog)
        /\ UNCHANGED <<service, m_conn_map, tasks, held, lpc, batch, cur, chan, watch, user, peer>>
    BY <1>2 DEF Accept, MainKeeps, poolvars
  <2>3. /\ backlog \in Seq(Clients) /\ Len(backlog) \in Nat /\ Len(backlog) >= 1
        /\ DOMAIN backlog = 1 .. Len(backlog) /\ c = backlog[1] /\ c \in Clients
        /\ Len(Tail(backlog)) = Len(backlog) - 1
        /\ DOMAIN Tail(backlog) = 1 .. Len(backlog) - 1
        /\ \A i \in 1 .. Len(backlog) - 1 : Tail(backlog)[i] = backlog[i + 1]
    <3>1. backlog \in Seq(Clients)
      BY DEF TypeOK
    <3> QED BY <1>2, <3>1, HeadTailProperties, EmptySeq, LenProperties
  <2> HIDE DEF c
  <2>4. /\ fd[c] = None /\ fd'[c] = f /\ f # None
        /\ \A d \in Clients : d # c => fd'[d] = fd[d]
        /\ \A d \in Clients : fd[d] # f
    <3>1. fd[c] = None
      BY <2>3 DEF Safe, Waiting
    <3>2. \A d \in Clients : fd[d] # f
      BY <2>1 DEF Free
    <3> QED BY <2>1, <2>3, <3>1, <3>2, NoneApart DEF TypeOK
  <2>5. /\ ~Owned(c) /\ newc = None /\ watch[c] = "no"
        /\ \A g \in Fds : m_conn_map[g] # c
        /\ \A t \in Service : cur[t] # c
        /\ \A t \in Service : \A i \in DOMAIN tasks[t] : tasks[t][i].c # c
        /\ ~InMap(c)
    <3>1. ~Owned(c)
      BY <2>3, <2>4 DEF Safe, Ownership
    <3>2. newc = None
      BY <2>2 DEF Safe, NewConn, NewPcs
    <3>3. watch[c] = "no"
      BY <2>3, <2>4 DEF Safe, Watching
    <3>4. \A t \in Service : \A i \in DOMAIN tasks[t] : tasks[t][i].c # c
      BY <3>1, TaskOwned DEF Safe
    <3> QED BY <3>1, <3>2, <3>3, <3>4, <2>4 DEF Owned, InMap
  <2>6. \A d \in Clients : d # c => (InMap(d) <=> InMap(d)')
    BY <2>2, <2>4 DEF InMap
  <2>7. Ownership'
    <3> SUFFICES ASSUME NEW d \in Clients PROVE Owned(d)' <=> fd'[d] # None
      BY DEF Ownership
    <3>1. CASE d = c
      BY <2>2, <2>4, <3>1 DEF Owned
    <3>2. CASE d # c
      <4>1. Owned(d)' <=> Owned(d)
        BY <2>2, <2>3, <2>5, <3>2, NoneApart DEF Owned, Tasks
      <4> QED BY <2>4, <3>2, <4>1 DEF Safe, Ownership
    <3> QED BY <3>1, <3>2
  <2>8. FdUnique'
    BY <2>4 DEF Safe, FdUnique
  <2>9. MapFiled'
    BY <2>2, <2>4, <2>5 DEF Safe, MapFiled, TypeOK
  <2>10. Waiting'
    <3>1. \A i, j \in DOMAIN backlog' : backlog'[i] = backlog'[j] => i = j
      BY <2>2, <2>3 DEF Safe, Waiting
    <3>2. \A i \in DOMAIN backlog' :
            backlog'[i] \in Clients /\ backlog'[i] # c /\ fd[backlog'[i]] = None
              /\ peer[backlog'[i]] # "idle"
      <4> SUFFICES ASSUME NEW i \in 1 .. Len(backlog) - 1
                   PROVE  backlog[i + 1] \in Clients /\ backlog[i + 1] # c
                            /\ fd[backlog[i + 1]] = None /\ peer[backlog[i + 1]] # "idle"
        BY <2>2, <2>3
      <4>1. i + 1 \in DOMAIN backlog /\ 1 \in DOMAIN backlog /\ i + 1 # 1
        BY <2>3
      <4>2. backlog[i + 1] \in Clients
        BY <4>1, <2>3, ElementOfSeq
      <4> QED BY <4>1, <4>2, <2>3 DEF Safe, Waiting
    <3>3. peer[c] # "idle"
      BY <2>3 DEF Safe, Waiting
    <3> QED BY <2>2, <2>4, <3>1, <3>2, <3>3 DEF Safe, Waiting
  <2>11. NewConn'
    BY <2>2, <2>3, <2>5, NoneApart DEF NewConn, NewPcs, Tasks
  <2>12. Queued'
    <3> SUFFICES ASSUME NEW t \in Service, NEW i \in DOMAIN tasks[t]
                 PROVE  LET k == tasks[t][i]
                        IN  /\ service[k.c] = t
                            /\ k.op # "conn" =>
                                 \E j \in DOMAIN tasks[t] : j > i /\ tasks[t][j] = ConnOf(k.c)
                            /\ k.op = "add" =>
                                 /\ watch[k.c] = "no" /\ InMap(k.c)'
                                 /\ \A j \in DOMAIN tasks[t] : tasks[t][j] = k => j = i
      BY <2>2 DEF Queued, ConnOf
    <3>1. tasks[t][i].c \in Clients /\ tasks[t][i].c # c
      BY <2>5, TaskOwned DEF Safe
    <3>2. newc # tasks[t][i].c
      BY <2>5, <3>1, NoneApart
    <3>3. tasks[t][i].op = "add" => InMap(tasks[t][i].c)
      BY DEF Safe, Queued
    <3>4. tasks[t][i].op = "add" => InMap(tasks[t][i].c)'
      BY <2>2, <2>6, <3>1, <3>3
    <3> QED BY <2>2, <3>2, <3>4 DEF Safe, Queued
  <2>13. Watching'
    BY <2>2, <2>4, <2>5, <2>6 DEF Safe, Watching
  <2>14. Filed'
    <3>1. \A t \in Service, g \in Fds : chan[t][g] # None => chan[t][g] \in Clients
      BY DEF TypeOK
    <3> QED BY <2>2, <2>4, <2>5, <3>1 DEF Safe, Filed
  <2>15. Batches'
    <3>1. \A t \in Service : \A d \in batch[t] : d \in Clients /\ d # c
      BY <2>5 DEF TypeOK, Safe, Batches
    <3> QED BY <2>2, <2>6, <3>1 DEF Safe, Batches
  <2>16. Current'
    <3>1. \A t \in Service : cur[t] # None => cur[t] \in Clients /\ cur[t] # c
      BY <2>5 DEF TypeOK
    <3> QED BY <2>2, <2>6, <3>1 DEF Safe, Current
  <2> QED BY <2>7, <2>8, <2>9, <2>10, <2>11, <2>12, <2>13, <2>14, <2>15, <2>16 DEF Safe
<1> QED BY <1>1, <1>2

\* on_new_conn(): the entry under the descriptor is free, since a connection in
\* the map is filed under its own.
LEMMA OnNewConnStep ==
  ASSUME TypeOK, TypeOK', Safe, OnNewConn PROVE Safe'
<1> DEFINE c == newc
<1>1. /\ mpc = "insert" /\ mpc' = "join"
      /\ m_conn_map' = [m_conn_map EXCEPT ![fd[c]] = c]
      /\ UNCHANGED <<newc, backlog, fd, tasks, held, lpc, batch, cur, chan, watch, user, peer>>
      /\ \A d \in Clients : d # c => service'[d] = service[d]
  BY DEF OnNewConn, MainKeeps, poolvars, TypeOK
<1>2. /\ c \in Clients /\ c # None /\ watch[c] = "no"
      /\ \A t \in Service : cur[t] # c /\ \A k \in Tasks(t) : k.c # c
      /\ \A f \in Fds : m_conn_map[f] # c
  BY <1>1 DEF Safe, NewConn, NewPcs, TypeOK
<1>3. fd[c] \in Fds /\ fd[c] # None
  BY <1>2, OwnedHasFd DEF Safe, Owned
<1> HIDE DEF c
<1>4. m_conn_map[fd[c]] = None
  <2> SUFFICES ASSUME m_conn_map[fd[c]] # None PROVE FALSE
    OBVIOUS
  <2>1. m_conn_map[fd[c]] \in Clients /\ fd[m_conn_map[fd[c]]] = fd[c]
    BY <1>3 DEF Safe, MapFiled, TypeOK
  <2> QED BY <1>2, <1>3, <2>1 DEF Safe, FdUnique
<1>5. /\ m_conn_map'[fd[c]] = c
      /\ \A f \in Fds : f # fd[c] => m_conn_map'[f] = m_conn_map[f]
  BY <1>1, <1>3 DEF TypeOK
<1>6. \A d \in Clients : d # c => (InMap(d) <=> InMap(d)')
  <2> SUFFICES ASSUME NEW d \in Clients, d # c, fd[d] # None
               PROVE  m_conn_map[fd[d]] = d <=> m_conn_map'[fd[d]] = d
    BY <1>1 DEF InMap
  <2>1. fd[d] # fd[c] /\ fd[d] \in Fds
    BY <1>2, <1>3 DEF Safe, FdUnique, TypeOK
  <2> QED BY <1>5, <2>1
<1>7. InMap(c)'
  BY <1>1, <1>3, <1>5 DEF InMap, c
<1>8. Ownership'
  <2> SUFFICES ASSUME NEW d \in Clients PROVE Owned(d)' <=> Owned(d)
    BY <1>1 DEF Safe, Ownership
  <2>1. CASE d = c
    BY <1>1, <2>1 DEF Owned, c
  <2>2. CASE d # c
    <3>1. (\E f \in Fds : m_conn_map'[f] = d) <=> (\E f \in Fds : m_conn_map[f] = d)
      BY <1>3, <1>4, <1>5, <2>2, NoneApart
    <3> QED BY <1>1, <3>1 DEF Owned, Tasks
  <2> QED BY <2>1, <2>2
<1>9. FdUnique' /\ Waiting'
  BY <1>1 DEF Safe, FdUnique, Waiting
<1>10. MapFiled'
  BY <1>1, <1>3, <1>5 DEF Safe, MapFiled
<1>11. NewConn'
  BY <1>1, <1>2, <1>7 DEF NewConn, NewPcs, Tasks, c
<1>12. Queued'
  <2> SUFFICES ASSUME NEW t \in Service, NEW i \in DOMAIN tasks[t]
               PROVE  LET k == tasks[t][i]
                      IN  /\ service'[k.c] = t
                          /\ k.op # "conn" =>
                               \E j \in DOMAIN tasks[t] : j > i /\ tasks[t][j] = ConnOf(k.c)
                          /\ k.op = "add" =>
                               /\ watch[k.c] = "no" /\ InMap(k.c)'
                               /\ \A j \in DOMAIN tasks[t] : tasks[t][j] = k => j = i
    BY <1>1 DEF Queued, ConnOf
  <2>1. tasks[t][i].c \in Clients /\ tasks[t][i].c # c
    BY <1>2, TaskOwned DEF Safe, Tasks
  <2> QED BY <1>1, <1>6, <2>1 DEF Safe, Queued, c
<1>13. Watching'
  BY <1>1, <1>2, <1>6 DEF Safe, Watching
<1>14. Filed'
  <2>1. \A t \in Service, g \in Fds :
          chan[t][g] # None => chan[t][g] \in Clients /\ chan[t][g] # c
    BY <1>2 DEF TypeOK, Safe, Filed
  <2> QED BY <1>1, <2>1 DEF Safe, Filed
<1>15. Batches'
  <2>1. \A t \in Service : \A d \in batch[t] : d \in Clients /\ d # c
    BY <1>2 DEF TypeOK, Safe, Batches
  <2> QED BY <1>1, <1>6, <2>1 DEF Safe, Batches
<1>16. Current'
  <2>1. \A t \in Service : cur[t] # None => cur[t] \in Clients /\ cur[t] # c
    BY <1>2 DEF TypeOK
  <2>2. \A t \in Service : lpc[t] \in {"del", "drop"} => \A f \in Fds : m_conn_map'[f] # cur[t]
    BY <1>2, <1>5 DEF Safe, Current
  <2> QED BY <1>1, <1>6, <2>1, <2>2 DEF Safe, Current
<1> QED BY <1>8, <1>9, <1>10, <1>11, <1>12, <1>13, <1>14, <1>15, <1>16 DEF Safe

\* The steps of start() and what each of them queues.
Starting(op) ==
  \/ mpc = "join" /\ op = "add" /\ mpc' = "read"
  \/ mpc = "update" /\ op = "update" /\ mpc' = "conn"
  \/ mpc = "conn" /\ op = "conn" /\ mpc' = "return"

\* What one of the three tasks of start() adds to the queue of the connection's
\* thread.
LEMMA QueueStep ==
  ASSUME TypeOK, TypeOK', Safe, StartKeeps, NEW op \in {"add", "update", "conn"}, Queue(op), Starting(op)
  PROVE  Safe'
<1> USE DEF Starting
<1> DEFINE c == newc  s == service[newc]  k == [op |-> op, c |-> c]  n == Len(tasks[s])
           K == [op : {"add", "update", "conn"}, c : Clients]
<1>1. /\ UNCHANGED <<newc, backlog, fd, service, m_conn_map, held, lpc, batch, cur, chan,
                     watch, user, peer>>
      /\ tasks' = [tasks EXCEPT ![s] = Append(@, k)]
  BY DEF StartKeeps, Queue
<1>2. c \in Clients /\ c # None /\ s \in Service /\ Owned(c)
  BY NoneApart DEF Safe, NewConn, NewPcs, TypeOK, Owned
<1>3. /\ tasks[s] \in Seq(K) /\ tasks \in [Service -> Seq(K)] /\ k \in K
  BY <1>2 DEF TypeOK
<1>4. k.op = op /\ k.c = c
  OBVIOUS
<1> HIDE DEF c, s, k, n, K
<1>5. /\ n \in Nat /\ DOMAIN tasks[s] = 1 .. n /\ DOMAIN tasks'[s] = 1 .. n + 1
      /\ tasks'[s][n + 1] = k /\ \A i \in 1 .. n : tasks'[s][i] = tasks[s][i]
      /\ \A t \in Service : t # s => tasks'[t] = tasks[t]
  <2>1. tasks'[s] = Append(tasks[s], k) /\ \A t \in Service : t # s => tasks'[t] = tasks[t]
    BY <1>1, <1>2, <1>3
  <2>2. n \in Nat /\ DOMAIN tasks[s] = 1 .. n
    BY <1>3, LenProperties DEF n
  <2>3. /\ Append(tasks[s], k) \in Seq(K) /\ Len(Append(tasks[s], k)) = n + 1
        /\ \A i \in 1 .. n : Append(tasks[s], k)[i] = tasks[s][i]
        /\ Append(tasks[s], k)[n + 1] = k
    BY <1>3, AppendProperties DEF n
  <2>4. DOMAIN Append(tasks[s], k) = 1 .. n + 1
    BY <2>3, LenProperties
  <2> QED BY <2>1, <2>2, <2>3, <2>4
<1>6. \A d : InMap(d) <=> InMap(d)'
  BY <1>1 DEF InMap
<1>7. Ownership'
  <2> SUFFICES ASSUME NEW d \in Clients PROVE Owned(d)' <=> Owned(d)
    BY <1>1 DEF Safe, Ownership
  <2>1. CASE d = c
    <3>1. newc' = d
      BY <1>1, <2>1 DEF c
    <3> QED BY <1>2, <2>1, <3>1 DEF Owned
  <2>2. CASE d # c
    <3>1. \A t \in Service : [op |-> "conn", c |-> d] \in Tasks(t)' <=> [op |-> "conn", c |-> d] \in Tasks(t)
      <4> SUFFICES ASSUME NEW t \in Service
                   PROVE  (\E i \in DOMAIN tasks'[t] : tasks'[t][i] = [op |-> "conn", c |-> d])
                            <=> (\E i \in DOMAIN tasks[t] : tasks[t][i] = [op |-> "conn", c |-> d])
        BY DEF Tasks
      <4>1. k # [op |-> "conn", c |-> d]
        BY <1>4, <2>2
      <4>2. CASE t = s
        <5>1. \A i \in 1 .. n + 1 : i \in 1 .. n \/ i = n + 1
          BY <1>5
        <5>2. \A i \in 1 .. n : i \in 1 .. n + 1
          BY <1>5
        <5> QED BY <1>5, <4>1, <4>2, <5>1, <5>2
      <4>3. CASE t # s
        BY <1>5, <4>3
      <4> QED BY <4>2, <4>3
    <3> QED BY <1>1, <3>1 DEF Owned
  <2> QED BY <2>1, <2>2
<1>8. FdUnique' /\ MapFiled' /\ Waiting'
  BY <1>1 DEF Safe, FdUnique, MapFiled, Waiting
<1>9. NewConn'
  BY <1>1 DEF Safe, NewConn, NewPcs
<1>10. Queued'
  <2> SUFFICES ASSUME NEW t \in Service, NEW i \in DOMAIN tasks'[t]
               PROVE  LET q == tasks'[t][i]
                      IN  /\ service[q.c] = t
                          /\ q.op # "conn" =>
                               \/ newc = q.c /\ mpc' # "return"
                               \/ \E j \in DOMAIN tasks'[t] : j > i /\ tasks'[t][j] = ConnOf(q.c)
                          /\ q.op = "add" =>
                               /\ watch[q.c] = "no" /\ InMap(q.c)
                               /\ \A j \in DOMAIN tasks'[t] : tasks'[t][j] = q => j = i
    BY <1>1, <1>6 DEF Queued, ConnOf
  <2>1. CASE t # s
    <3>1. tasks'[t] = tasks[t]
      BY <1>5, <2>1
    <3>2. tasks[t][i].c \in Clients /\ service[tasks[t][i].c] = t
      BY <3>1, TaskOwned DEF Safe
    <3>3. tasks[t][i].c # newc
      BY <2>1, <3>2 DEF s
    <3> QED BY <3>1, <3>2, <3>3 DEF Safe, Queued
  <2>2. CASE t = s /\ i \in 1 .. n
    <3> DEFINE q == tasks[s][i]
    <3>1. tasks'[t][i] = q /\ i \in DOMAIN tasks[s] /\ i < n + 1 /\ n + 1 \in DOMAIN tasks'[s]
      BY <1>5, <2>2
    <3>2. /\ service[q.c] = s
          /\ q.op # "conn" =>
               \/ newc = q.c /\ mpc # "return"
               \/ \E j \in DOMAIN tasks[s] : j > i /\ tasks[s][j] = ConnOf(q.c)
          /\ q.op = "add" => /\ watch[q.c] = "no" /\ InMap(q.c)
                             /\ \A j \in DOMAIN tasks[s] : tasks[s][j] = q => j = i
      BY <1>2, <3>1 DEF Safe, Queued
    <3>3. q.op # "conn" =>
               \/ newc = q.c /\ mpc' # "return"
               \/ \E j \in DOMAIN tasks'[s] : j > i /\ tasks'[s][j] = ConnOf(q.c)
      <4> SUFFICES ASSUME q.op # "conn"
                   PROVE  \/ newc = q.c /\ mpc' # "return"
                          \/ \E j \in DOMAIN tasks'[s] : j > i /\ tasks'[s][j] = ConnOf(q.c)
        OBVIOUS
      <4>1. CASE \E j \in DOMAIN tasks[s] : j > i /\ tasks[s][j] = ConnOf(q.c)
        BY <1>5, <4>1
      <4>2. CASE newc = q.c /\ mpc' = "return"
        <5>1. op = "conn" /\ q.c = c
          BY <4>2 DEF c
        <5>2. k = ConnOf(q.c)
          BY <5>1 DEF k, ConnOf
        <5> QED BY <1>5, <3>1, <5>2
      <4> QED BY <3>2, <4>1, <4>2
    <3>4. ASSUME q.op = "add", NEW j \in DOMAIN tasks'[s], tasks'[s][j] = q PROVE j = i
      <4>1. k # q
        <5>1. CASE op = "add"
          <6>1. mpc = "join"
            BY <5>1
          <6>2. q.c # c
            BY <1>2, <3>1, <6>1 DEF Safe, NewConn, Tasks, c
          <6> QED BY <1>4, <6>2
        <5>2. CASE op # "add"
          BY <1>4, <3>4, <5>2
        <5> QED BY <5>1, <5>2
      <4>2. j \in 1 .. n
        BY <1>5, <3>4, <4>1
      <4> QED BY <1>5, <3>2, <3>4, <4>2
    <3> QED BY <2>2, <3>1, <3>2, <3>3, <3>4
  <2>3. CASE t = s /\ i = n + 1
    <3>1. tasks'[t][i] = k /\ k.op = op /\ k.c = c
      BY <1>4, <1>5, <2>3
    <3>2. service[c] = t
      BY <2>3 DEF s, c
    <3>3. op # "conn" => newc = c /\ mpc' # "return"
      BY DEF c
    <3>4. ASSUME op = "add"
          PROVE  /\ watch[c] = "no" /\ InMap(c)
                 /\ \A j \in DOMAIN tasks'[t] : tasks'[t][j] = k => j = i
      <4>1. mpc = "join"
        BY <3>4
      <4>2. watch[c] = "no" /\ InMap(c) /\ \A q \in Tasks(s) : q.c # c
        BY <1>2, <4>1 DEF Safe, NewConn, c
      <4>3. \A j \in 1 .. n : tasks'[s][j] # k
        BY <1>4, <1>5, <4>2 DEF Tasks
      <4> QED BY <1>5, <2>3, <4>2, <4>3
    <3> QED BY <3>1, <3>2, <3>3, <3>4
  <2> QED BY <1>5, <2>1, <2>2, <2>3
<1>11. Watching' /\ Filed'
  BY <1>1, <1>6 DEF Safe, Watching, Filed
<1>12. Batches' /\ Current'
  BY <1>1, <1>6 DEF Safe, Batches, Current
<1> QED BY <1>7, <1>8, <1>9, <1>10, <1>11, <1>12 DEF Safe

\* Steps that only drop a connection_ptr: on_new_conn() and process_work() return,
\* or the user lets go.  What is watched, in the map or queued stays owned.
LEMMA DropStep ==
  ASSUME TypeOK, TypeOK', Safe, Unref,
         UNCHANGED <<service, m_conn_map, tasks, held, batch, chan, watch, backlog, peer>>,
         \A c \in Clients : Owned(c)' => Owned(c),
         \/ newc' = newc /\ mpc' = mpc
         \/ newc' = None /\ mpc = "return" /\ mpc' = "swap",
         \A t \in Service : \/ cur'[t] = cur[t] /\ lpc'[t] = lpc[t]
                            \/ cur'[t] = None /\ lpc[t] = "drop" /\ lpc'[t] = "work"
  PROVE  Safe'
<1>0. /\ Ownership /\ FdUnique /\ MapFiled
      /\ \A c \in Clients : Owned(c)' => fd'[c] = fd[c]
      /\ \A c \in Clients : fd'[c] # None => fd'[c] = fd[c]
      /\ \A c \in Clients : InMap(c) <=> InMap(c)'
      /\ Ownership' /\ FdUnique' /\ MapFiled'
  BY UnrefStep DEF Safe
<1>1. Waiting'
  <2>1. \A i \in DOMAIN backlog : backlog[i] \in Clients
    BY DEF TypeOK
  <2> QED BY <1>0, <2>1 DEF Safe, Waiting
<1>2. NewConn'
  <2>1. newc' # None <=> mpc' \in NewPcs
    BY DEF Safe, NewConn, NewPcs
  <2>2. ASSUME mpc' \in {"insert", "join"}
        PROVE  /\ mpc = mpc' /\ newc' = newc /\ newc \in Clients /\ watch'[newc] = "no"
               /\ \A t \in Service : cur'[t] # newc /\ \A k \in Tasks(t)' : k.c # newc
    <3>1. mpc = mpc' /\ newc' = newc
      BY <2>2
    <3>2. newc \in Clients /\ newc # None
      BY <2>1, <2>2, <3>1 DEF NewPcs, TypeOK
    <3>3. watch[newc] = "no" /\ \A t \in Service : cur[t] # newc /\ \A k \in Tasks(t) : k.c # newc
      BY <2>2, <3>1 DEF Safe, NewConn
    <3>4. \A t \in Service : Tasks(t)' = Tasks(t) /\ (cur'[t] = cur[t] \/ cur'[t] = None)
      BY DEF Tasks
    <3> QED BY <3>1, <3>2, <3>3, <3>4
  <2>3. mpc' = "insert" => \A f \in Fds : m_conn_map'[f] # newc'
    BY <2>2 DEF Safe, NewConn
  <2>4. mpc' = "join" => InMap(newc)'
    BY <1>0, <2>2 DEF Safe, NewConn
  <2> QED BY <2>1, <2>2, <2>3, <2>4 DEF NewConn, Tasks
<1>3. Queued'
  <2> SUFFICES ASSUME NEW t \in Service, NEW i \in DOMAIN tasks[t]
               PROVE  LET k == tasks[t][i]
                      IN  /\ service[k.c] = t
                          /\ k.op # "conn" =>
                               \/ newc' = k.c /\ mpc' # "return"
                               \/ \E j \in DOMAIN tasks[t] : j > i /\ tasks[t][j] = ConnOf(k.c)
                          /\ k.op = "add" =>
                               /\ watch[k.c] = "no" /\ InMap(k.c)'
                               /\ \A j \in DOMAIN tasks[t] : tasks[t][j] = k => j = i
    BY DEF Queued, ConnOf
  <2>1. tasks[t][i].c \in Clients
    BY TaskOwned DEF Safe
  <2>2. tasks[t][i].op = "add" => InMap(tasks[t][i].c)'
    BY <1>0, <2>1 DEF Safe, Queued
  <2> QED BY <2>2 DEF Safe, Queued
<1>4. \A c \in Clients : watch[c] # "no" =>
        /\ Owned(c)' /\ fd'[c] = fd[c]
        /\ InMap(c)' \/ (cur'[service[c]] = c /\ lpc'[service[c]] = "del")
  <2> SUFFICES ASSUME NEW c \in Clients, watch[c] # "no"
               PROVE  Owned(c)' /\ (InMap(c)' \/ (cur'[service[c]] = c /\ lpc'[service[c]] = "del"))
    BY <1>0
  <2>1. service[c] \in Service
    BY DEF TypeOK
  <2>2. InMap(c) \/ (cur[service[c]] = c /\ lpc[service[c]] = "del")
    BY DEF Safe, Watching
  <2>3. InMap(c)' \/ (cur'[service[c]] = c /\ lpc'[service[c]] = "del")
    BY <1>0, <2>1, <2>2
  <2>4. InMap(c)' => Owned(c)'
    BY DEF InMap, Owned, TypeOK
  <2> QED BY <2>1, <2>3, <2>4 DEF Owned
<1>5. Watching'
  BY <1>4 DEF Safe, Watching
<1>6. Filed'
  <2>1. \A t \in Service, g \in Fds : chan[t][g] # None => chan[t][g] \in Clients
    BY DEF TypeOK
  <2> QED BY <1>4, <2>1 DEF Safe, Filed
<1>7. Batches'
  <2>1. \A t \in Service : \A d \in batch[t] : d \in Clients /\ d # None /\ InMap(d)'
    BY <1>0, NoneApart DEF TypeOK, Safe, Batches
  <2> QED BY <2>1 DEF Safe, Batches
<1>8. Current'
  <2>1. \A t \in Service : cur[t] # None => cur[t] \in Clients
    BY DEF TypeOK
  <2> QED BY <1>0, <2>1 DEF Safe, Current
<1> QED BY <1>0, <1>1, <1>2, <1>3, <1>5, <1>6, <1>7, <1>8 DEF Safe

\* Steps that move no connection: enable_read() writes flags, and a refused send()
\* changes what is asked of epoll for a channel that epoll knows.
LEMMA StillStep ==
  ASSUME TypeOK, TypeOK', Safe, mpc' = mpc \/ (mpc = "read" /\ mpc' = "update"),
         \A c \in Clients : watch[c] = "no" <=> watch'[c] = "no",
         UNCHANGED <<newc, backlog, fd, service, m_conn_map, tasks, held, lpc, batch, cur,
                     chan, user, peer>>
  PROVE  Safe'
<1> USE DEF Safe
<1>0. \A d : InMap(d) <=> InMap(d)'
  BY DEF InMap
<1>1. Ownership' /\ FdUnique' /\ MapFiled' /\ Waiting'
  BY DEF Ownership, Owned, Tasks, FdUnique, MapFiled, Waiting
<1>2. NewConn'
  <2>1. newc # None => newc \in Clients
    BY DEF TypeOK
  <2>2. mpc \in NewPcs => watch[newc] = "no" <=> watch'[newc] = "no"
    BY <2>1 DEF NewConn
  <2>3. (mpc' \in NewPcs <=> mpc \in NewPcs) /\ (mpc' \in {"insert", "join"} => mpc' = mpc)
    BY DEF NewPcs
  <2>4. \A t \in Service : Tasks(t)' = Tasks(t)
    BY DEF Tasks
  <2>5. {"insert", "join"} \subseteq NewPcs
    BY DEF NewPcs
  <2> QED BY <1>0, <2>2, <2>3, <2>4, <2>5 DEF NewConn
<1>3. Queued'
  <2> SUFFICES ASSUME NEW t \in Service, NEW i \in DOMAIN tasks[t]
               PROVE  LET k == tasks[t][i]
                      IN  /\ service[k.c] = t
                          /\ k.op # "conn" =>
                               \/ newc = k.c /\ mpc' # "return"
                               \/ \E j \in DOMAIN tasks[t] : j > i /\ tasks[t][j] = ConnOf(k.c)
                          /\ k.op = "add" =>
                               /\ watch'[k.c] = "no" /\ InMap(k.c)'
                               /\ \A j \in DOMAIN tasks[t] : tasks[t][j] = k => j = i
    BY DEF Queued, ConnOf
  <2>1. tasks[t][i].c \in Clients
    BY TaskOwned
  <2> QED BY <1>0, <2>1 DEF Queued
<1>4. Watching' /\ Filed'
  <2>1. Watching'
    BY <1>0 DEF Watching
  <2>2. \A t \in Service, f \in Fds : chan[t][f] # None => chan[t][f] \in Clients
    BY Ranges
  <2> QED BY <2>1, <2>2 DEF Filed
<1>5. Batches' /\ Current'
  <2>1. \A t \in Service : batch[t] \subseteq Clients /\ (cur[t] # None => cur[t] \in Clients)
    BY Ranges
  <2>2. Batches'
    BY <1>0, <2>1 DEF Batches
  <2>3. \A t \in Service : lpc[t] \in {"erase", "del", "drop"} => cur[t] \in Clients
    BY <2>1 DEF Current
  <2> QED BY <1>0, <2>2, <2>3 DEF Current
<1> QED BY <1>1, <1>2, <1>3, <1>4, <1>5

\* A step of the main loop keeps the invariant.
LEMMA MainSafe ==
  ASSUME IInv, MainNext PROVE IInv'
<1>0. TypeOK /\ Rounds /\ Safe /\ TypeOK' /\ Rounds'
  BY TypeMain DEF IInv, Safe
<1>1. CASE MainPoll \/ SaveEvtStatus \/ MainSwap \/ MainTask
  <2>1. mpc \notin NewPcs /\ mpc' \notin NewPcs
    BY <1>1 DEF MainPoll, SaveEvtStatus, MainSwap, MainTask, NewPcs
  <2>2. UNCHANGED <<newc, backlog, fd, service, m_conn_map, tasks, held, lpc, batch, cur,
                    chan, watch, user, peer>>
    BY <1>1 DEF MainPoll, SaveEvtStatus, MainSwap, MainTask, MainKeeps, poolvars
  <2> QED BY <1>0, <2>1, <2>2, QuietStep DEF IInv
<1>2. CASE Accept
  BY <1>0, <1>2, AcceptStep DEF IInv
<1>3. CASE OnNewConn
  BY <1>0, <1>3, OnNewConnStep DEF IInv
<1>4. CASE JoinToService \/ StartUpdate \/ QueueConnCallback
  <2>1. StartKeeps /\ \E op \in {"add", "update", "conn"} : Queue(op) /\ Starting(op)
    BY <1>4 DEF JoinToService, StartUpdate, QueueConnCallback, Starting
  <2>2. PICK op \in {"add", "update", "conn"} : Queue(op) /\ Starting(op)
    BY <2>1
  <2>3. Safe'
    BY <1>0, <2>1, <2>2, QueueStep
  <2> QED BY <1>0, <2>3 DEF IInv
<1>5. CASE NewConnReturns
  <2>1. /\ mpc = "return" /\ mpc' = "swap" /\ newc' = None /\ Unref
        /\ UNCHANGED <<service, m_conn_map, tasks, held, batch, chan, watch, backlog, peer,
                       cur, lpc, user>>
    BY <1>5 DEF NewConnReturns, MainKeeps, poolvars
  <2>2. \A c \in Clients : Owned(c)' => Owned(c)
    BY <2>1, NoneApart DEF Owned, Tasks
  <2> QED BY <1>0, <2>1, <2>2, DropStep DEF IInv
<1>6. CASE StartRead
  <2>1. /\ mpc = "read" /\ mpc' = "update"
        /\ UNCHANGED <<newc, backlog, fd, service, m_conn_map, tasks, held, lpc, batch, cur,
                       chan, watch, user, peer>>
    BY <1>6 DEF StartRead, StartKeeps
  <2> QED BY <1>0, <2>1, StillStep DEF IInv, NewPcs
<1> QED BY <1>1, <1>2, <1>3, <1>4, <1>5, <1>6 DEF MainNext

-------------------------------------------------------------------------------
(* A thread of the pool.                                                   *)

\* wait_for_evt(): an active channel is watched, and since this thread is not
\* removing it, it is in the map.
LEMMA PollStep ==
  ASSUME TypeOK, TypeOK', Safe, NEW t \in Service, Poll(t) PROVE Safe'
<1>1. /\ lpc[t] = "wait" /\ lpc' = [lpc EXCEPT ![t] = "work"]
      /\ batch' = [batch EXCEPT ![t] = Ready(t)]
      /\ UNCHANGED <<newc, mpc, backlog, fd, service, m_conn_map, tasks, held, cur, chan,
                     watch, user, peer>>
  BY DEF Poll, PoolKeeps, mainvars
<1>2. /\ lpc'[t] = "work" /\ batch'[t] = Ready(t)
      /\ \A u \in Service : u # t => lpc'[u] = lpc[u] /\ batch'[u] = batch[u]
  BY <1>1 DEF TypeOK
<1>3. \A d : InMap(d) <=> InMap(d)'
  BY <1>1 DEF InMap
<1>4. cur[t] = None
  BY <1>1 DEF Safe, Current
<1>5. \A c \in Ready(t) : /\ c \in Clients /\ c # None /\ service[c] = t /\ watch[c] # "no"
                          /\ InMap(c) /\ cur[t] # c
  <2> SUFFICES ASSUME NEW c \in Ready(t) PROVE /\ c \in Clients /\ c # None /\ service[c] = t
                        /\ watch[c] # "no" /\ InMap(c) /\ cur[t] # c
    OBVIOUS
  <2>1. c \in Clients /\ c # None /\ service[c] = t /\ watch[c] # "no"
    BY NoneApart DEF Ready
  <2> QED BY <1>1, <1>4, <2>1 DEF Safe, Watching
<1>6. Ownership' /\ FdUnique' /\ MapFiled' /\ Waiting'
  BY <1>1 DEF Safe, Ownership, Owned, Tasks, FdUnique, MapFiled, Waiting
<1>7. NewConn' /\ Queued'
  BY <1>1, <1>3 DEF Safe, NewConn, Queued, Tasks, ConnOf
<1>8. Watching' /\ Filed'
  <2>1. \A c \in Clients : lpc[service[c]] = "del" => lpc'[service[c]] = "del"
    BY <1>1, <1>2 DEF TypeOK
  <2> QED BY <1>1, <1>3, <2>1 DEF Safe, Watching, Filed
<1>9. Batches'
  <2> SUFFICES ASSUME NEW u \in Service
               PROVE  /\ \A c \in batch'[u] : service[c] = u /\ watch[c] # "no" /\ InMap(c) /\ cur[u] # c
                      /\ batch'[u] # {} => lpc'[u] \in {"work", "erase", "del", "drop"}
    BY <1>1, <1>3 DEF Batches
  <2>1. CASE u = t
    BY <1>2, <1>5, <2>1
  <2>2. CASE u # t
    BY <1>2, <2>2 DEF Safe, Batches
  <2> QED BY <2>1, <2>2
<1>10. Current'
  <2> SUFFICES ASSUME NEW u \in Service
               PROVE  /\ cur[u] # None <=> lpc'[u] \in {"erase", "del", "drop"}
                      /\ cur[u] # None => service[cur[u]] = u
                      /\ lpc'[u] = "erase" => InMap(cur[u])
                      /\ lpc'[u] \in {"erase", "del"} => watch[cur[u]] # "no"
                      /\ lpc'[u] \in {"del", "drop"} => \A f \in Fds : m_conn_map[f] # cur[u]
                      /\ lpc'[u] = "drop" => watch[cur[u]] = "no"
    BY <1>1, <1>3 DEF Current
  <2>1. CASE u = t
    BY <1>2, <1>4, <2>1
  <2>2. CASE u # t
    BY <1>2, <2>2 DEF Safe, Current
  <2> QED BY <2>1, <2>2
<1> QED BY <1>6, <1>7, <1>8, <1>9, <1>10 DEF Safe

\* process_work(): the channel's owner is there, since the map holds it.
LEMMA ProcessWorkStep ==
  ASSUME TypeOK, TypeOK', Safe, NEW t \in Service, NEW c \in Clients, ProcessWork(t, c)
  PROVE  Safe'
<1>1. /\ lpc[t] = "work" /\ c \in batch[t] /\ batch' = [batch EXCEPT ![t] = @ \ {c}]
      /\ UNCHANGED <<newc, mpc, backlog, fd, service, m_conn_map, tasks, held, chan, watch, peer>>
  BY DEF ProcessWork, PoolKeeps, mainvars
<1>2. c # None /\ service[c] = t /\ watch[c] # "no" /\ InMap(c) /\ fd[c] # None /\ Owned(c)
  <2>1. service[c] = t /\ watch[c] # "no" /\ InMap(c)
    BY <1>1 DEF Safe, Batches
  <2>2. fd[c] # None
    BY <2>1 DEF InMap
  <2> QED BY <2>1, <2>2, NoneApart DEF Safe, Ownership
<1>3. /\ cur' = [cur EXCEPT ![t] = c] /\ lpc' = [lpc EXCEPT ![t] = "erase"]
      /\ user \subseteq user' /\ user' \subseteq user \cup {c}
  BY <1>2 DEF ProcessWork, Keeping
<1>4. /\ lpc'[t] = "erase" /\ cur'[t] = c /\ batch'[t] = batch[t] \ {c}
      /\ \A u \in Service : u # t => lpc'[u] = lpc[u] /\ cur'[u] = cur[u] /\ batch'[u] = batch[u]
  BY <1>1, <1>3 DEF TypeOK
<1>5. cur[t] = None
  BY <1>1 DEF Safe, Current
<1>6. \A d : InMap(d) <=> InMap(d)'
  BY <1>1 DEF InMap
<1>7. Ownership'
  <2> SUFFICES ASSUME NEW d \in Clients PROVE Owned(d)' <=> Owned(d)
    BY <1>1 DEF Safe, Ownership
  <2>1. CASE d = c
    BY <1>2, <1>4, <2>1 DEF Owned
  <2>2. CASE d # c
    <3>1. (d \in user' <=> d \in user) /\ \A u \in Service : cur'[u] = d <=> cur[u] = d
      BY <1>3, <1>4, <1>5, <2>2, NoneApart
    <3> QED BY <1>1, <3>1 DEF Owned, Tasks
  <2> QED BY <2>1, <2>2
<1>8. FdUnique' /\ MapFiled' /\ Waiting'
  BY <1>1 DEF Safe, FdUnique, MapFiled, Waiting
<1>9. NewConn'
  <2>1. mpc \in {"insert", "join"} => newc # c
    BY <1>2 DEF Safe, NewConn
  <2>2. mpc \in {"insert", "join"} => \A u \in Service : cur'[u] # newc
    BY <1>4, <2>1 DEF Safe, NewConn
  <2> QED BY <1>1, <1>6, <2>2 DEF Safe, NewConn, Tasks
<1>10. Queued'
  BY <1>1, <1>6 DEF Safe, Queued, ConnOf
<1>11. Watching' /\ Filed'
  <2>1. \A d \in Clients : lpc[service[d]] = "del" => lpc'[service[d]] = "del" /\ cur'[service[d]] = cur[service[d]]
    BY <1>1, <1>4 DEF TypeOK
  <2> QED BY <1>1, <1>6, <2>1 DEF Safe, Watching, Filed
<1>12. Batches'
  <2> SUFFICES ASSUME NEW u \in Service
               PROVE  /\ \A d \in batch'[u] : service[d] = u /\ watch[d] # "no" /\ InMap(d) /\ cur'[u] # d
                      /\ batch'[u] # {} => lpc'[u] \in {"work", "erase", "del", "drop"}
    BY <1>1, <1>6 DEF Batches
  <2>1. CASE u = t
    BY <1>4, <2>1 DEF Safe, Batches
  <2>2. CASE u # t
    BY <1>4, <2>2 DEF Safe, Batches
  <2> QED BY <2>1, <2>2
<1>13. Current'
  <2> SUFFICES ASSUME NEW u \in Service
               PROVE  /\ cur'[u] # None <=> lpc'[u] \in {"erase", "del", "drop"}
                      /\ cur'[u] # None => service[cur'[u]] = u
                      /\ lpc'[u] = "erase" => InMap(cur[u])'
                      /\ lpc'[u] \in {"erase", "del"} => watch[cur'[u]] # "no"
                      /\ lpc'[u] \in {"del", "drop"} => \A f \in Fds : m_conn_map[f] # cur'[u]
                      /\ lpc'[u] = "drop" => watch[cur'[u]] = "no"
    BY <1>1 DEF Current
  <2>1. CASE u = t
    <3>1. InMap(cur[u])'
      BY <1>1, <1>2, <1>4, <2>1 DEF InMap
    <3> QED BY <1>2, <1>4, <2>1, <3>1
  <2>2. CASE u # t
    <3>1. lpc'[u] = "erase" => InMap(cur[u])'
      BY <1>1, <1>4, <2>2 DEF Safe, Current, InMap
    <3> QED BY <1>4, <2>2, <3>1 DEF Safe, Current
  <2> QED BY <2>1, <2>2
<1> QED BY <1>7, <1>8, <1>9, <1>10, <1>11, <1>12, <1>13 DEF Safe

\* on_remove_conn(): the entry under the descriptor is the connection's own.
LEMMA OnRemoveConnStep ==
  ASSUME TypeOK, TypeOK', Safe, NEW t \in Service, OnRemoveConn(t) PROVE Safe'
<1> DEFINE c == cur[t]  f == fd[cur[t]]
<1>1. /\ lpc[t] = "erase" /\ lpc' = [lpc EXCEPT ![t] = "del"]
      /\ m_conn_map' = [m_conn_map EXCEPT ![f] = None]
      /\ UNCHANGED <<newc, mpc, backlog, fd, service, tasks, held, batch, cur, chan, watch,
                     user, peer>>
  BY DEF OnRemoveConn, PoolKeeps, mainvars
<1>2. /\ c \in Clients /\ c # None /\ service[c] = t /\ watch[c] # "no"
      /\ InMap(c) /\ f \in Fds /\ f # None /\ m_conn_map[f] = c
  <2>1. c \in Clients /\ c # None /\ service[c] = t /\ watch[c] # "no" /\ InMap(c)
    BY <1>1, NoneApart DEF Safe, Current, TypeOK
  <2> QED BY <2>1 DEF InMap, TypeOK
<1>3. /\ m_conn_map'[f] = None /\ \A g \in Fds : g # f => m_conn_map'[g] = m_conn_map[g]
      /\ lpc'[t] = "del" /\ \A u \in Service : u # t => lpc'[u] = lpc[u]
  BY <1>1, <1>2 DEF TypeOK
<1>4. f = fd[c]
  OBVIOUS
<1>5. c' = c
  BY <1>1
<1>6. \A u \in Service : u # t => cur[u] # c
  BY <1>2 DEF Safe, Current
<1>7. cur[t] = c
  OBVIOUS
<1> HIDE DEF c, f
<1>8. \A d \in Clients : d # c => (InMap(d) <=> InMap(d)')
  <2> SUFFICES ASSUME NEW d \in Clients, d # c, fd[d] # None
               PROVE  m_conn_map[fd[d]] = d <=> m_conn_map'[fd[d]] = d
    BY <1>1 DEF InMap
  <2>1. fd[d] # f /\ fd[d] \in Fds
    BY <1>2, <1>4 DEF Safe, FdUnique, TypeOK
  <2> QED BY <1>3, <2>1
<1>9. Ownership'
  <2> SUFFICES ASSUME NEW d \in Clients PROVE Owned(d)' <=> Owned(d)
    BY <1>1 DEF Safe, Ownership
  <2>1. CASE d = c
    BY <1>1, <1>7, <2>1 DEF Owned
  <2>2. CASE d # c
    <3>1. (\E g \in Fds : m_conn_map'[g] = d) <=> (\E g \in Fds : m_conn_map[g] = d)
      BY <1>2, <1>3, <2>2, NoneApart
    <3> QED BY <1>1, <3>1 DEF Owned, Tasks
  <2> QED BY <2>1, <2>2
<1>10. FdUnique' /\ Waiting'
  BY <1>1 DEF Safe, FdUnique, Waiting
<1>11. MapFiled'
  BY <1>1, <1>3 DEF Safe, MapFiled
<1>12. NewConn'
  <2>1. mpc \in {"insert", "join"} => newc # c /\ newc \in Clients /\ newc # None
    BY <1>7 DEF Safe, NewConn, NewPcs, TypeOK
  <2>2. mpc = "insert" => \A g \in Fds : m_conn_map'[g] # newc
    BY <1>3, <2>1 DEF Safe, NewConn
  <2>3. mpc = "join" => InMap(newc)'
    BY <1>1, <1>8, <2>1 DEF Safe, NewConn
  <2> QED BY <1>1, <2>2, <2>3 DEF Safe, NewConn, Tasks
<1>13. Queued'
  <2> SUFFICES ASSUME NEW u \in Service, NEW i \in DOMAIN tasks[u]
               PROVE  LET k == tasks[u][i]
                      IN  /\ service[k.c] = u
                          /\ k.op # "conn" =>
                               \/ newc = k.c /\ mpc # "return"
                               \/ \E j \in DOMAIN tasks[u] : j > i /\ tasks[u][j] = ConnOf(k.c)
                          /\ k.op = "add" =>
                               /\ watch[k.c] = "no" /\ InMap(k.c)'
                               /\ \A j \in DOMAIN tasks[u] : tasks[u][j] = k => j = i
    BY <1>1 DEF Queued, ConnOf
  <2>1. tasks[u][i].c \in Clients
    BY TaskOwned DEF Safe
  <2>2. tasks[u][i].op = "add" => InMap(tasks[u][i].c) /\ tasks[u][i].c # c
    BY <1>2 DEF Safe, Queued
  <2>3. tasks[u][i].op = "add" => InMap(tasks[u][i].c)'
    BY <1>1, <1>8, <2>1, <2>2
  <2> QED BY <2>3 DEF Safe, Queued
<1>14. Watching' /\ Filed'
  <2>1. ASSUME NEW d \in Clients, watch[d] # "no"
        PROVE  InMap(d)' \/ (cur[service[d]] = d /\ lpc'[service[d]] = "del")
    <3>1. CASE d = c
      BY <1>2, <1>3, <1>7, <3>1
    <3>2. CASE d # c
      <4>1. service[d] \in Service
        BY DEF TypeOK
      <4> QED BY <1>1, <1>3, <1>8, <2>1, <3>2, <4>1 DEF Safe, Watching
    <3> QED BY <3>1, <3>2
  <2> QED BY <1>1, <2>1 DEF Safe, Watching, Filed
<1>15. Batches'
  <2>1. \A u \in Service : \A d \in batch[u] : d \in Clients /\ d # c
    BY <1>2, <1>7 DEF TypeOK, Safe, Batches
  <2>2. \A u \in Service : lpc[u] \in {"work", "erase", "del", "drop"} => lpc'[u] \in {"work", "erase", "del", "drop"}
    BY <1>3
  <2> QED BY <1>1, <1>8, <2>1, <2>2 DEF Safe, Batches
<1>16. Current'
  <2> SUFFICES ASSUME NEW u \in Service
               PROVE  /\ cur[u] # None <=> lpc'[u] \in {"erase", "del", "drop"}
                      /\ cur[u] # None => service[cur[u]] = u
                      /\ lpc'[u] = "erase" => InMap(cur[u])'
                      /\ lpc'[u] \in {"erase", "del"} => watch[cur[u]] # "no"
                      /\ lpc'[u] \in {"del", "drop"} => \A g \in Fds : m_conn_map'[g] # cur[u]
                      /\ lpc'[u] = "drop" => watch[cur[u]] = "no"
    BY <1>1 DEF Current
  <2>1. CASE u = t
    <3>1. \A g \in Fds : m_conn_map'[g] # c
      BY <1>2, <1>3, <1>4, NoneApart DEF Safe, MapFiled
    <3> QED BY <1>2, <1>3, <1>7, <2>1, <3>1
  <2>2. CASE u # t
    <3>1. cur[u] # None => cur[u] \in Clients /\ cur[u] # c
      BY <1>6, <2>2 DEF TypeOK
    <3>2. lpc[u] = "erase" => InMap(cur[u])'
      BY <1>1, <1>8, <3>1 DEF Safe, Current
    <3>3. lpc[u] \in {"del", "drop"} => \A g \in Fds : m_conn_map'[g] # cur[u]
      BY <1>3 DEF Safe, Current
    <3> QED BY <1>3, <2>2, <3>2, <3>3 DEF Safe, Current
  <2> QED BY <2>1, <2>2
<1> QED BY <1>9, <1>10, <1>11, <1>12, <1>13, <1>14, <1>15, <1>16 DEF Safe

\* final_destory(): epoll and m_channel_map forget the connection together.
LEMMA FinalDestoryStep ==
  ASSUME TypeOK, TypeOK', Safe, NEW t \in Service, FinalDestory(t) PROVE Safe'
<1> DEFINE c == cur[t]  f == fd[cur[t]]
<1>1. /\ c \in Clients /\ c # None /\ service[c] = t /\ watch[c] # "no"
      /\ \A g \in Fds : m_conn_map[g] # c
  BY NoneApart DEF FinalDestory, Safe, Current, TypeOK
<1>2. f \in Fds /\ f # None
  BY <1>1, OwnedHasFd DEF Safe, Owned
<1>3. /\ lpc[t] = "del" /\ lpc' = [lpc EXCEPT ![t] = "drop"]
      /\ chan' = [chan EXCEPT ![t][f] = None] /\ watch' = [watch EXCEPT ![c] = "no"]
      /\ UNCHANGED <<newc, mpc, backlog, fd, service, m_conn_map, tasks, held, batch, cur,
                     user, peer>>
  BY <1>1 DEF FinalDestory, PoolKeeps, mainvars
<1>4. f = fd[c] /\ cur[t] = c
  OBVIOUS
<1> HIDE DEF c, f
<1>5. /\ lpc'[t] = "drop" /\ \A u \in Service : u # t => lpc'[u] = lpc[u]
      /\ watch'[c] = "no" /\ \A d \in Clients : d # c => watch'[d] = watch[d]
      /\ chan'[t][f] = None
      /\ \A u \in Service, g \in Fds : u # t \/ g # f => chan'[u][g] = chan[u][g]
  BY <1>1, <1>2, <1>3 DEF TypeOK
<1>6. \A d : InMap(d) <=> InMap(d)'
  BY <1>3 DEF InMap
<1>7. Ownership' /\ FdUnique' /\ MapFiled' /\ Waiting'
  BY <1>3 DEF Safe, Ownership, Owned, Tasks, FdUnique, MapFiled, Waiting
<1>8. NewConn'
  <2>1. mpc \in {"insert", "join"} => watch'[newc] = "no"
    BY <1>5 DEF Safe, NewConn, NewPcs, TypeOK
  <2> QED BY <1>3, <1>6, <2>1 DEF Safe, NewConn, Tasks
<1>9. Queued'
  <2>1. \A d \in Clients : watch[d] = "no" => watch'[d] = "no"
    BY <1>5
  <2>2. \A u \in Service : \A i \in DOMAIN tasks[u] : tasks[u][i].c \in Clients
    BY TaskOwned DEF Safe
  <2> QED BY <1>3, <1>6, <2>1, <2>2 DEF Safe, Queued, ConnOf
<1>10. Watching'
  <2> SUFFICES ASSUME NEW d \in Clients, watch'[d] # "no"
               PROVE  /\ fd[d] # None /\ chan'[service[d]][fd[d]] = d
                      /\ InMap(d) \/ (cur[service[d]] = d /\ lpc'[service[d]] = "del")
    BY <1>3, <1>6 DEF Watching
  <2>1. d # c /\ watch[d] # "no" /\ service[d] \in Service
    BY <1>5 DEF TypeOK
  <2>2. /\ fd[d] # None /\ fd[d] \in Fds /\ chan[service[d]][fd[d]] = d
        /\ InMap(d) \/ (cur[service[d]] = d /\ lpc[service[d]] = "del")
    BY <2>1 DEF Safe, Watching, TypeOK
  <2>3. fd[d] # f
    BY <1>1, <1>4, <2>1, <2>2 DEF Safe, FdUnique
  <2>4. cur[service[d]] = d => service[d] # t
    BY <1>4, <2>1
  <2> QED BY <1>5, <2>1, <2>2, <2>3, <2>4
<1>11. Filed'
  <2> SUFFICES ASSUME NEW u \in Service, NEW g \in Fds, chan'[u][g] # None
               PROVE  LET d == chan'[u][g] IN fd[d] = g /\ watch'[d] # "no" /\ service[d] = u
    BY <1>3 DEF Filed
  <2>1. chan'[u][g] = chan[u][g] /\ (u # t \/ g # f)
    BY <1>5
  <2>2. LET d == chan[u][g] IN d \in Clients /\ fd[d] = g /\ watch[d] # "no" /\ service[d] = u
    BY <2>1 DEF Safe, Filed, TypeOK
  <2>3. chan[u][g] # c
    BY <1>1, <1>4, <2>1, <2>2
  <2> QED BY <1>5, <2>1, <2>2, <2>3
<1>12. Batches'
  <2>1. \A u \in Service : \A d \in batch[u] : d \in Clients /\ d # c
    <3> SUFFICES ASSUME NEW u \in Service, NEW d \in batch[u] PROVE d \in Clients /\ d # c
      OBVIOUS
    <3>1. d \in Clients /\ fd[d] \in Fds /\ m_conn_map[fd[d]] = d
      BY DEF TypeOK, Safe, Batches, InMap
    <3> QED BY <1>1, <3>1
  <2>2. \A u \in Service : lpc[u] \in {"work", "erase", "del", "drop"} => lpc'[u] \in {"work", "erase", "del", "drop"}
    BY <1>5
  <2> QED BY <1>3, <1>5, <1>6, <2>1, <2>2 DEF Safe, Batches
<1>13. Current'
  <2> SUFFICES ASSUME NEW u \in Service
               PROVE  /\ cur[u] # None <=> lpc'[u] \in {"erase", "del", "drop"}
                      /\ cur[u] # None => service[cur[u]] = u
                      /\ lpc'[u] = "erase" => InMap(cur[u])
                      /\ lpc'[u] \in {"erase", "del"} => watch'[cur[u]] # "no"
                      /\ lpc'[u] \in {"del", "drop"} => \A g \in Fds : m_conn_map[g] # cur[u]
                      /\ lpc'[u] = "drop" => watch'[cur[u]] = "no"
    BY <1>3, <1>6 DEF Current
  <2>1. CASE u = t
    BY <1>1, <1>4, <1>5, <2>1
  <2>2. CASE u # t
    <3>1. cur[u] # None => cur[u] \in Clients /\ cur[u] # c /\ watch'[cur[u]] = watch[cur[u]]
      BY <1>1, <1>5, <2>2, Ranges DEF Safe, Current
    <3> QED BY <1>5, <2>2, <3>1 DEF Safe, Current
  <2> QED BY <2>1, <2>2
<1> QED BY <1>7, <1>8, <1>9, <1>10, <1>11, <1>12, <1>13 DEF Safe

\* The swap of the pending tasks: nothing is left of the round of events.
LEMMA SwapPendingStep ==
  ASSUME TypeOK, TypeOK', Safe, NEW t \in Service, SwapPending(t) PROVE Safe'
<1>1. /\ lpc[t] \in {"work", "wait"}
      /\ lpc[t] = "work" => batch[t] = {}
      /\ lpc' = [lpc EXCEPT ![t] = IF tasks[t] = <<>> THEN "wait" ELSE "tasks"]
      /\ UNCHANGED <<newc, mpc, backlog, fd, service, m_conn_map, tasks, held, batch, cur,
                     chan, watch, user, peer>>
  BY DEF SwapPending, PoolKeeps, mainvars
<1>2. /\ lpc'[t] \in {"wait", "tasks"} /\ cur[t] = None /\ batch[t] = {}
      /\ \A u \in Service : u # t => lpc'[u] = lpc[u]
  BY <1>1, Ranges DEF Safe, Current, Batches
<1>3. \A d : InMap(d) <=> InMap(d)'
  BY <1>1 DEF InMap
<1>4. Ownership' /\ FdUnique' /\ MapFiled' /\ Waiting'
  BY <1>1 DEF Safe, Ownership, Owned, Tasks, FdUnique, MapFiled, Waiting
<1>5. NewConn' /\ Queued'
  BY <1>1, <1>3 DEF Safe, NewConn, Queued, Tasks, ConnOf
<1>6. Watching' /\ Filed'
  <2>1. \A c \in Clients : lpc[service[c]] = "del" => lpc'[service[c]] = "del"
    BY <1>1, <1>2, Ranges
  <2> QED BY <1>1, <1>3, <2>1 DEF Safe, Watching, Filed
<1>7. Batches'
  <2>1. \A u \in Service : batch[u] # {} => lpc'[u] = lpc[u]
    BY <1>2
  <2> QED BY <1>1, <1>3, <2>1 DEF Safe, Batches
<1>8. Current'
  <2>1. \A u \in Service : lpc'[u] = lpc[u] \/ (cur[u] = None /\ lpc'[u] \in {"wait", "tasks"})
    BY <1>2
  <2> QED BY <1>1, <1>3, <2>1 DEF Safe, Current
<1> QED BY <1>4, <1>5, <1>6, <1>7, <1>8 DEF Safe

\* Running the next task: its connection is owned before, those that stay watched,
\* filed or queued are owned after, and the queue moves up by one.
LEMMA TaskStep ==
  ASSUME TypeOK, TypeOK', Rounds, Safe, NEW t \in Service, NEW c \in Clients,
         NEW op \in {"add", "update", "conn"}, NextTask(t, op, c), Unref,
         user' \subseteq user \cup (IF op = "conn" THEN {c} ELSE {}),
         \/ op = "add" /\ watch' = [watch EXCEPT ![c] = Asked(c)]
              /\ chan' = [chan EXCEPT ![t][fd[c]] = c]
         \/ op # "add" /\ chan' = chan
              /\ \A d \in Clients : watch[d] = "no" <=> watch'[d] = "no"
  PROVE  Safe'
<1> DEFINE n == Len(tasks[t])  K == [op : {"add", "update", "conn"}, c : Clients]
           k == [op |-> op, c |-> c]
<1>1. /\ lpc[t] = "tasks" /\ tasks' = [tasks EXCEPT ![t] = Tail(@)]
      /\ UNCHANGED <<newc, mpc, backlog, service, m_conn_map, batch, cur, peer>>
  BY DEF NextTask, PoolKeeps, mainvars
<1>2. n \in Nat /\ n >= 1 /\ tasks[t] # <<>> /\ DOMAIN tasks[t] = 1 .. n /\ tasks[t][1] = k
  BY HeadTask
<1>3. tasks \in [Service -> Seq(K)] /\ k.op = op /\ k.c = c /\ k \in K
  BY DEF TypeOK
<1>4. Owned(c) /\ service[c] = t /\ fd[c] \in Fds /\ fd[c] # None
  <2>1. 1 \in DOMAIN tasks[t] /\ tasks[t][1].c = c
    BY <1>2, <1>3
  <2>2. Owned(c) /\ service[c] = t
    BY <2>1, TaskOwned DEF Safe
  <2> QED BY <2>2, OwnedHasFd DEF Safe
<1>5. /\ lpc'[t] \in {"wait", "tasks"} /\ \A u \in Service : u # t => lpc'[u] = lpc[u]
      /\ held'[t] \subseteq held[t] \cup (IF op = "conn" THEN {c} ELSE {})
      /\ \A u \in Service : u # t => held'[u] = held[u]
  BY <1>1 DEF NextTask, TypeOK
<1> HIDE DEF n, K, k
<1>6. /\ DOMAIN tasks'[t] = 1 .. n - 1 /\ \A i \in 1 .. n - 1 : tasks'[t][i] = tasks[t][i + 1]
      /\ \A u \in Service : u # t => tasks'[u] = tasks[u]
  <2>1. tasks'[t] = Tail(tasks[t]) /\ \A u \in Service : u # t => tasks'[u] = tasks[u]
    BY <1>1, <1>3
  <2>2. /\ Tail(tasks[t]) \in Seq(K) /\ Len(Tail(tasks[t])) = n - 1
        /\ \A i \in 1 .. Len(tasks[t]) - 1 : Tail(tasks[t])[i] = tasks[t][i + 1]
    BY <1>2, <1>3, HeadTailProperties DEF n
  <2>3. DOMAIN Tail(tasks[t]) = 1 .. n - 1
    BY <2>2, LenProperties
  <2> QED BY <2>1, <2>2, <2>3 DEF n
<1>7. \A u \in Service : Tasks(u)' \subseteq Tasks(u)
  <2> SUFFICES ASSUME NEW u \in Service, NEW i \in DOMAIN tasks'[u]
               PROVE  \E j \in DOMAIN tasks[u] : tasks[u][j] = tasks'[u][i]
    BY DEF Tasks
  <2>1. CASE u = t
    <3>1. i \in 1 .. n - 1 /\ tasks'[t][i] = tasks[t][i + 1] /\ i + 1 \in 1 .. n
      BY <1>2, <1>6, <2>1
    <3> QED BY <1>2, <2>1, <3>1
  <2>2. CASE u # t
    BY <1>6, <2>2
  <2> QED BY <2>1, <2>2
<1>8. \A d \in Clients : Owned(d)' => Owned(d)
  <2> SUFFICES ASSUME NEW d \in Clients, Owned(d)', d # c PROVE Owned(d)
    BY <1>4
  <2>1. \A u \in Service : d \in held'[u] => d \in held[u]
    BY <1>5
  <2>2. d \in user' => d \in user
    OBVIOUS
  <2>3. \A u \in Service : [op |-> "conn", c |-> d] \in Tasks(u)' => [op |-> "conn", c |-> d] \in Tasks(u)
    BY <1>7
  <2> QED BY <1>1, <2>1, <2>2, <2>3 DEF Owned
<1>9. /\ \A d \in Clients : Owned(d)' => fd'[d] = fd[d]
      /\ \A d \in Clients : fd'[d] # None => fd'[d] = fd[d]
      /\ \A d \in Clients : InMap(d) <=> InMap(d)'
      /\ Ownership' /\ FdUnique' /\ MapFiled'
  BY <1>1, <1>8, UnrefStep DEF Safe
<1>10. /\ \A d \in Clients : d # c => (watch[d] = "no" <=> watch'[d] = "no")
       /\ op # "add" => (watch[c] = "no" <=> watch'[c] = "no") /\ chan' = chan
       /\ op = "add" => /\ watch'[c] # "no" /\ chan'[t][fd[c]] = c
                        /\ \A u \in Service, g \in Fds :
                             u # t \/ g # fd[c] => chan'[u][g] = chan[u][g]
  <2>0. watch \in [Clients -> {"no", "yes", "in"}] /\ chan \in [Service -> [Fds -> Clients \cup {None}]]
    BY Ranges
  <2>1. CASE op = "add"
    <3>1. watch' = [watch EXCEPT ![c] = Asked(c)] /\ chan' = [chan EXCEPT ![t][fd[c]] = c]
      BY <2>1
    <3>2. Asked(c) # "no"
      BY DEF Asked
    <3> QED BY <1>4, <2>0, <2>1, <3>1, <3>2
  <2>2. CASE op # "add"
    BY <2>2
  <2> QED BY <2>1, <2>2
<1>11. op = "add" => /\ watch[c] = "no" /\ InMap(c)
                     /\ \A i \in DOMAIN tasks[t] : tasks[t][i] = k => i = 1
  <2>1. 1 \in DOMAIN tasks[t]
    BY <1>2
  <2> QED BY <1>2, <1>3, <2>1 DEF Safe, Queued
<1>12. Waiting'
  <2>1. \A i \in DOMAIN backlog : backlog[i] \in Clients
    BY Ranges
  <2> QED BY <1>1, <1>9, <2>1 DEF Safe, Waiting
<1>13. NewConn'
  <2>1. ASSUME mpc \in {"insert", "join"}
        PROVE  /\ newc \in Clients /\ newc # c /\ watch'[newc] = "no"
               /\ \A u \in Service : \A q \in Tasks(u)' : q.c # newc
    <3>1. newc \in Clients /\ watch[newc] = "no" /\ \A u \in Service : \A q \in Tasks(u) : q.c # newc
      BY <2>1 DEF Safe, NewConn, NewPcs, TypeOK
    <3>2. k \in Tasks(t)
      BY <1>2 DEF Tasks
    <3> QED BY <1>3, <1>7, <1>10, <3>1, <3>2
  <2>2. mpc = "join" => InMap(newc)'
    BY <1>1, <1>9, <2>1 DEF Safe, NewConn
  <2> QED BY <1>1, <2>1, <2>2 DEF Safe, NewConn
<1>14. Queued'
  <2> SUFFICES ASSUME NEW u \in Service, NEW i \in DOMAIN tasks'[u]
               PROVE  LET q == tasks'[u][i]
                      IN  /\ service'[q.c] = u
                          /\ q.op # "conn" =>
                               \/ newc' = q.c /\ mpc' # "return"
                               \/ \E j \in DOMAIN tasks'[u] : j > i /\ tasks'[u][j] = ConnOf(q.c)
                          /\ q.op = "add" =>
                               /\ watch'[q.c] = "no"
                               /\ fd'[q.c] # None /\ m_conn_map'[fd'[q.c]] = q.c
                               /\ \A j \in DOMAIN tasks'[u] : tasks'[u][j] = q => j = i
    BY DEF Queued, InMap
  <2>q. PICK q : q = tasks'[u][i]
    OBVIOUS
  <2>a. ASSUME InMap(q.c)' PROVE fd'[q.c] # None /\ m_conn_map'[fd'[q.c]] = q.c
    BY <2>a DEF InMap
  <2>1. CASE u # t
    <3>1. tasks'[u] = tasks[u]
      BY <1>6, <2>1
    <3>2. q.c \in Clients /\ service[q.c] = u
      BY <2>q, <3>1, TaskOwned DEF Safe
    <3>3. q.c # c
      BY <1>4, <2>1, <3>2
    <3>4. q.op = "add" => watch[q.c] = "no" /\ InMap(q.c)
      BY <2>q, <3>1 DEF Safe, Queued
    <3>5. q.op = "add" => watch'[q.c] = "no" /\ InMap(q.c)'
      BY <1>9, <1>10, <3>2, <3>3, <3>4
    <3>6. /\ q.op # "conn" =>
               \/ newc = q.c /\ mpc # "return"
               \/ \E j \in DOMAIN tasks[u] : j > i /\ tasks[u][j] = ConnOf(q.c)
          /\ q.op = "add" => \A j \in DOMAIN tasks[u] : tasks[u][j] = q => j = i
      BY <2>q, <3>1 DEF Safe, Queued
    <3> QED BY <1>1, <2>a, <2>q, <3>1, <3>2, <3>5, <3>6
  <2>2. CASE u = t
    <3>1. i \in 1 .. n - 1 /\ tasks[t][i + 1] = q /\ i + 1 \in DOMAIN tasks[t]
      BY <1>2, <1>6, <2>2, <2>q
    <3>2. q.c \in Clients /\ service[q.c] = t
      BY <3>1, TaskOwned DEF Safe
    <3>3. /\ q.op # "conn" =>
               \/ newc = q.c /\ mpc # "return"
               \/ \E j \in DOMAIN tasks[t] : j > i + 1 /\ tasks[t][j] = ConnOf(q.c)
          /\ q.op = "add" => /\ watch[q.c] = "no" /\ InMap(q.c)
                             /\ \A j \in DOMAIN tasks[t] : tasks[t][j] = q => j = i + 1
      BY <3>1 DEF Safe, Queued
    <3>4. ASSUME NEW j \in DOMAIN tasks[t], j > i + 1
          PROVE  j - 1 \in DOMAIN tasks'[t] /\ j - 1 > i /\ tasks'[t][j - 1] = tasks[t][j]
      <4>1. j - 1 \in 1 .. n - 1 /\ j - 1 > i /\ (j - 1) + 1 = j
        BY <1>2, <3>1, <3>4
      <4> QED BY <1>6, <4>1
    <3>5. q.op # "conn" => \/ newc = q.c /\ mpc # "return"
                           \/ \E j \in DOMAIN tasks'[t] : j > i /\ tasks'[t][j] = ConnOf(q.c)
      BY <3>3, <3>4
    <3>6. ASSUME q.op = "add" PROVE watch'[q.c] = "no" /\ InMap(q.c)'
      <4>1. ASSUME op = "add" PROVE q.c # c
        <5>1. q # k
          BY <1>2, <1>11, <3>1, <4>1
        <5>2. q \in K
          BY <1>2, <1>3, <3>1, ElementOfSeq DEF n
        <5>3. q.c = c => q = k
          BY <3>6, <4>1, <5>2 DEF K, k
        <5> QED BY <5>1, <5>3
      <4> QED BY <1>9, <1>10, <3>2, <3>3, <3>6, <4>1
    <3>7. ASSUME q.op = "add", NEW j \in DOMAIN tasks'[t], tasks'[t][j] = q PROVE j = i
      <4>1. j \in 1 .. n - 1 /\ tasks[t][j + 1] = q /\ j + 1 \in DOMAIN tasks[t]
        BY <1>2, <1>6, <3>7
      <4>2. j + 1 = i + 1
        BY <3>3, <3>7, <4>1
      <4> QED BY <3>1, <4>1, <4>2
    <3> QED BY <1>1, <2>2, <2>a, <2>q, <3>2, <3>5, <3>6, <3>7
  <2> QED BY <2>1, <2>2
<1>15. ASSUME NEW d \in Clients, watch'[d] # "no"
       PROVE  /\ fd'[d] = fd[d] /\ fd[d] # None /\ chan'[service[d]][fd[d]] = d
              /\ InMap(d)' \/ (cur[service[d]] = d /\ lpc'[service[d]] = "del")
  <2>0. service[d] \in Service
    BY DEF TypeOK
  <2>1. InMap(d)' => Owned(d)'
    BY DEF InMap, Owned, TypeOK
  <2>2. CASE op = "add" /\ d = c
    BY <1>4, <1>9, <1>10, <1>11, <2>1, <2>2
  <2>3. CASE ~(op = "add" /\ d = c)
    <3>1. watch[d] # "no"
      BY <1>10, <1>15, <2>3
    <3>2. /\ fd[d] # None /\ fd[d] \in Fds /\ chan[service[d]][fd[d]] = d
          /\ InMap(d) \/ (cur[service[d]] = d /\ lpc[service[d]] = "del")
      BY <3>1 DEF Safe, Watching, TypeOK
    <3>3. InMap(d)' \/ (cur[service[d]] = d /\ lpc'[service[d]] = "del")
      BY <1>1, <1>5, <1>9, <2>0, <3>2
    <3>4. Owned(d)'
      BY <1>1, <2>0, <2>1, <3>3 DEF Owned
    <3>5. op = "add" => fd[d] # fd[c]
      BY <1>4, <2>3, <3>2 DEF Safe, FdUnique
    <3>6. chan'[service[d]][fd[d]] = d
      BY <1>10, <2>0, <3>2, <3>5
    <3> QED BY <1>9, <3>2, <3>3, <3>4, <3>6
  <2> QED BY <2>2, <2>3
<1>16. Watching'
  BY <1>1, <1>15 DEF Watching
<1>17. Filed'
  <2> SUFFICES ASSUME NEW u \in Service, NEW g \in Fds, NEW d, d = chan'[u][g], d # None
               PROVE  fd'[d] = g /\ watch'[d] # "no" /\ service[d] = u
    BY <1>1 DEF Filed
  <2>1. CASE op = "add" /\ u = t /\ g = fd[c]
    BY <1>4, <1>10, <1>15, <2>1
  <2>2. CASE ~(op = "add" /\ u = t /\ g = fd[c])
    <3>1. d = chan[u][g]
      BY <1>10, <2>2
    <3>2. d \in Clients /\ fd[d] = g /\ watch[d] # "no" /\ service[d] = u
      BY <3>1 DEF Safe, Filed, TypeOK
    <3>3. watch'[d] # "no"
      BY <1>10, <3>2
    <3> QED BY <1>15, <3>2, <3>3
  <2> QED BY <2>1, <2>2
<1>18. Batches'
  <2>1. batch[t] = {}
    BY <1>1 DEF Safe, Batches
  <2>2. ASSUME NEW u \in Service, NEW d \in batch[u]
        PROVE  service[d] = u /\ watch'[d] # "no" /\ InMap(d)' /\ cur[u] # d /\ u # t
    <3>1. d \in Clients /\ service[d] = u /\ watch[d] # "no" /\ InMap(d) /\ cur[u] # d
      BY DEF Safe, Batches, TypeOK
    <3> QED BY <1>9, <1>10, <2>1, <3>1
  <2> QED BY <1>1, <1>5, <2>1, <2>2 DEF Safe, Batches
<1>19. Current'
  <2> SUFFICES ASSUME NEW u \in Service
               PROVE  /\ cur[u] # None <=> lpc'[u] \in {"erase", "del", "drop"}
                      /\ cur[u] # None => service[cur[u]] = u
                      /\ lpc'[u] = "erase" => InMap(cur[u])'
                      /\ lpc'[u] \in {"erase", "del"} => watch'[cur[u]] # "no"
                      /\ lpc'[u] \in {"del", "drop"} => \A g \in Fds : m_conn_map[g] # cur[u]
                      /\ lpc'[u] = "drop" => watch'[cur[u]] = "no"
    BY <1>1 DEF Current
  <2>1. CASE u = t
    BY <1>1, <1>5, <2>1 DEF Safe, Current
  <2>2. CASE u # t
    <3>1. /\ lpc'[u] = lpc[u] /\ (cur[u] # None => cur[u] \in Clients)
          /\ lpc[u] \in {"erase", "del", "drop"} => cur[u] # None
      BY <1>5, <2>2, Ranges DEF Safe, Current
    <3>2. lpc[u] = "erase" => InMap(cur[u])'
      BY <1>1, <1>9, <3>1 DEF Safe, Current
    <3>3. lpc[u] \in {"erase", "del"} => watch'[cur[u]] # "no"
      BY <1>10, <3>1 DEF Safe, Current
    <3>4. lpc[u] = "drop" => watch'[cur[u]] = "no"
      <4> SUFFICES ASSUME lpc[u] = "drop" PROVE watch'[cur[u]] = "no"
        OBVIOUS
      <4>1. cur[u] \in Clients /\ watch[cur[u]] = "no" /\ \A g \in Fds : m_conn_map[g] # cur[u]
        BY <3>1 DEF Safe, Current
      <4>2. op = "add" => cur[u] # c
        BY <1>4, <1>11, <4>1 DEF InMap
      <4> QED BY <1>10, <4>1, <4>2
    <3> QED BY <3>1, <3>2, <3>3, <3>4 DEF Safe, Current
  <2> QED BY <2>1, <2>2
<1> QED BY <1>9, <1>12, <1>13, <1>14, <1>16, <1>17, <1>18, <1>19 DEF Safe

\* A step of a thread of the pool keeps the invariant.
LEMMA PoolSafe ==
  ASSUME IInv, NEW t \in Service, PoolNext(t) PROVE IInv'
<1>0. TypeOK /\ Rounds /\ Safe /\ TypeOK' /\ Rounds'
  BY TypePool DEF IInv, Safe
<1>1. CASE Poll(t)
  BY <1>0, <1>1, PollStep DEF IInv
<1>2. CASE OnRemoveConn(t)
  BY <1>0, <1>2, OnRemoveConnStep DEF IInv
<1>3. CASE FinalDestory(t)
  BY <1>0, <1>3, FinalDestoryStep DEF IInv
<1>4. CASE SwapPending(t)
  BY <1>0, <1>4, SwapPendingStep DEF IInv
<1>5. CASE WorkReturns(t)
  <2>1. /\ lpc[t] = "drop" /\ lpc' = [lpc EXCEPT ![t] = "work"]
        /\ cur' = [cur EXCEPT ![t] = None] /\ Unref
        /\ UNCHANGED <<service, m_conn_map, tasks, held, batch, chan, watch, backlog, peer,
                       newc, mpc, user>>
    BY <1>5 DEF WorkReturns, PoolKeeps, mainvars
  <2>2. \A u \in Service : \/ cur'[u] = cur[u] /\ lpc'[u] = lpc[u]
                           \/ cur'[u] = None /\ lpc[u] = "drop" /\ lpc'[u] = "work"
    BY <1>0, <2>1, Ranges
  <2>3. \A c \in Clients : Owned(c)' => Owned(c)
    BY <2>1, <2>2, NoneApart DEF Owned, Tasks
  <2> QED BY <1>0, <2>1, <2>2, <2>3, DropStep DEF IInv
<1>6. ASSUME NEW c \in Clients, ProcessWork(t, c) PROVE IInv'
  BY <1>0, <1>6, ProcessWorkStep DEF IInv
<1>7. ASSUME NEW c \in Clients, AddTask(t, c) PROVE IInv'
  <2>1. /\ NextTask(t, "add", c) /\ Unref /\ user' \subseteq user
        /\ watch' = [watch EXCEPT ![c] = Asked(c)] /\ chan' = [chan EXCEPT ![t][fd[c]] = c]
    BY <1>7 DEF AddTask
  <2>2. Safe'
    BY <1>0, <2>1, TaskStep
  <2> QED BY <1>0, <2>2 DEF IInv
<1>8. ASSUME NEW c \in Clients, UpdateTask(t, c) PROVE IInv'
  <2>1. /\ NextTask(t, "update", c) /\ Unref /\ user' \subseteq user /\ chan' = chan
        /\ watch' = [watch EXCEPT ![c] = IF @ = "no" THEN @ ELSE Asked(c)]
    BY <1>8 DEF UpdateTask
  <2>2. \A d \in Clients : watch[d] = "no" <=> watch'[d] = "no"
    BY <1>0, <2>1, Ranges DEF Asked
  <2>3. Safe'
    BY <1>0, <2>1, <2>2, TaskStep
  <2> QED BY <1>0, <2>3 DEF IInv
<1>9. ASSUME NEW c \in Clients, ConnTask(t, c) PROVE IInv'
  <2>1. /\ NextTask(t, "conn", c) /\ Unref /\ user' \subseteq user \cup {c}
        /\ chan' = chan /\ watch' = watch
    BY <1>9 DEF ConnTask, Keeping
  <2>2. Safe'
    BY <1>0, <2>1, TaskStep
  <2> QED BY <1>0, <2>2 DEF IInv
<1> QED BY <1>1, <1>2, <1>3, <1>4, <1>5, <1>6, <1>7, <1>8, <1>9 DEF PoolNext
-------------------------------------------------------------------------------
(* The rest, and the theorems.                                             *)

\* A client that connects has no descriptor yet and is not in the backlog.
LEMMA ClientConnectsStep ==
  ASSUME TypeOK, TypeOK', Safe, NEW c \in Clients, ClientConnects(c) PROVE Safe'
<1>1. /\ peer[c] = "idle" /\ peer' = [peer EXCEPT ![c] = "up"] /\ backlog' = Append(backlog, c)
      /\ UNCHANGED <<newc, mpc, fd, service, m_conn_map, tasks, held, lpc, batch, cur, chan,
                     watch, user>>
  BY DEF ClientConnects, ClientKeeps, poolvars
<1>2. \A d : InMap(d) <=> InMap(d)'
  BY <1>1 DEF InMap
<1>3. Ownership' /\ FdUnique' /\ MapFiled'
  BY <1>1 DEF Safe, Ownership, Owned, Tasks, FdUnique, MapFiled
<1>4. Waiting'
  <2> DEFINE n == Len(backlog)
  <2>1. backlog \in Seq(Clients) /\ peer \in [Clients -> {"idle", "up", "fin", "reset"}]
    BY DEF TypeOK
  <2>2. n \in Nat /\ DOMAIN backlog = 1 .. n
    BY <2>1, LenProperties
  <2>3. /\ Append(backlog, c) \in Seq(Clients) /\ Len(Append(backlog, c)) = n + 1
        /\ \A i \in 1 .. n : Append(backlog, c)[i] = backlog[i]
        /\ Append(backlog, c)[n + 1] = c
    BY <2>1, AppendProperties
  <2>4. DOMAIN backlog' = 1 .. n + 1
    BY <1>1, <2>3, LenProperties
  <2>5. fd[c] = None /\ peer'[c] = "up" /\ \A d \in Clients : d # c => peer'[d] = peer[d]
    BY <1>1, <2>1 DEF Safe, Waiting
  <2>6. \A i \in 1 .. n : backlog[i] \in Clients /\ backlog[i] # c /\ fd[backlog[i]] = None
                          /\ peer[backlog[i]] # "idle"
    BY <1>1, <2>2, Ranges DEF Safe, Waiting
  <2> HIDE DEF n
  <2>7. \A i \in DOMAIN backlog' : \/ i \in 1 .. n /\ backlog'[i] = backlog[i]
                                   \/ i = n + 1 /\ backlog'[i] = c
    BY <1>1, <2>2, <2>3, <2>4
  <2>8. \A i, j \in DOMAIN backlog' : backlog'[i] = backlog'[j] => i = j
    BY <2>2, <2>6, <2>7 DEF Safe, Waiting
  <2>9. \A i \in DOMAIN backlog' : fd[backlog'[i]] = None /\ peer'[backlog'[i]] # "idle"
    BY <2>5, <2>6, <2>7
  <2>10. \A d \in Clients : peer'[d] = "idle" => fd[d] = None
    BY <2>5 DEF Safe, Waiting
  <2> QED BY <1>1, <2>8, <2>9, <2>10 DEF Waiting
<1>5. NewConn' /\ Queued'
  BY <1>1, <1>2 DEF Safe, NewConn, Queued, Tasks, ConnOf
<1>6. Watching' /\ Filed'
  BY <1>1, <1>2 DEF Safe, Watching, Filed
<1>7. Batches' /\ Current'
  BY <1>1, <1>2 DEF Safe, Batches, Current
<1> QED BY <1>3, <1>4, <1>5, <1>6, <1>7 DEF Safe

\* A client that ends its connection changes nothing that the invariant is about.
LEMMA ClientEndsStep ==
  ASSUME TypeOK, TypeOK', Safe, NEW c \in Clients, NEW how \in {"fin", "reset"},
         ClientEnds(c, how)
  PROVE  Safe'
<1>1. /\ peer[c] = "up" /\ peer' = [peer EXCEPT ![c] = how]
      /\ UNCHANGED <<newc, mpc, backlog, fd, service, m_conn_map, tasks, held, lpc, batch, cur,
                     chan, watch, user>>
  BY DEF ClientEnds, ClientKeeps, poolvars
<1>2. \A d : InMap(d) <=> InMap(d)'
  BY <1>1 DEF InMap
<1>3. Ownership' /\ FdUnique' /\ MapFiled'
  BY <1>1 DEF Safe, Ownership, Owned, Tasks, FdUnique, MapFiled
<1>4. Waiting'
  <2>1. peer \in [Clients -> {"idle", "up", "fin", "reset"}]
    BY DEF TypeOK
  <2>2. \A d \in Clients : peer'[d] = "idle" <=> peer[d] = "idle"
    BY <1>1, <2>1
  <2> QED BY <1>1, <2>2, Ranges DEF Safe, Waiting
<1>5. NewConn' /\ Queued'
  BY <1>1, <1>2 DEF Safe, NewConn, Queued, Tasks, ConnOf
<1>6. Watching' /\ Filed'
  BY <1>1, <1>2 DEF Safe, Watching, Filed
<1>7. Batches' /\ Current'
  BY <1>1, <1>2 DEF Safe, Batches, Current
<1> QED BY <1>3, <1>4, <1>5, <1>6, <1>7 DEF Safe

\* Steps of the clients and of the user's thread keep the invariant.
LEMMA OutsideSafe ==
  ASSUME IInv, OutsideNext PROVE IInv'
<1>0. TypeOK /\ Rounds /\ Safe /\ TypeOK' /\ Rounds'
  BY TypeOutside DEF IInv
<1>1. PICK c \in Clients : \/ ClientConnects(c)
                           \/ \E how \in {"fin", "reset"} : ClientEnds(c, how)
                           \/ UserReleases(c)
                           \/ \E t \in Service : RefusedSend(t, c)
  BY DEF OutsideNext
<1>2. CASE ClientConnects(c)
  BY <1>0, <1>2, ClientConnectsStep DEF IInv
<1>3. CASE \E how \in {"fin", "reset"} : ClientEnds(c, how)
  BY <1>0, <1>3, ClientEndsStep DEF IInv
<1>4. CASE UserReleases(c)
  <2>1. /\ user' = user \ {c} /\ Unref
        /\ UNCHANGED <<service, m_conn_map, tasks, held, batch, chan, watch, backlog, peer,
                       newc, mpc, cur, lpc>>
    BY <1>4 DEF UserReleases, ClientKeeps, poolvars
  <2>2. \A d \in Clients : Owned(d)' => Owned(d)
    BY <2>1 DEF Owned, Tasks
  <2> QED BY <1>0, <2>1, <2>2, DropStep DEF IInv
<1>5. ASSUME NEW t \in Service, RefusedSend(t, c) PROVE IInv'
  <2>1. /\ watch[c] = "in" /\ watch' = [watch EXCEPT ![c] = "yes"]
        /\ UNCHANGED <<newc, mpc, backlog, fd, service, m_conn_map, tasks, held, lpc, batch,
                       cur, chan, user, peer>>
    BY <1>5 DEF RefusedSend, mainvars
  <2>2. \A d \in Clients : watch[d] = "no" <=> watch'[d] = "no"
    BY <1>0, <2>1, Ranges
  <2> QED BY <1>0, <2>1, <2>2, StillStep DEF IInv
<1> QED BY <1>1, <1>2, <1>3, <1>4, <1>5

\* Nothing in Safe depends on the acceptor or on the thread that readies the server.
LEMMA SafeUnchanged ==
  ASSUME Safe, UNCHANGED <<mpc, newc, backlog, peer, fd, service, m_conn_map, tasks, held, lpc,
                           batch, cur, chan, watch, user>>
  PROVE  Safe'
BY DEF Safe, Ownership, Owned, Tasks, FdUnique, MapFiled, Waiting, NewConn, Queued, Watching,
       Filed, Batches, Current, InMap, ConnOf

\* The setup and stop() touch the acceptor only.
LEMMA SetupSafe ==
  ASSUME IInv, SetupNext \/ StopNext PROVE IInv'
<1>0. TypeOK /\ Rounds /\ Safe /\ TypeOK' /\ Rounds'
  BY TypeSetup DEF IInv
<1>1. UNCHANGED <<mpc, newc, backlog, peer, fd, service, m_conn_map, tasks, held, lpc, batch,
                  cur, chan, watch, user>>
  BY DEF SetupNext, StopNext, Construct, Listen, EnableReadFlags, EnableRead, UpdateChannel,
         StopRead, StopRemove, SetupKeeps, poolvars
<1> QED BY <1>0, <1>1, SafeUnchanged DEF IInv

\* The inductive invariant holds in every reachable state.
THEOREM IInvHolds == Spec => []IInv
<1>1. Init => IInv
  BY InitSafe
<1>2. IInv /\ [Next]_vars => IInv'
  <2> SUFFICES ASSUME IInv, [Next]_vars PROVE IInv'
    OBVIOUS
  <2>1. CASE Next
    BY <2>1, SetupSafe, MainSafe, PoolSafe, OutsideSafe DEF Next
  <2>2. CASE UNCHANGED vars
    <3>1. UNCHANGED <<spc, snap, acc, mtasks, mleft, mpc, events, newc, index, backlog, peer, fd,
                      service, m_conn_map, tasks, ntask, held, lpc, batch, cur, chan, watch,
                      flag, user, refused>>
      BY <2>2 DEF vars, mainvars, poolvars
    <3>2. TypeOK /\ Rounds /\ Safe
      BY DEF IInv
    <3>3. /\ backlog' \in Seq(Clients) /\ user' \subseteq Clients /\ refused' \subseteq Clients
          /\ flag' \in [Clients -> BOOLEAN]
          /\ peer' \in [Clients -> {"idle", "up", "fin", "reset"}]
          /\ fd' \in [Clients -> Fds \cup {None}]
      BY <3>1, <3>2 DEF TypeOK
    <3>4. /\ m_conn_map' \in [Fds -> Clients \cup {None}]
          /\ tasks' \in [Service -> Seq([op : {"add", "update", "conn"}, c : Clients])]
          /\ ntask' \in [Service -> Nat] /\ held' \in [Service -> SUBSET Clients]
          /\ lpc' \in [Service -> {"wait", "work", "erase", "del", "drop", "tasks"}]
          /\ batch' \in [Service -> SUBSET Clients] /\ cur' \in [Service -> Clients \cup {None}]
          /\ chan' \in [Service -> [Fds -> Clients \cup {None}]]
          /\ watch' \in [Clients -> {"no", "yes", "in"}]
      BY <3>1, <3>2 DEF TypeOK
    <3>5. \A u \in Service : ntask'[u] <= Len(tasks'[u]) /\ (lpc'[u] = "tasks" => ntask'[u] > 0)
      BY <3>1, <3>2 DEF TypeOK, Rounds
    <3>6. TypeOK' /\ Rounds'
      BY <3>1, <3>2, <3>3, <3>4, <3>5, TypeRest
    <3> QED BY <3>1, <3>2, <3>6, SafeUnchanged DEF IInv
  <2> QED BY <2>1, <2>2
<1> QED BY <1>1, <1>2, PTL DEF Spec

\* The variables of the server keep their ranges, for any number of clients,
\* threads and descriptors.
THEOREM TypeCorrect == Spec => []TypeOK
<1>1. IInv => TypeOK
  BY DEF IInv
<1> QED BY <1>1, IInvHolds, PTL

\* No poller, round of events or task points to a connection that is gone.
THEOREM NoPointerDangles == Spec => []PointersAlive
<1>1. IInv => PointersAlive
  <2> SUFFICES ASSUME IInv, NEW t \in Service
               PROVE  /\ \A f \in Fds : chan[t][f] # None => fd[chan[t][f]] = f
                      /\ \A c \in batch[t] : fd[c] # None
                      /\ \A k \in Tasks(t) : fd[k.c] # None
    BY DEF PointersAlive
  <2>0. TypeOK /\ Safe
    BY DEF IInv
  <2>1. \A f \in Fds : chan[t][f] # None => fd[chan[t][f]] = f
    BY <2>0 DEF Safe, Filed
  <2>2. \A c \in batch[t] : fd[c] # None
    BY <2>0 DEF Safe, Batches, InMap
  <2>3. \A k \in Tasks(t) : fd[k.c] # None
    BY <2>0, TaskOwned, OwnedHasFd DEF Safe, Tasks
  <2> QED BY <2>1, <2>2, <2>3
<1> QED BY <1>1, IInvHolds, PTL

\* m_channel_map and epoll agree about every open connection.
THEOREM PollersAgree == Spec => []PollerAgrees
<1>1. IInv => PollerAgrees
  <2> SUFFICES ASSUME IInv, NEW c \in Clients, fd[c] # None, NEW t \in Service
               PROVE  chan[t][fd[c]] = c <=> watch[c] # "no" /\ service[c] = t
    BY DEF PollerAgrees
  <2>0. TypeOK /\ Safe
    BY DEF IInv
  <2>1. fd[c] \in Fds /\ c # None
    BY <2>0, NoneApart DEF TypeOK
  <2>2. chan[t][fd[c]] = c => watch[c] # "no" /\ service[c] = t
    BY <2>0, <2>1 DEF Safe, Filed
  <2>3. watch[c] # "no" /\ service[c] = t => chan[t][fd[c]] = c
    BY <2>0 DEF Safe, Watching
  <2> QED BY <2>2, <2>3
<1> QED BY <1>1, IInvHolds, PTL

\* An entry of m_conn_map goes only by the hand of the thread that closes its
\* connection, although descriptors are used again.
THEOREM EntriesStay == Spec => ErasedByOwner
<1> DEFINE A == \A f \in Fds : m_conn_map[f] # None /\ m_conn_map'[f] # m_conn_map[f] =>
                  /\ m_conn_map'[f] = None
                  /\ \E t \in Service : cur[t] = m_conn_map[f] /\ lpc[t] = "erase"
<1>1. IInv /\ [Next]_vars => [A]_vars
  <2> SUFFICES ASSUME IInv, Next PROVE A
    OBVIOUS
  <2>0. TypeOK /\ Safe
    BY DEF IInv
  <2>1. CASE OnNewConn
    <3>1. newc \in Clients /\ mpc = "insert" /\ \A f \in Fds : m_conn_map[f] # newc
      BY <2>0, <2>1 DEF OnNewConn, Safe, NewConn, NewPcs, TypeOK
    <3>2. fd[newc] \in Fds /\ fd[newc] # None
      BY <2>0, <3>1, OwnedHasFd DEF Safe, Owned
    <3>3. m_conn_map[fd[newc]] = None
      <4> SUFFICES ASSUME m_conn_map[fd[newc]] # None PROVE FALSE
        OBVIOUS
      <4>1. m_conn_map[fd[newc]] \in Clients /\ fd[m_conn_map[fd[newc]]] = fd[newc]
        BY <2>0, <3>2 DEF Safe, MapFiled, TypeOK
      <4> QED BY <2>0, <3>1, <3>2, <4>1 DEF Safe, FdUnique
    <3>4. \A f \in Fds : f # fd[newc] => m_conn_map'[f] = m_conn_map[f]
      BY <2>0, <2>1 DEF OnNewConn, TypeOK
    <3> QED BY <3>3, <3>4
  <2>2. ASSUME NEW t \in Service, OnRemoveConn(t) PROVE A
    <3>1. lpc[t] = "erase" /\ m_conn_map' = [m_conn_map EXCEPT ![fd[cur[t]]] = None]
      BY <2>2 DEF OnRemoveConn
    <3>2. cur[t] \in Clients /\ fd[cur[t]] \in Fds /\ m_conn_map[fd[cur[t]]] = cur[t]
      <4>1. cur[t] \in Clients /\ InMap(cur[t])
        BY <2>0, <3>1 DEF Safe, Current, TypeOK
      <4> QED BY <2>0, <4>1 DEF InMap, TypeOK
    <3>3. /\ m_conn_map'[fd[cur[t]]] = None
          /\ \A f \in Fds : f # fd[cur[t]] => m_conn_map'[f] = m_conn_map[f]
      BY <2>0, <3>1, <3>2 DEF TypeOK
    <3> QED BY <3>1, <3>2, <3>3
  <2>3. CASE m_conn_map' = m_conn_map
    BY <2>3
  <2>4. CASE SetupNext \/ StopNext
    BY <2>3, <2>4 DEF SetupNext, StopNext, Construct, Listen, EnableReadFlags, EnableRead,
       UpdateChannel, StopRead, StopRemove, SetupKeeps
  <2>5. CASE MainNext
    <3>1. OnNewConn \/ m_conn_map' = m_conn_map
      BY <2>5 DEF MainNext, MainPoll, SaveEvtStatus, Accept, JoinToService, StartRead,
         StartUpdate, QueueConnCallback, StartKeeps, NewConnReturns, MainSwap, MainTask
    <3> QED BY <2>1, <2>3, <3>1
  <2>6. ASSUME NEW t \in Service, PoolNext(t) PROVE A
    <3>1. OnRemoveConn(t) \/ m_conn_map' = m_conn_map
      BY <2>6 DEF PoolNext, Poll, FinalDestory, WorkReturns, SwapPending, ProcessWork,
         AddTask, UpdateTask, ConnTask, NextTask
    <3> QED BY <2>2, <2>3, <3>1
  <2>7. CASE OutsideNext
    BY <2>3, <2>7 DEF OutsideNext, ClientConnects, ClientEnds, UserReleases, RefusedSend,
       ClientKeeps
  <2> QED BY <2>4, <2>5, <2>6, <2>7 DEF Next
<1> QED BY <1>1, IInvHolds, PTL DEF Spec, ErasedByOwner

================================================================================

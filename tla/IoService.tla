------------------------------- MODULE IoService -------------------------------
(***************************************************************************)
(* muradin::net::io_service: one loop thread in run(), and other threads   *)
(* ("callers") that hand it tasks with run_task() or stop it with quit().  *)
(*                                                                         *)
(* Shared state: the task vector m_pending_tasks under m_mutex, the flags  *)
(* m_quit and m_running_pending_tasks, and the eventfd that wake_me_up()   *)
(* writes.  The loop thread alternates between epoll_wait, the handlers of *)
(* the channels that are ready, and the pending tasks.                     *)
(*                                                                         *)
(* push_back on the vector takes two steps (the vector is read, then       *)
(* written), so that the mutex is what keeps concurrent pushes apart and   *)
(* not the atomicity of an action.  run_task() from the loop thread itself *)
(* calls the functor in place and touches none of this state.              *)
(***************************************************************************)
EXTENDS Naturals, Sequences

CONSTANTS Callers,    \* threads other than the loop thread
          Loop,       \* the thread m_owner_tid
          NoThread,   \* m_mutex is free
          MaxTasks    \* bound: tasks handed over by one caller

ASSUME ThreadsAssumption ==
  /\ Loop \notin Callers
  /\ NoThread \notin Callers \cup {Loop}
  /\ MaxTasks \in Nat

VARIABLES
  m_pending_tasks,          \* the vector of tasks
  m_mutex,                  \* the thread inside the critical section
  m_running_pending_tasks,
  m_quit,
  evtfd,                    \* the kernel's counter of m_wakeup_fd
  to_run,                   \* run_pending_task()'s local vector, from to_run[i] on
  active,                   \* the kinds of channel wait_for_evt() returned
  pc,                       \* where each thread is
  snapshot,                 \* the vector as a caller inside push_back read it
  next,                     \* number of the next task each caller hands over
  done,                     \* history: tasks executed, oldest first
  woken                     \* history: wake_me_up() was called during this wait

vars == <<m_pending_tasks, m_mutex, m_running_pending_tasks, m_quit, evtfd,
          to_run, active, pc, snapshot, next, done, woken>>

\* The n-th task a caller hands over.
Task == Callers \X (1 .. MaxTasks)

\* The channels of the poller: m_self_channel, and those of sockets.
Channels == {"self", "io"}

LoopPC == {"while", "wait", "dispatch", "pending", "run", "exited"}
CallerPC == {"idle", "push", "wake"}

Init ==
  /\ m_pending_tasks = <<>>
  /\ m_mutex = NoThread
  /\ m_running_pending_tasks = FALSE
  /\ m_quit = FALSE
  /\ evtfd = 0
  /\ to_run = <<>>
  /\ active = {}
  /\ pc = [t \in Callers \cup {Loop} |-> IF t = Loop THEN "while" ELSE "idle"]
  /\ snapshot = [c \in Callers |-> <<>>]
  /\ next = [c \in Callers |-> 1]
  /\ done = <<>>
  /\ woken = FALSE

Goto(t, label) == pc' = [pc EXCEPT ![t] = label]
-------------------------------------------------------------------------------
(* wake_me_up(): the value written to the eventfd is a static zero.        *)

n64 == 0

wake_me_up ==
  /\ evtfd' = evtfd + n64
  /\ woken' = (woken \/ pc[Loop] = "wait")
-------------------------------------------------------------------------------
(* The callers.                                                            *)

\* Mutant: push_back without the lock.
QueueTaskLock_Unlocked(c) ==
  /\ pc[c] = "idle"
  /\ next[c] <= MaxTasks
  /\ m_mutex' = c
  /\ snapshot' = [snapshot EXCEPT ![c] = m_pending_tasks]
  /\ Goto(c, "push")
  /\ UNCHANGED <<m_pending_tasks, m_running_pending_tasks, m_quit, evtfd, to_run,
                 active, next, done, woken>>

\* queue_task(): the lock is taken and push_back reads the vector.
QueueTaskLock(c) ==
  /\ pc[c] = "idle"
  /\ next[c] <= MaxTasks
  /\ m_mutex = NoThread
  /\ m_mutex' = c
  /\ snapshot' = [snapshot EXCEPT ![c] = m_pending_tasks]
  /\ Goto(c, "push")
  /\ UNCHANGED <<m_pending_tasks, m_running_pending_tasks, m_quit, evtfd, to_run,
                 active, next, done, woken>>

\* push_back writes the vector, the lock's scope ends.
QueueTaskPush(c) ==
  /\ pc[c] = "push"
  /\ m_pending_tasks' = Append(snapshot[c], <<c, next[c]>>)
  /\ next' = [next EXCEPT ![c] = @ + 1]
  /\ snapshot' = [snapshot EXCEPT ![c] = <<>>]
  /\ m_mutex' = NoThread
  /\ Goto(c, "wake")
  /\ UNCHANGED <<m_running_pending_tasks, m_quit, evtfd, to_run, active, done, woken>>

\* The call of wake_me_up() that ends queue_task() and quit().
WakeMeUp(c) ==
  /\ pc[c] = "wake"
  /\ wake_me_up
  /\ Goto(c, "idle")
  /\ UNCHANGED <<m_pending_tasks, m_mutex, m_running_pending_tasks, m_quit, to_run,
                 active, snapshot, next, done>>

\* quit() from another thread: the flag is set without the lock.
Quit(c) ==
  /\ pc[c] = "idle"
  /\ m_quit' = TRUE
  /\ Goto(c, "wake")
  /\ UNCHANGED <<m_pending_tasks, m_mutex, m_running_pending_tasks, evtfd, to_run,
                 active, snapshot, next, done, woken>>
-------------------------------------------------------------------------------
(* The loop thread.                                                        *)

\* A handler or a task run by the loop may call quit() itself.
QuitInLoop(calls, fd) ==
  /\ m_quit' = (m_quit \/ calls)
  /\ evtfd' = IF calls THEN fd + n64 ELSE fd

WhileNotQuit ==
  /\ pc[Loop] = "while"
  /\ Goto(Loop, IF m_quit THEN "exited" ELSE "wait")
  /\ active' = {}
  /\ woken' = FALSE
  /\ UNCHANGED <<m_pending_tasks, m_mutex, m_running_pending_tasks, m_quit, evtfd,
                 to_run, snapshot, next, done>>

\* The eventfd is readable exactly when its counter is positive.
SelfReady == IF evtfd > 0 THEN {"self"} ELSE {}

\* epoll_wait returns with at least one event.
PollEvents ==
  /\ pc[Loop] = "wait"
  /\ \E io \in SUBSET {"io"} :
       /\ SelfReady \cup io # {}
       /\ active' = SelfReady \cup io
  /\ Goto(Loop, "dispatch")
  /\ UNCHANGED <<m_pending_tasks, m_mutex, m_running_pending_tasks, m_quit, evtfd,
                 to_run, snapshot, next, done, woken>>

\* Mutant: epoll_wait without a timeout.
PollTimeout_Infinite == FALSE

\* poll_timout_ms elapses with nothing ready.
PollTimeout ==
  /\ pc[Loop] = "wait"
  /\ SelfReady = {}
  /\ Goto(Loop, "dispatch")
  /\ UNCHANGED <<m_pending_tasks, m_mutex, m_running_pending_tasks, m_quit, evtfd,
                 to_run, active, snapshot, next, done, woken>>

\* process_work() of the active channels; m_self_channel's handler is on_read(),
\* which reads the eventfd and so resets it.  run_pending_task() is entered.
ProcessWork ==
  /\ pc[Loop] = "dispatch"
  /\ \E calls \in BOOLEAN :
       /\ calls => "io" \in active
       /\ QuitInLoop(calls, IF "self" \in active THEN 0 ELSE evtfd)
  /\ m_running_pending_tasks' = TRUE
  /\ Goto(Loop, "pending")
  /\ UNCHANGED <<m_pending_tasks, m_mutex, to_run, active, snapshot, next, done, woken>>

\* Mutant: the swap outside the lock.
SwapPending_Unlocked ==
  /\ pc[Loop] = "pending"
  /\ to_run' = m_pending_tasks
  /\ m_pending_tasks' = to_run
  /\ Goto(Loop, "run")
  /\ UNCHANGED <<m_mutex, m_running_pending_tasks, m_quit, evtfd, active, snapshot,
                 next, done, woken>>

\* The swap, inside the lock's scope.
SwapPending ==
  /\ pc[Loop] = "pending"
  /\ m_mutex = NoThread
  /\ to_run' = m_pending_tasks
  /\ m_pending_tasks' = to_run
  /\ Goto(Loop, "run")
  /\ UNCHANGED <<m_mutex, m_running_pending_tasks, m_quit, evtfd, active, snapshot,
                 next, done, woken>>

\* Mutant: the newest task first.
RunTask_Newest ==
  /\ pc[Loop] = "run"
  /\ to_run # <<>>
  /\ done' = Append(done, to_run[Len(to_run)])
  /\ to_run' = SubSeq(to_run, 1, Len(to_run) - 1)
  /\ \E calls \in BOOLEAN : QuitInLoop(calls, evtfd)
  /\ UNCHANGED <<m_pending_tasks, m_mutex, m_running_pending_tasks, active, pc,
                 snapshot, next, woken>>

\* to_run[i]()
RunTask ==
  /\ pc[Loop] = "run"
  /\ to_run # <<>>
  /\ done' = Append(done, Head(to_run))
  /\ to_run' = Tail(to_run)
  /\ \E calls \in BOOLEAN : QuitInLoop(calls, evtfd)
  /\ UNCHANGED <<m_pending_tasks, m_mutex, m_running_pending_tasks, active, pc,
                 snapshot, next, woken>>

PendingDone ==
  /\ pc[Loop] = "run"
  /\ to_run = <<>>
  /\ m_running_pending_tasks' = FALSE
  /\ Goto(Loop, "while")
  /\ UNCHANGED <<m_pending_tasks, m_mutex, m_quit, evtfd, to_run, active, snapshot,
                 next, done, woken>>
-------------------------------------------------------------------------------
CallerNext(c) == QueueTaskLock(c) \/ QueueTaskPush(c) \/ WakeMeUp(c) \/ Quit(c)

LoopNext == \/ WhileNotQuit \/ PollEvents \/ PollTimeout \/ ProcessWork
            \/ SwapPending \/ RunTask \/ PendingDone

Next == LoopNext \/ \E c \in Callers : CallerNext(c)

Spec == Init /\ [][Next]_vars

(* The loop thread keeps being scheduled and epoll_wait returns after at   *)
(* most poll_timout_ms; a caller inside queue_task() finishes it.  Nobody  *)
(* is obliged to send the loop an event, a task or quit().                 *)
Fairness ==
  /\ WF_vars(LoopNext /\ (pc[Loop] = "wait" => SelfReady # {}))
  /\ WF_vars(PollTimeout)
  /\ \A c \in Callers : WF_vars(QueueTaskPush(c)) /\ WF_vars(WakeMeUp(c))

FairSpec == Spec /\ Fairness
-------------------------------------------------------------------------------
(* Properties.                                                             *)

\* The ranges of the variables; a caller's task numbers start at 1.
TypeOK ==
  /\ m_pending_tasks \in Seq(Task)
  /\ to_run \in Seq(Task)
  /\ done \in Seq(Task)
  /\ m_mutex \in Callers \cup {NoThread}
  /\ m_running_pending_tasks \in BOOLEAN
  /\ m_quit \in BOOLEAN
  /\ woken \in BOOLEAN
  /\ evtfd \in Nat
  /\ active \in SUBSET Channels
  /\ pc \in [Callers \cup {Loop} -> LoopPC \cup CallerPC]
  /\ pc[Loop] \in LoopPC
  /\ \A c \in Callers : pc[c] \in CallerPC
  /\ snapshot \in [Callers -> Seq(Task)]
  /\ next \in [Callers -> 1 .. MaxTasks + 1]

\* Every task the service has ever accepted, in the order it runs them.
Accepted == done \o (to_run \o m_pending_tasks)

\* The tasks of one caller run in the order in which it handed them over, and
\* none of them runs twice, whatever the other callers push meanwhile
\* (queue_task() against run_pending_task()'s swap).
PerCallerOrder ==
  \A i, j \in DOMAIN Accepted :
    i < j /\ Accepted[i][1] = Accepted[j][1] => Accepted[i][2] < Accepted[j][2]

\* No push is lost to a concurrent push or swap: a task whose queue_task()
\* left its critical section has run or is still going to be run.
NoTaskLost ==
  \A c \in Callers : \A n \in 1 .. next[c] - 1 :
    \E i \in DOMAIN Accepted : Accepted[i] = <<c, n>>

\* The inductive core: the thread between the two halves of push_back holds
\* m_mutex, and what it read is still what the vector holds; task numbers in
\* the service are below the caller's next one; to_run is empty outside the
\* for loop.
PushExclusive ==
  \A c \in Callers : pc[c] = "push" =>
    m_mutex = c /\ snapshot[c] = m_pending_tasks /\ next[c] <= MaxTasks

HolderPushes == \A c \in Callers : m_mutex = c => pc[c] = "push"

NumbersBelowNext ==
  \A i \in DOMAIN Accepted : Accepted[i][2] < next[Accepted[i][1]]

IInv ==
  /\ TypeOK
  /\ PushExclusive
  /\ HolderPushes
  /\ pc[Loop] # "run" => to_run = <<>>
  /\ NumbersBelowNext
  /\ PerCallerOrder
  /\ NoTaskLost

\* io_service implements the abstract queue: a push is the acceptance of a
\* fresh task, to_run[i]() the execution of the oldest, all else a stutter.
Abstract == INSTANCE TaskQueue
              WITH queue <- to_run \o m_pending_tasks, executed <- done

ImplementsTaskQueue == Abstract!Spec

\* A task that was pushed is executed, unless the loop leaves run().
PushedTaskRuns ==
  \A c \in Callers : \A n \in 1 .. MaxTasks :
    next[c] > n ~> (\E i \in DOMAIN done : done[i] = <<c, n>>) \/ pc[Loop] = "exited"

\* quit(), from any thread or from a handler, makes run() return.
QuitEndsRun == m_quit ~> pc[Loop] = "exited"

\* wait_channel()'s comment: a wait during which wake_me_up() was called does
\* not go on until the timeout, it ends with an event.
WakeEndsWait ==
  [][pc[Loop] = "wait" /\ pc'[Loop] # "wait" /\ woken => active' # {}]_vars
================================================================================

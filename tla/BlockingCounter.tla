---------------------------- MODULE BlockingCounter ----------------------------
(***************************************************************************)
(* muradin::base::blocking_counter: a number under m_mutex, threads that   *)
(* change it and notify m_cond, and threads in wait_for() a value.  What   *)
(* is done under the lock is one action; the notification comes after it.  *)
(***************************************************************************)
EXTENDS Integers

CONSTANTS Waiters,    \* threads that call wait_for(), once each
          Target,     \* the value each of them waits for
          Counters,   \* threads that call increment() and decrement()
          InitCount,  \* the constructor's init_count
          MaxSteps    \* bound: calls of one thread

ASSUME CounterAssumption ==
  /\ Target \in [Waiters -> Int]
  /\ InitCount \in Int
  /\ MaxSteps \in Nat

VARIABLES m_val,
          wpc,       \* where each thread in wait_for() is
          cpc,       \* where each thread in increment() or decrement() is
          steps      \* calls each of these has made

vars == <<m_val, wpc, cpc, steps>>

Init ==
  /\ m_val = InitCount
  /\ wpc = [w \in Waiters |-> "call"]
  /\ cpc = [c \in Counters |-> "idle"]
  /\ steps = [c \in Counters |-> 0]

\* wait_for(): the test under the lock, on entry and after every wake-up.
Test(w) ==
  /\ wpc[w] \in {"call", "woken"}
  /\ wpc' = [wpc EXCEPT ![w] = IF m_val = Target[w] THEN "returned" ELSE "waiting"]
  /\ UNCHANGED <<m_val, cpc, steps>>

\* A condition variable may wake a thread for no reason.
SpuriousWake(w) ==
  /\ wpc[w] = "waiting"
  /\ wpc' = [wpc EXCEPT ![w] = "woken"]
  /\ UNCHANGED <<m_val, cpc, steps>>

\* Mutant: no notification.
Count_Silent(c, d) ==
  /\ cpc[c] = "idle" /\ steps[c] < MaxSteps
  /\ m_val' = m_val + d
  /\ steps' = [steps EXCEPT ![c] = @ + 1]
  /\ UNCHANGED <<wpc, cpc>>

\* increment() (d = 1) and decrement() (d = -1) up to the end of the lock's scope.
\* Neither has a return statement, and no caller uses a result.
Count(c, d) ==
  /\ cpc[c] = "idle" /\ steps[c] < MaxSteps
  /\ m_val' = m_val + d
  /\ cpc' = [cpc EXCEPT ![c] = "notify"]
  /\ steps' = [steps EXCEPT ![c] = @ + 1]
  /\ UNCHANGED wpc

\* notify_one()
NotifyOne(c) ==
  /\ cpc[c] = "notify"
  /\ cpc' = [cpc EXCEPT ![c] = "idle"]
  /\ \/ (\A w \in Waiters : wpc[w] # "waiting") /\ UNCHANGED wpc
     \/ \E w \in Waiters : wpc[w] = "waiting" /\ wpc' = [wpc EXCEPT ![w] = "woken"]
  /\ UNCHANGED <<m_val, steps>>

Next ==
  \/ \E w \in Waiters : Test(w) \/ SpuriousWake(w)
  \/ \E c \in Counters : NotifyOne(c) \/ \E d \in {1, -1} : Count(c, d)

Spec == Init /\ [][Next]_vars

(* A thread that holds or wants the mutex gets on, one that has changed    *)
(* the number notifies.  Nobody has to change it or is woken for nothing.  *)
FairSpec ==
  /\ Spec
  /\ \A w \in Waiters : WF_vars(Test(w))
  /\ \A c \in Counters : WF_vars(NotifyOne(c))
-------------------------------------------------------------------------------
(* Properties.                                                             *)

\* The ranges of the variables the proof needs.
TypeOK ==
  /\ m_val \in Int
  /\ wpc \in [Waiters -> {"call", "waiting", "woken", "returned"}]
  /\ cpc \in [Counters -> {"idle", "notify"}]

\* A lone waiter never sleeps on the value it waits for, unless a thread that
\* has left the critical section is about to notify it.
NoLostWakeup ==
  \A w \in Waiters :
    wpc[w] = "waiting" /\ m_val = Target[w] => \E c \in Counters : cpc[c] = "notify"

\* When the number stays at the value somebody waits for, wait_for() returns.
WaitersReturn ==
  \A w \in Waiters : <>[](m_val = Target[w]) => <>(wpc[w] = "returned")
================================================================================

------------------------------ MODULE ServicePool ------------------------------
(***************************************************************************)
(* muradin::net::io_service_pool and its service_threads.  The owner calls *)
(* run(), next_service() any number of times and quit(); every             *)
(* service_thread runs an io_service that lives on that thread's stack and *)
(* publishes its address under a mutex and a condition variable.           *)
(***************************************************************************)
EXTENDS Naturals

CONSTANTS m_size,      \* threads of the pool
          MaxHanded    \* bound: calls of next_service()

\* io_service_pool.h: "size must >= 1".
ASSUME PoolAssumption == m_size \in Nat \ {0} /\ MaxHanded \in Nat

Threads == 1 .. m_size

VARIABLES
  opc,              \* the owner's call
  i,                \* its loop index, from one
  asleep,           \* the owner waits on m_cond of service_thread i
  tpc,              \* where each thread is
  m_service,        \* threads that have published their io_service
  m_services,       \* how many addresses run() has collected
  m_quit,           \* io_services told to quit
  m_service_index,
  handed,           \* history: how often each io_service was handed out
  calls             \* next_service() calls made

vars == <<opc, i, asleep, tpc, m_service, m_services, m_quit, m_service_index, handed,
          calls>>

Init ==
  /\ opc = "create" /\ i = 1 /\ asleep = FALSE
  /\ tpc = [t \in Threads |-> "none"]
  /\ m_service = {} /\ m_services = 0 /\ m_quit = {}
  /\ m_service_index = 0
  /\ handed = [t \in Threads |-> 0] /\ calls = 0

\* The next round of the owner's loop, or what follows it.
NextRound(after) ==
  IF i < m_size THEN i' = i + 1 /\ opc' = opc
                ELSE i' = 1 /\ opc' = after
-------------------------------------------------------------------------------
(* The owner.                                                              *)

\* service_thread(): the thread starts.
Create ==
  /\ opc = "create"
  /\ tpc' = [tpc EXCEPT ![i] = "start"]
  /\ NextRound("collect")
  /\ UNCHANGED <<asleep, m_service, m_services, m_quit, m_service_index, handed, calls>>

\* Mutant: run() sleeps without looking.
Collect_WaitsFirst ==
  /\ opc = "collect" /\ ~asleep
  /\ asleep' = TRUE
  /\ UNCHANGED <<opc, i, m_services>>
  /\ UNCHANGED <<tpc, m_service, m_quit, m_service_index, handed, calls>>

\* Mutant: run() returns what is there.
Collect_Unchecked ==
  /\ opc = "collect" /\ ~asleep
  /\ m_services' = m_services + 1 /\ NextRound("up") /\ UNCHANGED asleep
  /\ UNCHANGED <<tpc, m_service, m_quit, m_service_index, handed, calls>>

\* service_thread::run(): under the lock, take the address or sleep.
Collect ==
  /\ opc = "collect" /\ ~asleep
  /\ IF i \in m_service
       THEN m_services' = m_services + 1 /\ NextRound("up") /\ UNCHANGED asleep
       ELSE asleep' = TRUE /\ UNCHANGED <<opc, i, m_services>>
  /\ UNCHANGED <<tpc, m_service, m_quit, m_service_index, handed, calls>>

\* A condition variable may wake a thread for no reason.
SpuriousWake ==
  /\ asleep /\ asleep' = FALSE
  /\ UNCHANGED <<opc, i, tpc, m_service, m_services, m_quit, m_service_index, handed,
                 calls>>

\* Mutant: the last io_service is left out.
Wrapped_Early == IF m_service_index >= m_size - 1 THEN 0 ELSE m_service_index

Wrapped == IF m_service_index >= m_size THEN 0 ELSE m_service_index

\* Element Wrapped of m_services, from zero, is the io_service of thread Wrapped + 1.
next_service ==
  /\ opc = "up" /\ calls < MaxHanded
  /\ handed' = [handed EXCEPT ![Wrapped + 1] = @ + 1]
  /\ m_service_index' = Wrapped + 1
  /\ calls' = calls + 1
  /\ UNCHANGED <<opc, i, asleep, tpc, m_service, m_services, m_quit>>

\* quit() is called.
Quit ==
  /\ opc = "up" /\ opc' = "quit"
  /\ UNCHANGED <<i, asleep, tpc, m_service, m_services, m_quit, m_service_index, handed,
                 calls>>

\* Mutant: the last one is forgotten.
QuitOne_OffByOne ==
  /\ opc = "quit"
  /\ m_quit' = IF i < m_size THEN m_quit \cup {i} ELSE m_quit
  /\ NextRound("join")
  /\ UNCHANGED <<asleep, tpc, m_service, m_services, m_service_index, handed, calls>>

QuitOne ==
  /\ opc = "quit"
  /\ m_quit' = m_quit \cup {i}
  /\ NextRound("join")
  /\ UNCHANGED <<asleep, tpc, m_service, m_services, m_service_index, handed, calls>>

JoinOne ==
  /\ opc = "join" /\ tpc[i] = "exited"
  /\ NextRound("down")
  /\ UNCHANGED <<asleep, tpc, m_service, m_services, m_quit, m_service_index, handed,
                 calls>>
-------------------------------------------------------------------------------
(* thread_func() of thread t.                                              *)

\* The io_service is constructed and published.
Publish(t) ==
  /\ tpc[t] = "start"
  /\ tpc' = [tpc EXCEPT ![t] = "notify"]
  /\ m_service' = m_service \cup {t}
  /\ UNCHANGED <<opc, i, asleep, m_services, m_quit, m_service_index, handed, calls>>

\* notify_one() on this thread's m_cond, then ios.run().
Notify(t) ==
  /\ tpc[t] = "notify"
  /\ tpc' = [tpc EXCEPT ![t] = "run"]
  /\ asleep' = (asleep /\ i # t)
  /\ UNCHANGED <<opc, i, m_service, m_services, m_quit, m_service_index, handed, calls>>

\* ios.run() returns and the io_service is destroyed; m_service is not reset.
Exit(t) ==
  /\ tpc[t] = "run" /\ t \in m_quit
  /\ tpc' = [tpc EXCEPT ![t] = "exited"]
  /\ UNCHANGED <<opc, i, asleep, m_service, m_services, m_quit, m_service_index, handed,
                 calls>>
-------------------------------------------------------------------------------
OwnerSteps == Create \/ Collect \/ QuitOne \/ JoinOne
ThreadNext(t) == Publish(t) \/ Notify(t) \/ Exit(t)

Next == \/ OwnerSteps \/ SpuriousWake \/ next_service \/ Quit
        \/ \E t \in Threads : ThreadNext(t)

Spec == Init /\ [][Next]_vars

(* Every thread runs on; io_service::run() returns once told to quit (that *)
(* is QuitEndsRun of IoService).  Nobody has to call next_service() or     *)
(* quit().                                                                 *)
FairSpec ==
  /\ Spec
  /\ WF_vars(OwnerSteps)
  /\ \A t \in Threads : WF_vars(ThreadNext(t))
-------------------------------------------------------------------------------
(* Properties.                                                             *)

\* The ranges of the variables.
TypeOK ==
  /\ opc \in {"create", "collect", "up", "quit", "join", "down"}
  /\ i \in Threads /\ asleep \in BOOLEAN
  /\ tpc \in [Threads -> {"none", "start", "notify", "run", "exited"}]
  /\ m_service \subseteq Threads /\ m_quit \subseteq Threads
  /\ m_services \in 0 .. m_size
  /\ m_service_index \in 0 .. m_size
  /\ handed \in [Threads -> Nat] /\ calls \in Nat

\* While the pool is up, every address next_service() can return is that of an
\* io_service that has been constructed and not yet destroyed: run() has waited
\* for each thread, and no thread leaves before quit().
ServicesUsable ==
  opc = "up" => /\ m_services = m_size
                /\ \A t \in Threads : tpc[t] \in {"notify", "run"}

\* next_service() spreads the connections: the io_services differ by at most one.
Balanced == \A t, u \in Threads : handed[t] <= handed[u] + 1

\* The owner never sleeps on a published address without a notify_one() to come.
OwnerWoken == asleep => tpc[i] \in {"start", "notify"}

\* The inductive core: which threads have started, published and left at each
\* point of the owner's calls, and where the round robin stands.
StartedInOrder == \A t \in Threads : tpc[t] = "none" <=> opc = "create" /\ t >= i

PublishedOnce ==
  \A t \in Threads : t \in m_service <=> tpc[t] \in {"notify", "run", "exited"}

CollectedInOrder ==
  /\ opc = "create" => m_services = 0
  /\ opc = "collect" => m_services = i - 1 /\ \A t \in Threads : t < i => t \in m_service
  /\ opc \notin {"create", "collect"} => m_services = m_size /\ Threads \subseteq m_service

LeaveAfterQuit ==
  /\ opc \in {"create", "collect", "up"} => m_quit = {}
  /\ \A t \in Threads : tpc[t] = "exited" => t \in m_quit

RoundRobin ==
  \A t, u \in Threads :
    /\ t <= m_service_index /\ u <= m_service_index => handed[t] = handed[u]
    /\ t > m_service_index /\ u > m_service_index => handed[t] = handed[u]
    /\ t <= m_service_index /\ u > m_service_index => handed[t] = handed[u] + 1

IInv ==
  /\ TypeOK
  /\ StartedInOrder
  /\ PublishedOnce
  /\ CollectedInOrder
  /\ LeaveAfterQuit
  /\ asleep => opc = "collect"
  /\ OwnerWoken
  /\ RoundRobin

\* run() returns, however its test and the publication interleave.
PoolComesUp == <>(opc = "up")

\* quit() returns with all threads joined.
QuitJoinsAll == opc = "quit" ~> opc = "down"
================================================================================

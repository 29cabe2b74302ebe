--------------------------- MODULE ServicePoolProofs ---------------------------
(* Proofs about ServicePool, for every size of the pool and any number of  *)
(* connections handed out.                                                 *)
EXTENDS ServicePool, TLAPS

\* The owner's loops over the threads stay inside the pool.
LEMMA RoundTypes ==
  ASSUME m_size \in Nat \ {0}, i \in Threads, NEW after, NextRound(after)
  PROVE  i' \in Threads /\ opc' \in {opc, after}
  BY DEF NextRound, Threads

\* A pool that was just made satisfies the inductive invariant.
LEMMA InitInv == Init => IInv
<1> SUFFICES ASSUME Init PROVE IInv
  OBVIOUS
<1> USE PoolAssumption
<1>1. TypeOK
  <2>1. 1 \in Threads /\ 0 \in 0 .. m_size
    BY DEF Threads
  <2> QED
    BY <2>1 DEF Init, TypeOK
<1>2. StartedInOrder /\ PublishedOnce /\ CollectedInOrder /\ LeaveAfterQuit
  BY DEF Init, StartedInOrder, PublishedOnce, CollectedInOrder, LeaveAfterQuit, Threads
<1>3. OwnerWoken /\ RoundRobin /\ ~asleep
  BY DEF Init, OwnerWoken, RoundRobin, Threads
<1> QED
  BY <1>1, <1>2, <1>3 DEF IInv

\* The owner and the threads keep the variables in range.
LEMMA StepTypes == IInv /\ [Next]_vars => TypeOK'
<1> SUFFICES ASSUME IInv, [Next]_vars PROVE TypeOK'
  OBVIOUS
<1> USE PoolAssumption
<1>1. CASE Create
  BY <1>1, RoundTypes DEF Create, IInv, TypeOK
<1>2. CASE Collect
  <2>1. CASE i \in m_service
    <3>1. m_services + 1 \in 0 .. m_size
      BY <1>2 DEF Collect, IInv, TypeOK, CollectedInOrder, Threads
    <3>2. /\ m_services' = m_services + 1 /\ NextRound("up")
          /\ UNCHANGED <<asleep, tpc, m_service, m_quit, m_service_index, handed, calls>>
      BY <1>2, <2>1 DEF Collect
    <3>3. i' \in Threads /\ opc' \in {opc, "up"}
      BY <3>2, RoundTypes DEF IInv, TypeOK
    <3> QED
      BY <3>1, <3>2, <3>3 DEF IInv, TypeOK
  <2>2. CASE i \notin m_service
    BY <1>2, <2>2 DEF Collect, IInv, TypeOK
  <2> QED
    BY <2>1, <2>2
<1>3. CASE next_service
  BY <1>3 DEF next_service, Wrapped, IInv, TypeOK, Threads
<1>4. CASE QuitOne
  BY <1>4, RoundTypes DEF QuitOne, IInv, TypeOK
<1>5. CASE JoinOne
  BY <1>5, RoundTypes DEF JoinOne, IInv, TypeOK
<1>6. CASE Quit \/ SpuriousWake \/ UNCHANGED vars
  BY <1>6 DEF Quit, SpuriousWake, vars, IInv, TypeOK
<1>7. ASSUME NEW t \in Threads, ThreadNext(t) PROVE TypeOK'
  BY <1>7 DEF ThreadNext, Publish, Notify, Exit, IInv, TypeOK
<1> QED
  BY <1>1, <1>2, <1>3, <1>4, <1>5, <1>6, <1>7 DEF Next, OwnerSteps

\* Threads start in order, publish once and leave after quit().
LEMMA StepThreads ==
  IInv /\ [Next]_vars => StartedInOrder' /\ PublishedOnce' /\ LeaveAfterQuit'
<1> SUFFICES ASSUME IInv, [Next]_vars
             PROVE  StartedInOrder' /\ PublishedOnce' /\ LeaveAfterQuit'
  OBVIOUS
<1> USE PoolAssumption DEF StartedInOrder, PublishedOnce, LeaveAfterQuit, IInv, TypeOK
<1>1. CASE Create
  <2>1. /\ opc = "create" /\ tpc' = [tpc EXCEPT ![i] = "start"]
        /\ UNCHANGED <<m_service, m_quit>>
    BY <1>1 DEF Create
  <2>2. StartedInOrder'
    <3> SUFFICES ASSUME NEW t \in Threads
                 PROVE  tpc'[t] = "none" <=> opc' = "create" /\ t >= i'
      OBVIOUS
    <3>1. tpc'[t] = "none" <=> t >= i /\ t # i
      BY <2>1
    <3>2. t \in Nat /\ i \in Nat /\ t <= m_size
      BY DEF Threads
    <3>3. CASE i < m_size
      BY <1>1, <2>1, <3>1, <3>2, <3>3 DEF Create, NextRound
    <3>4. CASE ~(i < m_size)
      BY <1>1, <3>1, <3>2, <3>4 DEF Create, NextRound
    <3> QED
      BY <3>3, <3>4
  <2>3. opc' \in {"create", "collect"}
    BY <1>1 DEF Create, NextRound
  <2>4. i \notin m_service /\ tpc[i] # "exited"
    <3>1. i >= i
      BY DEF Threads
    <3>2. tpc[i] = "none"
      BY <2>1, <3>1
    <3> QED
      BY <3>2
  <2> QED
    BY <2>1, <2>2, <2>3, <2>4
<1>2. CASE Collect
  BY <1>2 DEF Collect, NextRound
<1>3. CASE next_service
  BY <1>3 DEF next_service
<1>4. CASE QuitOne
  BY <1>4 DEF QuitOne, NextRound
<1>5. CASE JoinOne
  BY <1>5 DEF JoinOne, NextRound
<1>6. CASE Quit \/ SpuriousWake \/ UNCHANGED vars
  BY <1>6 DEF Quit, SpuriousWake, vars
<1>7. ASSUME NEW t \in Threads, ThreadNext(t)
      PROVE  StartedInOrder' /\ PublishedOnce' /\ LeaveAfterQuit'
  BY <1>7 DEF ThreadNext, Publish, Notify, Exit
<1> QED
  BY <1>1, <1>2, <1>3, <1>4, <1>5, <1>6, <1>7 DEF Next, OwnerSteps

\* run() collects the addresses in order, and sleeps only on a thread that is
\* still going to notify it.
LEMMA StepCollect ==
  IInv /\ [Next]_vars => CollectedInOrder' /\ (asleep => opc = "collect")' /\ OwnerWoken'
<1> SUFFICES ASSUME IInv, [Next]_vars
             PROVE  CollectedInOrder' /\ (asleep => opc = "collect")' /\ OwnerWoken'
  OBVIOUS
<1> USE PoolAssumption DEF CollectedInOrder, OwnerWoken, IInv, TypeOK
<1>1. CASE Create
  BY <1>1 DEF Create, NextRound, Threads
<1>2. CASE Collect
  <2>1. CASE i \in m_service
    <3>1. /\ opc = "collect" /\ ~asleep' /\ m_service' = m_service
          /\ m_services' = m_services + 1 /\ NextRound("up")
      BY <1>2, <2>1 DEF Collect
    <3>2. i \in Nat /\ i >= 1 /\ \A t \in Threads : t \in Nat /\ t <= m_size
      BY DEF Threads
    <3>3. CollectedInOrder'
      BY <2>1, <3>1, <3>2 DEF NextRound
    <3> QED
      BY <3>1, <3>3
  <2>2. CASE i \notin m_service
    <3>1. /\ opc = "collect"
          /\ UNCHANGED <<opc, i, m_services, m_service, tpc>>
      BY <1>2, <2>2 DEF Collect
    <3>2. tpc[i] \in {"start", "notify"}
      BY <2>2, <3>1 DEF StartedInOrder, PublishedOnce
    <3> QED
      BY <3>1, <3>2
  <2> QED
    BY <2>1, <2>2
<1>3. CASE next_service
  BY <1>3 DEF next_service
<1>4. CASE QuitOne
  BY <1>4 DEF QuitOne, NextRound
<1>5. CASE JoinOne
  BY <1>5 DEF JoinOne, NextRound
<1>6. CASE Quit \/ SpuriousWake \/ UNCHANGED vars
  BY <1>6 DEF Quit, SpuriousWake, vars
<1>7. ASSUME NEW t \in Threads, ThreadNext(t)
      PROVE  CollectedInOrder' /\ (asleep => opc = "collect")' /\ OwnerWoken'
  <2>1. CollectedInOrder'
    BY <1>7 DEF ThreadNext, Publish, Notify, Exit
  <2>2. asleep' => asleep /\ ~(tpc[t] = "notify" /\ i = t)
    BY <1>7, Zenon DEF ThreadNext, Publish, Notify, Exit
  <2>3. opc' = opc /\ i' = i
    BY <1>7 DEF ThreadNext, Publish, Notify, Exit
  <2>4. asleep' => opc' = "collect"
    BY <2>2, <2>3
  <2>5. asleep' => tpc'[i] \in {"start", "notify"}
    <3>1. \/ tpc[t] = "start" /\ tpc' = [tpc EXCEPT ![t] = "notify"]
          \/ tpc[t] = "notify" /\ tpc' = [tpc EXCEPT ![t] = "run"]
          \/ tpc[t] = "run" /\ tpc' = [tpc EXCEPT ![t] = "exited"]
      BY <1>7 DEF ThreadNext, Publish, Notify, Exit
    <3> QED
      BY <2>2, <3>1
  <2> QED
    BY <2>1, <2>3, <2>4, <2>5
<1> QED
  BY <1>1, <1>2, <1>3, <1>4, <1>5, <1>6, <1>7 DEF Next, OwnerSteps

\* next_service() goes round; nothing else touches its index.
LEMMA StepRoundRobin == IInv /\ [Next]_vars => RoundRobin'
<1> SUFFICES ASSUME IInv, [Next]_vars PROVE RoundRobin'
  OBVIOUS
<1> USE PoolAssumption
<1>1. CASE next_service
  <2>1. /\ Wrapped + 1 \in Threads
        /\ m_service_index' = Wrapped + 1
        /\ \A t \in Threads :
             handed'[t] = IF t = Wrapped + 1 THEN handed[t] + 1 ELSE handed[t]
    BY <1>1 DEF next_service, Wrapped, IInv, TypeOK, Threads
  <2>2. \A t \in Threads : t \in Nat /\ t >= 1 /\ t <= m_size /\ handed[t] \in Nat
    BY DEF IInv, TypeOK, Threads
  <2>3. CASE m_service_index >= m_size
    <3>1. \A t, u \in Threads : handed[t] = handed[u]
      BY <2>2, <2>3 DEF IInv, TypeOK, RoundRobin
    <3> QED
      BY <2>1, <2>2, <2>3, <3>1 DEF Wrapped, RoundRobin
  <2>4. CASE m_service_index < m_size
    BY <2>1, <2>2, <2>4 DEF Wrapped, IInv, TypeOK, RoundRobin
  <2> QED
    BY <2>3, <2>4 DEF IInv, TypeOK
<1>2. CASE UNCHANGED <<handed, m_service_index>>
  BY <1>2 DEF IInv, RoundRobin
<1> QED
  BY <1>1, <1>2 DEF Next, OwnerSteps, Create, Collect, QuitOne, JoinOne, SpuriousWake,
                    Quit, ThreadNext, Publish, Notify, Exit, vars

\* The inductive invariant holds in every reachable state.
THEOREM IInvHolds == Spec => []IInv
<1>1. Init => IInv
  BY InitInv
<1>2. IInv /\ [Next]_vars => IInv'
  BY StepTypes, StepThreads, StepCollect, StepRoundRobin DEF IInv
<1> QED
  BY <1>1, <1>2, PTL DEF Spec

\* next_service() returns only addresses of io_services that exist: run() has
\* waited for all threads, and none of them ends before quit().
THEOREM HandedServicesExist == Spec => []ServicesUsable
<1>1. IInv => ServicesUsable
  BY DEF IInv, TypeOK, PublishedOnce, CollectedInOrder, LeaveAfterQuit, ServicesUsable
<1> QED
  BY <1>1, IInvHolds, PTL

\* next_service() hands the io_services out evenly, for every size of the pool.
THEOREM RoundRobinIsBalanced == Spec => []Balanced
<1>1. IInv => Balanced
  BY DEF IInv, TypeOK, RoundRobin, Balanced, Threads
<1> QED
  BY <1>1, IInvHolds, PTL

\* The wake-up of run() is not lost, wherever the thread publishes its address.
THEOREM OwnerIsWoken == Spec => []OwnerWoken
<1>1. IInv => OwnerWoken
  BY DEF IInv
<1> QED
  BY <1>1, IInvHolds, PTL
================================================================================

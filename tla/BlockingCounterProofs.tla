------------------------- MODULE BlockingCounterProofs -------------------------
(* Proofs about BlockingCounter, for any number of counting threads, any   *)
(* initial count and any target.                                           *)
EXTENDS BlockingCounter, TLAPS

\* The values the proof needs are in range after the constructor.
LEMMA InitTypes == Init => TypeOK
  BY CounterAssumption DEF Init, TypeOK

\* Every step of every thread keeps them there.
LEMMA StepTypes == TypeOK /\ [Next]_vars => TypeOK'
<1> SUFFICES ASSUME TypeOK, [Next]_vars PROVE TypeOK'
  OBVIOUS
<1>1. ASSUME NEW w \in Waiters, Test(w) PROVE TypeOK'
  BY <1>1 DEF Test, TypeOK
<1>2. ASSUME NEW w \in Waiters, SpuriousWake(w) PROVE TypeOK'
  BY <1>2 DEF SpuriousWake, TypeOK
<1>3. ASSUME NEW c \in Counters, NotifyOne(c) PROVE TypeOK'
  BY <1>3 DEF NotifyOne, TypeOK
<1>4. ASSUME NEW c \in Counters, NEW d \in {1, -1}, Count(c, d)
      PROVE  TypeOK'
  BY <1>4 DEF Count, TypeOK
<1>5. CASE UNCHANGED vars
  BY <1>5 DEF vars, TypeOK
<1> QED
  BY <1>1, <1>2, <1>3, <1>4, <1>5 DEF Next

\* With one waiting thread, no order of its test under the lock, the changes by
\* other threads and their late notify_one() leaves it asleep at its value: a
\* change is followed by a notification, and the notification can only go to it.
\* (With two waiting threads notify_one() may go to the wrong one.)
THEOREM LoneWaiterIsWoken ==
  ASSUME \A v, w \in Waiters : v = w
  PROVE  Spec => []NoLostWakeup
<1> DEFINE Inv == TypeOK /\ NoLostWakeup
<1>1. Init => Inv
  BY InitTypes DEF Init, NoLostWakeup
<1>2. Inv /\ [Next]_vars => Inv'
  <2> SUFFICES ASSUME TypeOK, NoLostWakeup, [Next]_vars PROVE NoLostWakeup'
    BY StepTypes
  <2>1. ASSUME NEW w \in Waiters, Test(w) PROVE NoLostWakeup'
    BY <2>1 DEF Test, TypeOK, NoLostWakeup
  <2>2. ASSUME NEW w \in Waiters, SpuriousWake(w) PROVE NoLostWakeup'
    BY <2>2 DEF SpuriousWake, TypeOK, NoLostWakeup
  <2>3. ASSUME NEW c \in Counters, NotifyOne(c) PROVE NoLostWakeup'
    <3>1. CASE \A w \in Waiters : wpc[w] # "waiting"
      BY <2>3, <3>1 DEF NotifyOne, TypeOK, NoLostWakeup
    <3>2. ASSUME NEW w \in Waiters, wpc' = [wpc EXCEPT ![w] = "woken"]
          PROVE  NoLostWakeup'
      <4>1. \A v \in Waiters : wpc'[v] = "woken"
        BY <3>2 DEF TypeOK
      <4> QED
        BY <4>1 DEF NoLostWakeup
    <3> QED
      BY <2>3, <3>1, <3>2 DEF NotifyOne
  <2>4. ASSUME NEW c \in Counters, NEW d \in {1, -1}, Count(c, d)
        PROVE  NoLostWakeup'
    <3>1. cpc'[c] = "notify"
      BY <2>4 DEF Count, TypeOK
    <3> QED
      BY <3>1 DEF NoLostWakeup
  <2>5. CASE UNCHANGED vars
    BY <2>5 DEF vars, NoLostWakeup
  <2> QED
    BY <2>1, <2>2, <2>3, <2>4, <2>5 DEF Next
<1>3. Inv => NoLostWakeup
  OBVIOUS
<1> QED
  BY <1>1, <1>2, <1>3, PTL DEF Spec
================================================================================

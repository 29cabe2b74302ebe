---------------------------- MODULE IoServiceProofs ----------------------------
(***************************************************************************)
(* Proofs about IoService for any set of callers and any MaxTasks: IInv is *)
(* inductive, so no task is lost, repeated or overtaken by a later task of *)
(* the same caller, and the service implements TaskQueue.                  *)
(***************************************************************************)
EXTENDS IoService, SequenceTheorems, TLAPS

-------------------------------------------------------------------------------
(* Sequences.                                                              *)

\* What push_back does to the tasks ahead of it: appending to the second of two
\* sequences appends to their concatenation.
LEMMA AppendLast ==
  ASSUME NEW S, NEW s \in Seq(S), NEW u \in Seq(S), NEW x \in S
  PROVE  s \o Append(u, x) = Append(s \o u, x)
<1>1. <<x>> \in Seq(S) /\ s \o u \in Seq(S)
  BY ConcatProperties
<1>2. s \o (u \o <<x>>) = (s \o u) \o <<x>>
  BY <1>1, ConcatAssociative
<1> QED
  BY <1>1, <1>2, AppendIsConcat

\* What to_run[i]() does to the order: moving the head of the second sequence
\* to the end of the first leaves the concatenation as it is.
LEMMA MoveHead ==
  ASSUME NEW S, NEW s \in Seq(S), NEW t \in Seq(S), NEW u \in Seq(S), t # <<>>
  PROVE  Append(s, Head(t)) \o (Tail(t) \o u) = s \o (t \o u)
<1>1. /\ Head(t) \in S /\ Tail(t) \in Seq(S)
      /\ <<Head(t)>> \in Seq(S)
  BY HeadTailProperties
<1>2. t = <<Head(t)>> \o Tail(t)
  BY <1>1
<1>3. Append(s, Head(t)) = s \o <<Head(t)>>
  BY <1>1, AppendIsConcat
<1> DEFINE h == <<Head(t)>>
           v == Tail(t) \o u
<1>4. h \in Seq(S) /\ v \in Seq(S)
  BY <1>1, ConcatProperties
<1>5. h \o v = (h \o Tail(t)) \o u
  BY <1>1, ConcatAssociative
<1>6. (s \o h) \o v = s \o (h \o v)
  <2> HIDE DEF h, v
  <2> QED
    BY <1>4, ConcatAssociative, SMTT(60)
<1> QED
  BY <1>2, <1>3, <1>5, <1>6
-------------------------------------------------------------------------------
(* The order of acceptance.                                                *)

\* The vectors the service's threads hold are sequences of tasks, and so is
\* their concatenation.
LEMMA AcceptedType ==
  ASSUME TypeOK
  PROVE  /\ to_run \o m_pending_tasks \in Seq(Task)
         /\ Accepted \in Seq(Task)
         /\ Len(Accepted) \in Nat
         /\ DOMAIN Accepted = 1 .. Len(Accepted)
         /\ \A i \in DOMAIN Accepted :
              /\ Accepted[i] \in Task
              /\ Accepted[i][1] \in Callers
              /\ Accepted[i][2] \in 1 .. MaxTasks
<1>1. to_run \o m_pending_tasks \in Seq(Task)
  BY ConcatProperties DEF TypeOK
<1>2. Accepted \in Seq(Task)
  BY <1>1, ConcatProperties DEF TypeOK, Accepted
<1>3. Len(Accepted) \in Nat /\ DOMAIN Accepted = 1 .. Len(Accepted)
  BY <1>2, LenProperties
<1>4. \A i \in DOMAIN Accepted : Accepted[i] \in Task
  BY <1>2, <1>3, ElementOfSeq
<1>5. \A x \in Task : x[1] \in Callers /\ x[2] \in 1 .. MaxTasks
  BY DEF Task
<1> QED
  BY <1>1, <1>2, <1>3, <1>4, <1>5

\* The push of queue_task() is the only step that accepts a task.
LEMMA PushAccepts ==
  ASSUME IInv, NEW c \in Callers, QueueTaskPush(c)
  PROVE  /\ <<c, next[c]>> \in Task
         /\ Accepted' = Append(Accepted, <<c, next[c]>>)
         /\ (to_run \o m_pending_tasks)' = Append(to_run \o m_pending_tasks, <<c, next[c]>>)
<1>1. /\ pc[c] = "push" /\ snapshot[c] = m_pending_tasks
      /\ next[c] \in 1 .. MaxTasks + 1 /\ next[c] <= MaxTasks
  BY DEF IInv, TypeOK, PushExclusive, QueueTaskPush
<1>2. <<c, next[c]>> \in Task
  BY <1>1, ThreadsAssumption DEF Task
<1>3. /\ m_pending_tasks' = Append(m_pending_tasks, <<c, next[c]>>)
      /\ to_run' = to_run /\ done' = done
  BY <1>1 DEF QueueTaskPush
<1>4. /\ m_pending_tasks \in Seq(Task) /\ to_run \in Seq(Task) /\ done \in Seq(Task)
  BY DEF IInv, TypeOK
<1>5. to_run \o Append(m_pending_tasks, <<c, next[c]>>)
        = Append(to_run \o m_pending_tasks, <<c, next[c]>>)
  BY <1>2, <1>4, AppendLast
<1>6. done \o Append(to_run \o m_pending_tasks, <<c, next[c]>>)
        = Append(done \o (to_run \o m_pending_tasks), <<c, next[c]>>)
  <2> DEFINE q == to_run \o m_pending_tasks
             x == <<c, next[c]>>
  <2>1. q \in Seq(Task) /\ x \in Task
    BY <1>2, <1>4, ConcatProperties
  <2> HIDE DEF q, x
  <2>2. done \o Append(q, x) = Append(done \o q, x)
    BY <1>4, <2>1, AppendLast
  <2> QED
    BY <2>2 DEF q, x
<1> QED
  BY <1>2, <1>3, <1>5, <1>6 DEF Accepted

\* The swap and the execution of a task move tasks without reordering them.
LEMMA LoopKeepsAccepted ==
  ASSUME IInv, LoopNext
  PROVE  Accepted' = Accepted
<1>1. m_pending_tasks \in Seq(Task) /\ to_run \in Seq(Task) /\ done \in Seq(Task)
  BY DEF IInv, TypeOK
<1>2. CASE SwapPending
  <2>1. to_run = <<>> /\ to_run' = m_pending_tasks /\ m_pending_tasks' = <<>> /\ done' = done
    BY <1>2 DEF IInv, SwapPending
  <2>2. m_pending_tasks \o <<>> = <<>> \o m_pending_tasks
    BY <1>1, ConcatEmptySeq
  <2> QED
    BY <2>1, <2>2 DEF Accepted
<1>3. CASE RunTask
  BY <1>1, <1>3, MoveHead DEF RunTask, Accepted
<1>4. CASE WhileNotQuit \/ PollEvents \/ PollTimeout \/ ProcessWork \/ PendingDone
  BY <1>4 DEF WhileNotQuit, PollEvents, PollTimeout, ProcessWork, PendingDone, Accepted
<1> QED
  BY <1>2, <1>3, <1>4 DEF LoopNext

\* Every step other than a push leaves the accepted tasks and the numbering alone.
LEMMA OthersKeepAccepted ==
  ASSUME IInv, [Next]_vars
  PROVE  \/ \E c \in Callers : QueueTaskPush(c)
         \/ Accepted' = Accepted /\ next' = next
<1>1. CASE LoopNext
  <2>1. next' = next
    BY <1>1 DEF LoopNext, WhileNotQuit, PollEvents, PollTimeout, ProcessWork,
                SwapPending, RunTask, PendingDone
  <2> QED
    BY <1>1, <2>1, LoopKeepsAccepted
<1>2. ASSUME NEW c \in Callers, CallerNext(c)
      PROVE  QueueTaskPush(c) \/ (Accepted' = Accepted /\ next' = next)
  BY <1>2 DEF CallerNext, QueueTaskLock, WakeMeUp, Quit, Accepted
<1>3. CASE UNCHANGED vars
  BY <1>3 DEF vars, Accepted
<1> QED
  BY <1>1, <1>2, <1>3 DEF Next
-------------------------------------------------------------------------------
(* The inductive invariant.                                                *)

\* A service that was just made satisfies the inductive invariant.
LEMMA InitIInv == Init => IInv
<1> SUFFICES ASSUME Init PROVE IInv
  OBVIOUS
<1>1. TypeOK
  <2>1. /\ pc \in [Callers \cup {Loop} -> LoopPC \cup CallerPC]
        /\ pc[Loop] \in LoopPC
        /\ \A c \in Callers : pc[c] \in CallerPC
    BY ThreadsAssumption DEF Init, LoopPC, CallerPC
  <2>2. /\ m_pending_tasks \in Seq(Task) /\ to_run \in Seq(Task) /\ done \in Seq(Task)
        /\ snapshot \in [Callers -> Seq(Task)]
    BY EmptySeq DEF Init
  <2>3. next \in [Callers -> 1 .. MaxTasks + 1]
    BY ThreadsAssumption DEF Init
  <2> QED
    BY <2>1, <2>2, <2>3 DEF Init, TypeOK
<1>2. PushExclusive /\ HolderPushes
  BY ThreadsAssumption DEF Init, PushExclusive, HolderPushes
<1>3. pc[Loop] # "run" => to_run = <<>>
  BY DEF Init
<1>4. Accepted = <<>>
  BY DEF Init, Accepted
<1>5. DOMAIN Accepted = {}
  BY <1>4
<1>6. NumbersBelowNext /\ PerCallerOrder
  BY <1>5 DEF NumbersBelowNext, PerCallerOrder
<1>7. \A c \in Callers : next[c] = 1
  BY DEF Init
<1>8. NoTaskLost
  BY <1>7 DEF NoTaskLost
<1> QED
  BY <1>1, <1>2, <1>3, <1>6, <1>8 DEF IInv

\* Every step of a caller or of the loop keeps the variables in their ranges.
LEMMA NextTypeOK ==
  ASSUME IInv, [Next]_vars
  PROVE  TypeOK'
<1> USE DEF TypeOK
<1>0. /\ TypeOK
      /\ Loop \notin Callers /\ MaxTasks \in Nat
  BY ThreadsAssumption DEF IInv
<1>1. ASSUME NEW c \in Callers, QueueTaskLock(c)
      PROVE  TypeOK'
  BY <1>0, <1>1 DEF QueueTaskLock, Goto, CallerPC
<1>2. ASSUME NEW c \in Callers, QueueTaskPush(c)
      PROVE  TypeOK'
  <2>1. /\ <<c, next[c]>> \in Task
        /\ next[c] \in 1 .. MaxTasks + 1 /\ next[c] <= MaxTasks
        /\ snapshot[c] \in Seq(Task)
    BY <1>0, <1>2, PushAccepts DEF IInv, PushExclusive, QueueTaskPush
  <2>2. m_pending_tasks' \in Seq(Task)
    BY <1>2, <2>1, AppendProperties DEF QueueTaskPush
  <2>3. next' \in [Callers -> 1 .. MaxTasks + 1]
    BY <1>0, <1>2, <2>1 DEF QueueTaskPush
  <2>4. snapshot' \in [Callers -> Seq(Task)]
    BY <1>0, <1>2 DEF QueueTaskPush
  <2> QED
    BY <1>0, <1>2, <2>2, <2>3, <2>4 DEF QueueTaskPush, Goto, CallerPC
<1>3. ASSUME NEW c \in Callers, WakeMeUp(c)
      PROVE  TypeOK'
  BY <1>0, <1>3 DEF WakeMeUp, wake_me_up, n64, Goto, CallerPC
<1>4. ASSUME NEW c \in Callers, Quit(c)
      PROVE  TypeOK'
  BY <1>0, <1>4 DEF Quit, Goto, CallerPC
<1>5. CASE WhileNotQuit
  BY <1>0, <1>5 DEF WhileNotQuit, Goto, LoopPC
<1>6. CASE PollEvents
  BY <1>0, <1>6 DEF PollEvents, SelfReady, Channels, Goto, LoopPC
<1>7. CASE PollTimeout
  BY <1>0, <1>7 DEF PollTimeout, Goto, LoopPC
<1>8. CASE ProcessWork
  BY <1>0, <1>8 DEF ProcessWork, QuitInLoop, n64, Goto, LoopPC
<1>9. CASE SwapPending
  BY <1>0, <1>9 DEF SwapPending, Goto, LoopPC
<1>10. CASE RunTask
  <2>1. done' \in Seq(Task) /\ to_run' \in Seq(Task)
    BY <1>0, <1>10, HeadTailProperties, AppendProperties DEF RunTask
  <2> QED
    BY <1>0, <1>10, <2>1 DEF RunTask, QuitInLoop, n64
<1>11. CASE PendingDone
  BY <1>0, <1>11 DEF PendingDone, Goto, LoopPC
<1>12. CASE UNCHANGED vars
  BY <1>0, <1>12 DEF vars
<1> QED
  BY <1>1, <1>2, <1>3, <1>4, <1>5, <1>6, <1>7, <1>8, <1>9, <1>10, <1>11, <1>12
     DEF Next, CallerNext, LoopNext

\* The lock protocol: the swap cannot fall between the halves of a push_back.
LEMMA NextLock ==
  ASSUME IInv, [Next]_vars
  PROVE  /\ PushExclusive' /\ HolderPushes'
         /\ (pc[Loop] # "run" => to_run = <<>>)'
<1> USE DEF PushExclusive, HolderPushes
<1>0. /\ TypeOK /\ PushExclusive /\ HolderPushes
      /\ pc[Loop] # "run" => to_run = <<>>
      /\ Loop \notin Callers /\ NoThread \notin Callers
      /\ pc \in [Callers \cup {Loop} -> LoopPC \cup CallerPC]
      /\ snapshot \in [Callers -> Seq(Task)]
      /\ next \in [Callers -> 1 .. MaxTasks + 1]
  BY ThreadsAssumption DEF IInv, TypeOK
<1>1. ASSUME NEW c \in Callers, QueueTaskLock(c)
      PROVE  /\ PushExclusive' /\ HolderPushes'
             /\ (pc[Loop] # "run" => to_run = <<>>)'
  BY <1>0, <1>1 DEF QueueTaskLock, Goto
<1>2. ASSUME NEW c \in Callers, QueueTaskPush(c)
      PROVE  /\ PushExclusive' /\ HolderPushes'
             /\ (pc[Loop] # "run" => to_run = <<>>)'
  BY <1>0, <1>2 DEF QueueTaskPush, Goto
<1>3. ASSUME NEW c \in Callers, WakeMeUp(c) \/ Quit(c)
      PROVE  /\ PushExclusive' /\ HolderPushes'
             /\ (pc[Loop] # "run" => to_run = <<>>)'
  BY <1>0, <1>3 DEF WakeMeUp, Quit, Goto
<1>4. CASE WhileNotQuit \/ PollEvents \/ PollTimeout \/ ProcessWork \/ PendingDone
  BY <1>0, <1>4 DEF WhileNotQuit, PollEvents, PollTimeout, ProcessWork, PendingDone, Goto
<1>5. CASE SwapPending
  BY <1>0, <1>5 DEF SwapPending, Goto
<1>6. CASE RunTask
  BY <1>0, <1>6 DEF RunTask
<1>7. CASE UNCHANGED vars
  BY <1>0, <1>7 DEF vars
<1> QED
  BY <1>1, <1>2, <1>3, <1>4, <1>5, <1>6, <1>7 DEF Next, CallerNext, LoopNext

\* A push appends a number that its caller has not used: order, completeness and
\* the bound on the numbers survive it, and no other step touches them.
LEMMA NextOrder ==
  ASSUME IInv, [Next]_vars
  PROVE  NumbersBelowNext' /\ PerCallerOrder' /\ NoTaskLost'
<1>0. TypeOK /\ NumbersBelowNext /\ PerCallerOrder /\ NoTaskLost
  BY DEF IInv
<1>1. ASSUME NEW c \in Callers, QueueTaskPush(c)
      PROVE  NumbersBelowNext' /\ PerCallerOrder' /\ NoTaskLost'
  <2> DEFINE x == <<c, next[c]>>
             n == Len(Accepted)
  <2>1. /\ Accepted \in Seq(Task) /\ n \in Nat /\ DOMAIN Accepted = 1 .. n
        /\ \A i \in 1 .. n : Accepted[i][1] \in Callers /\ Accepted[i][2] \in 1 .. MaxTasks
    BY <1>0, AcceptedType
  <2>2. x \in Task /\ Accepted' = Append(Accepted, x)
    BY <1>1, PushAccepts
  <2>3. /\ Len(Accepted') = n + 1 /\ DOMAIN Accepted' = 1 .. n + 1
        /\ \A i \in 1 .. n : Accepted'[i] = Accepted[i]
        /\ Accepted'[n + 1] = x
    <3>1. Accepted' \in Seq(Task)
      BY <2>1, <2>2, AppendProperties
    <3> QED
      BY <2>1, <2>2, <3>1, AppendProperties, LenProperties
  <2>4. /\ next \in [Callers -> 1 .. MaxTasks + 1] /\ MaxTasks \in Nat
        /\ next' = [next EXCEPT ![c] = @ + 1]
    BY <1>0, <1>1, ThreadsAssumption DEF TypeOK, QueueTaskPush
  <2>5. /\ \A d \in Callers : next[d] \in Nat /\ next'[d] \in Nat /\ next[d] <= next'[d]
        /\ next'[c] = next[c] + 1
        /\ \A d \in Callers : d # c => next'[d] = next[d]
    BY <2>4
  <2>6. \A i \in 1 .. n + 1 : i \in 1 .. n \/ i = n + 1
    BY <2>1
  <2>7. x[1] = c /\ x[2] = next[c]
    OBVIOUS
  <2> HIDE DEF x, n
  <2>8. \A i \in 1 .. n : Accepted[i][2] < next[Accepted[i][1]]
    BY <1>0, <2>1 DEF NumbersBelowNext
  <2>9. NumbersBelowNext'
    <3> SUFFICES ASSUME NEW i \in 1 .. n + 1
                 PROVE  Accepted'[i][2] < next'[Accepted'[i][1]]
      BY <2>3 DEF NumbersBelowNext
    <3>1. CASE i = n + 1
      BY <2>3, <2>5, <2>7, <3>1
    <3>2. CASE i \in 1 .. n
      BY <2>1, <2>3, <2>5, <2>8, <3>2, ThreadsAssumption, SMTT(30)
    <3> QED
      BY <2>6, <3>1, <3>2
  <2>10. PerCallerOrder'
    <3> SUFFICES ASSUME NEW i \in 1 .. n + 1, NEW j \in 1 .. n + 1, i < j,
                        Accepted'[i][1] = Accepted'[j][1]
                 PROVE  Accepted'[i][2] < Accepted'[j][2]
      BY <2>3 DEF PerCallerOrder
    <3>1. i \in 1 .. n
      BY <2>1
    <3>2. CASE j = n + 1
      BY <2>3, <2>7, <2>8, <3>1, <3>2
    <3>3. CASE j \in 1 .. n
      BY <1>0, <2>1, <2>3, <3>1, <3>3 DEF PerCallerOrder
    <3> QED
      BY <2>6, <3>2, <3>3
  <2>11. NoTaskLost'
    <3> SUFFICES ASSUME NEW d \in Callers, NEW k \in 1 .. next'[d] - 1
                 PROVE  \E i \in 1 .. n + 1 : Accepted'[i] = <<d, k>>
      BY <2>3 DEF NoTaskLost
    <3>1. CASE d = c /\ k = next[c]
      BY <2>1, <2>3, <3>1 DEF x
    <3>2. CASE k \in 1 .. next[d] - 1
      <4>1. PICK i \in 1 .. n : Accepted[i] = <<d, k>>
        BY <1>0, <2>1, <3>2 DEF NoTaskLost
      <4> QED
        BY <2>1, <2>3, <4>1
    <3>3. (d = c /\ k = next[c]) \/ k \in 1 .. next[d] - 1
      BY <2>5
    <3> QED
      BY <3>1, <3>2, <3>3
  <2> QED
    BY <2>9, <2>10, <2>11
<1>2. CASE Accepted' = Accepted /\ next' = next
  BY <1>0, <1>2 DEF NumbersBelowNext, PerCallerOrder, NoTaskLost
<1> QED
  BY <1>1, <1>2, OthersKeepAccepted

\* IInv holds in every reachable state, for every set of callers.
THEOREM IInvHolds == Spec => []IInv
<1>1. IInv /\ [Next]_vars => IInv'
  BY NextTypeOK, NextLock, NextOrder DEF IInv
<1> QED
  BY InitIInv, <1>1, PTL DEF Spec

\* The variables of io_service and of the threads inside it keep their types.
THEOREM TypeCorrect == Spec => []TypeOK
<1>1. IInv => TypeOK
  BY DEF IInv
<1> QED
  BY IInvHolds, <1>1, PTL

\* Tasks of one caller run in the order of its run_task() calls, each at most
\* once, for any number of concurrent callers.
THEOREM OrderPerCaller == Spec => []PerCallerOrder
<1>1. IInv => PerCallerOrder
  BY DEF IInv
<1> QED
  BY IInvHolds, <1>1, PTL

\* No push is lost to another push or to the swap of run_pending_task().
THEOREM TasksAreKept == Spec => []NoTaskLost
<1>1. IInv => NoTaskLost
  BY DEF IInv
<1> QED
  BY IInvHolds, <1>1, PTL
-------------------------------------------------------------------------------
(* Refinement.                                                             *)

\* A push accepts a task that is new to the abstract queue.
LEMMA PushIsAccept ==
  ASSUME IInv, NEW c \in Callers, QueueTaskPush(c)
  PROVE  Abstract!Accept(<<c, next[c]>>)
<1> DEFINE x == <<c, next[c]>>
           q == to_run \o m_pending_tasks
<1>0. TypeOK /\ NumbersBelowNext /\ x[1] = c /\ x[2] = next[c]
  BY DEF IInv
<1>1. done \in Seq(Task) /\ q \in Seq(Task) /\ Accepted = done \o q
  BY <1>0, AcceptedType DEF TypeOK, Accepted
<1>2. q' = Append(q, x) /\ done' = done
  BY PushAccepts DEF QueueTaskPush
<1>3. next[c] \in Nat
  BY <1>0 DEF TypeOK
<1> HIDE DEF q, x
<1>4. /\ DOMAIN Accepted = 1 .. Len(done) + Len(q)
      /\ Len(done) \in Nat /\ Len(q) \in Nat
      /\ DOMAIN done = 1 .. Len(done) /\ DOMAIN q = 1 .. Len(q)
      /\ \A i \in 1 .. Len(done) : Accepted[i] = done[i]
      /\ \A i \in 1 .. Len(q) : Accepted[Len(done) + i] = q[i]
  BY <1>1, ConcatProperties, LenProperties
<1>5. \A i \in DOMAIN Accepted : Accepted[i] # x
  BY <1>0, <1>3 DEF NumbersBelowNext
<1>6. ~Abstract!InSeq(x, done)
  <2> SUFFICES ASSUME NEW i \in 1 .. Len(done) PROVE done[i] # x
    BY <1>4 DEF Abstract!InSeq
  <2> QED
    BY <1>4, <1>5
<1>7. ~Abstract!InSeq(x, q)
  <2> SUFFICES ASSUME NEW i \in 1 .. Len(q) PROVE q[i] # x
    BY <1>4 DEF Abstract!InSeq
  <2>1. Len(done) + i \in DOMAIN Accepted
    BY <1>4
  <2> QED
    BY <1>4, <1>5, <2>1
<1> QED
  BY <1>2, <1>6, <1>7 DEF Abstract!Accept, q, x

\* The queue of the abstract specification, when the head of to_run is taken.
LEMMA HeadTailOfConcat ==
  ASSUME NEW S, NEW s \in Seq(S), NEW t \in Seq(S), s # <<>>
  PROVE  /\ s \o t # <<>>
         /\ Head(s \o t) = Head(s)
         /\ Tail(s \o t) = Tail(s) \o t
<1>1. /\ s \o t \in Seq(S) /\ Len(s \o t) = Len(s) + Len(t)
      /\ Len(s) \in Nat \ {0} /\ Len(t) \in Nat
      /\ (s \o t)[1] = s[1]
  BY ConcatProperties, EmptySeq, LenProperties
<1>2. s \o t # <<>>
  BY <1>1, EmptySeq
<1>3. Head(s \o t) = Head(s)
  BY <1>1, <1>2
<1>4. /\ Tail(s) \in Seq(S) /\ Len(Tail(s)) = Len(s) - 1
      /\ \A i \in 1 .. Len(s) - 1 : Tail(s)[i] = s[i + 1]
  BY HeadTailProperties
<1>5. /\ Tail(s \o t) \in Seq(S) /\ Len(Tail(s \o t)) = Len(s) + Len(t) - 1
      /\ \A i \in 1 .. Len(s) + Len(t) - 1 : Tail(s \o t)[i] = (s \o t)[i + 1]
  BY <1>1, <1>2, HeadTailProperties
<1>6. /\ Tail(s) \o t \in Seq(S) /\ Len(Tail(s) \o t) = Len(s) - 1 + Len(t)
      /\ \A i \in 1 .. Len(s) - 1 + Len(t) : (Tail(s) \o t)[i] =
             IF i <= Len(s) - 1 THEN Tail(s)[i] ELSE t[i - (Len(s) - 1)]
  BY <1>4, ConcatProperties
<1>7. \A i \in 1 .. Len(s) + Len(t) : (s \o t)[i] =
             IF i <= Len(s) THEN s[i] ELSE t[i - Len(s)]
  BY ConcatProperties
<1>8. \A i \in 1 .. Len(s) + Len(t) - 1 : Tail(s \o t)[i] = (Tail(s) \o t)[i]
  BY <1>1, <1>4, <1>5, <1>6, <1>7
<1> QED
  BY <1>1, <1>2, <1>3, <1>5, <1>6, <1>8, SeqEqual

\* The swap and the rest of the loop do not change the abstract queue; running
\* a task executes its oldest entry.
LEMMA LoopRefines ==
  ASSUME IInv, LoopNext
  PROVE  Abstract!Execute \/ UNCHANGED Abstract!vars
<1>1. m_pending_tasks \in Seq(Task) /\ to_run \in Seq(Task) /\ done \in Seq(Task)
  BY DEF IInv, TypeOK
<1>2. CASE RunTask
  BY <1>1, <1>2, HeadTailOfConcat DEF RunTask, Abstract!Execute
<1>3. CASE SwapPending
  <2>1. to_run = <<>> /\ to_run' = m_pending_tasks /\ m_pending_tasks' = <<>> /\ done' = done
    BY <1>3 DEF IInv, SwapPending
  <2>2. m_pending_tasks \o <<>> = <<>> \o m_pending_tasks
    BY <1>1, ConcatEmptySeq
  <2> QED
    BY <2>1, <2>2 DEF Abstract!vars
<1>4. CASE WhileNotQuit \/ PollEvents \/ PollTimeout \/ ProcessWork \/ PendingDone
  BY <1>4 DEF WhileNotQuit, PollEvents, PollTimeout, ProcessWork, PendingDone, Abstract!vars
<1> QED
  BY <1>2, <1>3, <1>4 DEF LoopNext

\* io_service implements the abstract queue of tasks, for any set of callers:
\* run_task() from many threads is as good as one FIFO queue.
THEOREM RefinesTaskQueue == Spec => ImplementsTaskQueue
<1>1. Init => Abstract!Init
  BY DEF Init, Abstract!Init
<1>2. IInv /\ [Next]_vars => [Abstract!Next]_(Abstract!vars)
  <2> SUFFICES ASSUME IInv, [Next]_vars
               PROVE  [Abstract!Next]_(Abstract!vars)
    OBVIOUS
  <2>1. ASSUME NEW c \in Callers, QueueTaskPush(c)
        PROVE  Abstract!Next
    BY <2>1, PushIsAccept, PushAccepts DEF Abstract!Next
  <2>2. ASSUME NEW c \in Callers, QueueTaskLock(c) \/ WakeMeUp(c) \/ Quit(c)
        PROVE  UNCHANGED Abstract!vars
    BY <2>2 DEF QueueTaskLock, WakeMeUp, Quit, Abstract!vars
  <2>3. CASE LoopNext
    BY <2>3, LoopRefines DEF Abstract!Next
  <2>4. CASE UNCHANGED vars
    BY <2>4 DEF vars, Abstract!vars
  <2> QED
    BY <2>1, <2>2, <2>3, <2>4 DEF Next, CallerNext
<1> QED
  BY IInvHolds, <1>1, <1>2, PTL DEF Spec, ImplementsTaskQueue, Abstract!Spec
================================================================================
